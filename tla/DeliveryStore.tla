----------------------------- MODULE DeliveryStore -----------------------------
(***************************************************************************)
(* What the handlers of the delivery flow share: the Order and OrderOffer  *)
(* tables of the database, and the event queue of the Node process.        *)
(*                                                                         *)
(* Every statement a handler sends to the database is atomic; between two  *)
(* statements any other handler may run.  Events are emitted with          *)
(* EventEmitter2 and every listener is registered with {async: true}, so   *)
(* a listener runs later, from the process's setImmediate queue: a FIFO.   *)
(***************************************************************************)
EXTENDS OrderStatus, Naturals, Sequences

CONSTANTS
    Order,          \* ids orders can get
    Tenant,
    NoTenant,       \* tenant of an order that does not exist yet
    User,           \* users with a valid session
    NoDriver,       \* Order.idDriver = null
    role,           \* [User -> Role]: taken as fixed while orders are handled
    home,           \* [User -> Tenant]: User.idTenant
    HasProfile,     \* the users that have a DriverProfile row
    Idle,           \* an unused slot for a handler in flight
    MaxFaults       \* bound: failed statements and process crashes

Role == {"SUPER_ADMIN", "TENANT_ADMIN", "RESTAURANT_ADMIN",
         "RESTAURANT_CASHIER", "DRIVER", "CUSTOMER"}

ASSUME StoreAssumption ==
    /\ NoTenant \notin Tenant
    /\ NoDriver \notin User
    /\ role \in [User -> Role]
    /\ home \in [User -> Tenant]
    /\ HasProfile \subseteq User
    /\ MaxFaults \in Nat

VARIABLES
    orders,     \* [Order -> row]: status, idDriver and idTenant
    offers,     \* [Order -> [User -> Nat]]: OrderOffer rows
    events,     \* the events emitted and not yet delivered, oldest first
    reached,    \* history: the statuses each order has ever had
    readied,    \* history: how many times READY was written to each order
    faults      \* how many statements have failed, plus crashes

storeVars == <<orders, offers, events, reached, readied, faults>>

Row == [status : Status \cup {Absent},
        driver : User \cup {NoDriver},
        tenant : Tenant \cup {NoTenant}]

StatusEvent == [kind : {"order.status_changed"}, order : Order, status : Status,
                driver : User \cup {NoDriver}]
ReadyEvent == [kind : {"order.ready"}, order : Order]
OfferedEvent == [kind : {"order.offered"}, order : Order, drivers : SUBSET User]

Event == StatusEvent \cup ReadyEvent \cup OfferedEvent

StoreTypeOK ==
    /\ orders \in [Order -> Row]
    /\ offers \in [Order -> [User -> Nat]]
    /\ events \in Seq(Event)
    /\ reached \in [Order -> SUBSET Status]
    /\ readied \in [Order -> Nat]
    /\ faults \in Nat

StoreInit ==
    /\ orders = [o \in Order |->
                   [status |-> Absent, driver |-> NoDriver, tenant |-> NoTenant]]
    /\ offers = [o \in Order |-> [d \in User |-> 0]]
    /\ events = << >>
    /\ reached = [o \in Order |-> {}]
    /\ readied = [o \in Order |-> 0]
    /\ faults = 0

--------------------------------------------------------------------------------
Exists(o) == orders[o].status # Absent

\* A query of one order of the caller's tenant finds it.
Visible(o, u) == Exists(o) /\ orders[o].tenant = home[u]

\* prisma.order.update({where: {idOrder: o}, data: {status: st, idDriver: d}}).
SetOrder(o, st, d) ==
    /\ orders' = [orders EXCEPT ![o].status = st, ![o].driver = d]
    /\ reached' = [reached EXCEPT ![o] = @ \cup {st}]
    /\ readied' = [readied EXCEPT ![o] = @ + (IF st = "READY" THEN 1 ELSE 0)]

\* ... with data: {status: st} alone.
SetStatus(o, st) == SetOrder(o, st, orders[o].driver)

StatusChanged(o, st, d) ==
    [kind |-> "order.status_changed", order |-> o, status |-> st, driver |-> d]
Ready(o) == [kind |-> "order.ready", order |-> o]
Offered(o, ds) == [kind |-> "order.offered", order |-> o, drivers |-> ds]

NextEvent(kind) == events # << >> /\ Head(events).kind = kind

Emit(es) == events' = events \o es
Deliver == events' = Tail(events)

Fault == faults < MaxFaults /\ faults' = faults + 1
================================================================================
