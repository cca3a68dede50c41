----------------------------- MODULE OrdersService -----------------------------
(***************************************************************************)
(* OrdersService: the HTTP handlers that create an order and move it       *)
(* through its statuses.  Each handler reads the order, decides, updates   *)
(* the row by id alone and then emits an event, so a request is in flight  *)
(* over two or three steps, and what it read may be stale when it writes.  *)
(*                                                                         *)
(* OrdersController is guarded by JwtAuthGuard only: any user with a valid *)
(* session reaches every handler, whatever @Roles says.                    *)
(***************************************************************************)
EXTENDS DeliveryStore, FiniteSets

CONSTANTS
    Request,        \* slots for requests in flight
    Asked,          \* bound: the statuses clients ask changeStatus for
    MaxBacklog,     \* bound: no request arrives while more events are queued
    MaxReady        \* bound: how many times READY is written to one order

ASSUME RequestAssumption ==
    /\ Asked \subseteq Status
    /\ MaxBacklog \in Nat
    /\ MaxReady \in Nat

VARIABLE requests   \* [Request -> a handler between two of its awaits, or Idle]

Op == {"changeStatus", "assignDriver", "completeOrder", "acceptOrder"}

\* What a handler holds between its read and its last step: the status it is
\* about to write (or has written), and the driver it assigns (completeOrder:
\* the driver who calls it).
InFlight == [step : {"update", "emit"}, op : Op, order : Order,
             next : Status, driver : User \cup {NoDriver}]

ASSUME IdleAssumption == Idle \notin InFlight

RequestsTypeOK == requests \in [Request -> InFlight \cup {Idle}]

RequestsInit == requests = [r \in Request |-> Idle]

Busy(r) == requests[r] # Idle
RequestsOf(o) == {r \in Request : Busy(r) /\ requests[r].order = o}

At(r, step, op) == Busy(r) /\ requests[r].step = step /\ requests[r].op = op

\* The bounds on the requests that arrive.
Accepts(r) == ~Busy(r) /\ Len(events) <= MaxBacklog
RoomForReady(o) ==
    readied[o] + Cardinality({r \in RequestsOf(o) : requests[r].step = "update"
                                  /\ requests[r].next = "READY"}) < MaxReady

Hold(r, op, o, next, d) ==
    requests' = [requests EXCEPT ![r] =
                   [step |-> "update", op |-> op, order |-> o, next |-> next,
                    driver |-> d]]
ThenEmit(r) == requests' = [requests EXCEPT ![r].step = "emit"]
Finish(r) == requests' = [requests EXCEPT ![r] = Idle]

--------------------------------------------------------------------------------
\* create: staff of a restaurant order in their own tenant, anyone else in the
\* tenant the request names.  One transaction; an error in it is swallowed and
\* leaves no row.
OrderTenants(u) ==
    IF role[u] \in {"RESTAURANT_ADMIN", "RESTAURANT_CASHIER"} THEN {home[u]}
    ELSE Tenant

CreateOrder(u, o) ==
    /\ ~Exists(o)
    /\ \E t \in OrderTenants(u) :
         orders' = [orders EXCEPT ![o] =
                      [status |-> "CREATED", driver |-> NoDriver, tenant |-> t]]
    /\ reached' = [reached EXCEPT ![o] = {"CREATED"}]
    /\ UNCHANGED <<offers, events, readied, faults, requests>>

--------------------------------------------------------------------------------
\* Mutant: refuses delivered and cancelled orders, and forgets the table.
CanChangeToAny(o, next) == orders[o].status \notin {"DELIVERED", "CANCELLED"}

\* changeStatus: any status the table allows from the one just read, except
\* from a delivered or cancelled order.
CanChange(o, next) ==
    /\ orders[o].status \notin {"DELIVERED", "CANCELLED"}
    /\ <<orders[o].status, next>> \in validTransitions

\* Mutant: emits before the update is sent.
ChangeStatusReadEmitting(r, u, o, next) ==
    /\ Accepts(r)
    /\ next = "READY" => RoomForReady(o)
    /\ Visible(o, u)
    /\ CanChange(o, next)
    /\ Hold(r, "changeStatus", o, next, NoDriver)
    /\ Emit(<<StatusChanged(o, next, NoDriver)>>)
    /\ UNCHANGED <<orders, offers, reached, readied, faults>>

ChangeStatusRead(r, u, o, next) ==
    /\ Accepts(r)
    /\ next = "READY" => RoomForReady(o)
    /\ Visible(o, u)
    /\ CanChange(o, next)
    /\ Hold(r, "changeStatus", o, next, NoDriver)
    /\ UNCHANGED storeVars

ChangeStatusUpdate(r) ==
    /\ At(r, "update", "changeStatus")
    /\ SetStatus(requests[r].order, requests[r].next)
    /\ ThenEmit(r)
    /\ UNCHANGED <<offers, events, faults>>

\* Mutant: nobody hears that an order is ready.
ChangeStatusEventsButReady(o, next) == <<StatusChanged(o, next, NoDriver)>>

ChangeStatusEvents(o, next) ==
    (IF next = "READY" THEN <<Ready(o)>> ELSE << >>)
      \o <<StatusChanged(o, next, NoDriver)>>

ChangeStatusEmit(r) ==
    /\ At(r, "emit", "changeStatus")
    /\ Emit(ChangeStatusEvents(requests[r].order, requests[r].next))
    /\ Finish(r)
    /\ UNCHANGED <<orders, offers, reached, readied, faults>>

--------------------------------------------------------------------------------
\* Mutant: takes an order in any status that has no driver yet.
CanAssignAnyStatus(o, u, d) ==
    /\ orders[o].driver = NoDriver
    /\ home[d] = home[u]
    /\ role[d] = "DRIVER"

\* assignDriver: reads the order, then the driver.  The second read looks at the
\* driver's User row alone, which no handler here writes: the two are one step.
CanAssign(o, u, d) ==
    /\ orders[o].driver = NoDriver
    /\ orders[o].status \in Assignable
    /\ home[d] = home[u]
    /\ role[d] = "DRIVER"

AssignDriverRead(r, u, o, d) ==
    /\ Accepts(r)
    /\ Visible(o, u)
    /\ CanAssign(o, u, d)
    /\ Hold(r, "assignDriver", o, "ASSIGNED", d)
    /\ UNCHANGED storeVars

AssignDriverUpdate(r) ==
    /\ At(r, "update", "assignDriver")
    /\ requests[r].driver \in HasProfile
    /\ SetOrder(requests[r].order, "ASSIGNED", requests[r].driver)
    /\ ThenEmit(r)
    /\ UNCHANGED <<offers, events, faults>>

\* Mutant: the emit is left out, as acceptOrder's is.
AssignDriverEmitSilent(r) ==
    /\ At(r, "emit", "assignDriver")
    /\ Finish(r)
    /\ UNCHANGED storeVars

AssignDriverEmit(r) ==
    /\ At(r, "emit", "assignDriver")
    /\ Emit(<<StatusChanged(requests[r].order, "ASSIGNED", requests[r].driver)>>)
    /\ Finish(r)
    /\ UNCHANGED <<orders, offers, reached, readied, faults>>

--------------------------------------------------------------------------------
\* completeOrder: by the driver the order was assigned to when it was read.
CanComplete(o, u) ==
    /\ role[u] = "DRIVER"
    /\ orders[o].driver = u
    /\ orders[o].status = "ASSIGNED"

CompleteOrderRead(r, u, o) ==
    /\ Accepts(r)
    /\ Visible(o, u)
    /\ CanComplete(o, u)
    /\ Hold(r, "completeOrder", o, "DELIVERED", u)
    /\ UNCHANGED storeVars

CompleteOrderUpdate(r) ==
    /\ At(r, "update", "completeOrder")
    /\ SetStatus(requests[r].order, "DELIVERED")
    /\ ThenEmit(r)
    /\ UNCHANGED <<offers, events, faults>>

CompleteOrderEmit(r) ==
    /\ At(r, "emit", "completeOrder")
    /\ Emit(<<StatusChanged(requests[r].order, "DELIVERED", NoDriver)>>)
    /\ Finish(r)
    /\ UNCHANGED <<orders, offers, reached, readied, faults>>

--------------------------------------------------------------------------------
\* Mutant: no validateTransition.
CanAcceptAlways(o) == TRUE

\* acceptOrder: any user of the tenant while the order is offered; it does not
\* ask for an offer to that user, and the emit is commented out.
CanAccept(o) == <<orders[o].status, "ASSIGNED">> \in validTransitions

AcceptOrderRead(r, u, o) ==
    /\ Accepts(r)
    /\ Visible(o, u)
    /\ CanAccept(o)
    /\ Hold(r, "acceptOrder", o, "ASSIGNED", u)
    /\ UNCHANGED storeVars

AcceptOrderUpdate(r) ==
    /\ At(r, "update", "acceptOrder")
    /\ requests[r].driver \in HasProfile
    /\ SetOrder(requests[r].order, "ASSIGNED", requests[r].driver)
    /\ Finish(r)
    /\ UNCHANGED <<offers, events, faults>>

--------------------------------------------------------------------------------
\* Order.idDriver references DriverProfile: the database refuses to assign an
\* order to a user without one, and the request ends with that error.
ForeignKeyRefuses(r) ==
    /\ At(r, "update", "assignDriver") \/ At(r, "update", "acceptOrder")
    /\ requests[r].driver \notin HasProfile
    /\ Finish(r)
    /\ UNCHANGED storeVars

\* Mutant: emits in a finally.
RequestFailsEmitting(r) ==
    /\ Busy(r)
    /\ Fault
    /\ Emit(<<StatusChanged(requests[r].order, requests[r].next, NoDriver)>>)
    /\ Finish(r)
    /\ UNCHANGED <<orders, offers, reached, readied>>

\* The update throws: at "update" the row was not written, at "emit" it was and
\* only the answer was lost.  Either way the event is never emitted.
RequestFails(r) ==
    /\ Busy(r)
    /\ Fault
    /\ Finish(r)
    /\ UNCHANGED <<orders, offers, events, reached, readied>>

\* Requests that arrive: nothing obliges a client to send one.
RequestArrives ==
    \/ \E u \in User, o \in Order : CreateOrder(u, o)
    \/ \E r \in Request, u \in User, o \in Order :
         \/ \E next \in Asked : ChangeStatusRead(r, u, o, next)
         \/ \E d \in User : AssignDriverRead(r, u, o, d)
         \/ CompleteOrderRead(r, u, o)
         \/ AcceptOrderRead(r, u, o)

\* What the process goes on with once a request is in flight.
RequestStep(r) ==
    \/ ChangeStatusUpdate(r) \/ ChangeStatusEmit(r)
    \/ AssignDriverUpdate(r) \/ AssignDriverEmit(r)
    \/ CompleteOrderUpdate(r) \/ CompleteOrderEmit(r)
    \/ AcceptOrderUpdate(r)
    \/ ForeignKeyRefuses(r)

================================================================================
