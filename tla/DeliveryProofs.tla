----------------------------- MODULE DeliveryProofs -----------------------------
(***************************************************************************)
(* Proofs about the delivery flow, for every value of its constants.       *)
(***************************************************************************)
EXTENDS DeliveryProperties, TLAPS

--------------------------------------------------------------------------------
(***************************************************************************)
(* The helpers of the store keep its types.                                *)
(***************************************************************************)

\* Emitting well-formed events leaves a queue of well-formed events.
LEMMA EmitType ==
    ASSUME events \in Seq(Event), NEW es \in Seq(Event), Emit(es)
    PROVE  events' \in Seq(Event)
BY DEF Emit

\* Delivering the oldest event leaves a queue of well-formed events.
LEMMA DeliverType ==
    ASSUME events \in Seq(Event), NEW kind, NextEvent(kind), Deliver
    PROVE  events' \in Seq(Event)
BY DEF Deliver, NextEvent

\* The oldest event has the fields its kind has.
LEMMA HeadType ==
    ASSUME events \in Seq(Event), NEW kind, NextEvent(kind)
    PROVE  /\ Head(events) \in Event
           /\ kind = "order.status_changed" => Head(events) \in StatusEvent
           /\ kind = "order.ready" => Head(events) \in ReadyEvent
           /\ kind = "order.offered" => Head(events) \in OfferedEvent
<1>1. Head(events) \in Event
  BY DEF NextEvent
<1>2. QED
  BY <1>1 DEF NextEvent, Event, StatusEvent, ReadyEvent, OfferedEvent

\* An update of an order's row writes a row, and keeps the history well-formed.
LEMMA SetOrderType ==
    ASSUME orders \in [Order -> Row], reached \in [Order -> SUBSET Status],
           readied \in [Order -> Nat],
           NEW o \in Order, NEW st \in Status, NEW d \in User \cup {NoDriver},
           SetOrder(o, st, d)
    PROVE  /\ orders' \in [Order -> Row]
           /\ reached' \in [Order -> SUBSET Status]
           /\ readied' \in [Order -> Nat]
<1>1. orders' \in [Order -> Row]
  BY DEF SetOrder, Row
<1>2. reached' \in [Order -> SUBSET Status]
  BY DEF SetOrder
<1>3. readied' \in [Order -> Nat]
  BY DEF SetOrder
<1>4. QED
  BY <1>1, <1>2, <1>3

--------------------------------------------------------------------------------
(***************************************************************************)
(* Type correctness.                                                       *)
(***************************************************************************)

\* The types that an HTTP handler can disturb.
LEMMA RequestKeepsType ==
    ASSUME TypeOK, NEW r \in Request,
           RequestStep(r) \/ RequestFails(r)
    PROVE  StoreTypeOK' /\ RequestsTypeOK'
<1> USE DEF TypeOK, StoreTypeOK, RequestsTypeOK
<1> DEFINE q == requests[r]
<1>0. Busy(r) => q \in InFlight
  BY DEF Busy
<1>1. CASE \/ ChangeStatusUpdate(r) \/ AssignDriverUpdate(r)
           \/ CompleteOrderUpdate(r) \/ AcceptOrderUpdate(r)
  <2>1. Busy(r)
    BY <1>1 DEF ChangeStatusUpdate, AssignDriverUpdate, CompleteOrderUpdate,
                AcceptOrderUpdate, At
  <2>2. q.order \in Order /\ q.next \in Status /\ q.driver \in User \cup {NoDriver}
    BY <1>0, <2>1 DEF InFlight
  <2>3. \E st \in Status, d \in User \cup {NoDriver} : SetOrder(q.order, st, d)
    <3>1. orders[q.order].driver \in User \cup {NoDriver}
      BY <2>2 DEF Row
    <3>2. "ASSIGNED" \in Status /\ "DELIVERED" \in Status
      BY DEF Status
    <3>3. QED
      BY <1>1, <2>2, <3>1, <3>2 DEF ChangeStatusUpdate, AssignDriverUpdate,
         CompleteOrderUpdate, AcceptOrderUpdate, SetStatus
  <2>4. /\ orders' \in [Order -> Row]
        /\ reached' \in [Order -> SUBSET Status]
        /\ readied' \in [Order -> Nat]
    BY <2>2, <2>3, SetOrderType
  <2>5. UNCHANGED <<offers, events, faults>>
    BY <1>1 DEF ChangeStatusUpdate, AssignDriverUpdate, CompleteOrderUpdate,
                AcceptOrderUpdate
  <2>6. requests' \in [Request -> InFlight \cup {Idle}]
    <3>1. CASE ThenEmit(r)
      BY <1>0, <2>1, <3>1 DEF ThenEmit, InFlight
    <3>2. CASE Finish(r)
      BY <3>2 DEF Finish
    <3>3. QED
      BY <1>1, <3>1, <3>2 DEF ChangeStatusUpdate, AssignDriverUpdate,
         CompleteOrderUpdate, AcceptOrderUpdate
  <2>7. QED
    BY <2>4, <2>5, <2>6
<1>2. CASE ChangeStatusEmit(r) \/ AssignDriverEmit(r) \/ CompleteOrderEmit(r)
  <2>1. Busy(r)
    BY <1>2 DEF ChangeStatusEmit, AssignDriverEmit, CompleteOrderEmit, At
  <2>2. q.order \in Order /\ q.next \in Status /\ q.driver \in User \cup {NoDriver}
    BY <1>0, <2>1 DEF InFlight
  <2>3. /\ StatusChanged(q.order, q.next, NoDriver) \in Event
        /\ StatusChanged(q.order, "ASSIGNED", q.driver) \in Event
        /\ StatusChanged(q.order, "DELIVERED", NoDriver) \in Event
        /\ Ready(q.order) \in Event
    BY <2>2 DEF StatusChanged, Ready, Event, StatusEvent, ReadyEvent, Status
  <2>4. /\ ChangeStatusEvents(q.order, q.next) \in Seq(Event)
        /\ <<StatusChanged(q.order, "ASSIGNED", q.driver)>> \in Seq(Event)
        /\ <<StatusChanged(q.order, "DELIVERED", NoDriver)>> \in Seq(Event)
    BY <2>3 DEF ChangeStatusEvents
  <2>5. events' \in Seq(Event)
    BY <1>2, <2>4, EmitType DEF ChangeStatusEmit, AssignDriverEmit, CompleteOrderEmit
  <2>6. QED
    BY <1>2, <2>5 DEF ChangeStatusEmit, AssignDriverEmit, CompleteOrderEmit, Finish
<1>3. CASE ForeignKeyRefuses(r)
  BY <1>3 DEF ForeignKeyRefuses, Finish, storeVars
<1>4. CASE RequestFails(r)
  BY <1>4 DEF RequestFails, Fault, Finish
<1>5. QED
  BY <1>1, <1>2, <1>3, <1>4 DEF RequestStep

\* A request that arrives keeps them too.
LEMMA ArrivalKeepsType ==
    ASSUME TypeOK, RequestArrives
    PROVE  StoreTypeOK' /\ RequestsTypeOK'
<1> USE StoreAssumption, RequestAssumption DEF TypeOK, StoreTypeOK, RequestsTypeOK
<1>1. ASSUME NEW u \in User, NEW o \in Order, CreateOrder(u, o)
      PROVE  StoreTypeOK' /\ RequestsTypeOK'
  <2>1. OrderTenants(u) \subseteq Tenant
    BY DEF OrderTenants
  <2>2. orders' \in [Order -> Row]
    BY <1>1, <2>1 DEF CreateOrder, Row, Status
  <2>3. reached' \in [Order -> SUBSET Status]
    BY <1>1 DEF CreateOrder, Status
  <2>4. QED
    BY <1>1, <2>2, <2>3 DEF CreateOrder
<1>2. ASSUME NEW r \in Request, NEW op \in Op, NEW o \in Order, NEW n \in Status,
             NEW d \in User \cup {NoDriver}, Hold(r, op, o, n, d), UNCHANGED storeVars
      PROVE  StoreTypeOK' /\ RequestsTypeOK'
  <2>1. requests' \in [Request -> InFlight \cup {Idle}]
    BY <1>2 DEF Hold, InFlight
  <2>2. QED
    BY <1>2, <2>1 DEF storeVars
<1>3. {"changeStatus", "assignDriver", "completeOrder", "acceptOrder"} \subseteq Op
      /\ "ASSIGNED" \in Status /\ "DELIVERED" \in Status
  BY DEF Op, Status
<1>4. ASSUME NEW r \in Request, NEW u \in User, NEW o \in Order, NEW n \in Asked,
             ChangeStatusRead(r, u, o, n)
      PROVE  StoreTypeOK' /\ RequestsTypeOK'
  BY <1>2, <1>3, <1>4 DEF ChangeStatusRead
<1>5. ASSUME NEW r \in Request, NEW u \in User, NEW o \in Order, NEW d \in User,
             AssignDriverRead(r, u, o, d)
      PROVE  StoreTypeOK' /\ RequestsTypeOK'
  BY <1>2, <1>3, <1>5 DEF AssignDriverRead
<1>6. ASSUME NEW r \in Request, NEW u \in User, NEW o \in Order,
             CompleteOrderRead(r, u, o) \/ AcceptOrderRead(r, u, o)
      PROVE  StoreTypeOK' /\ RequestsTypeOK'
  BY <1>2, <1>3, <1>6 DEF CompleteOrderRead, AcceptOrderRead
<1>7. QED
  BY <1>1, <1>4, <1>5, <1>6 DEF RequestArrives

\* A run that goes to another step, with other sets of drivers, is a run.
LEMMA RunType ==
    ASSUME NEW x \in Dispatching,
           NEW step \in {"search", "query", "offer", "create", "drain"},
           NEW F \in SUBSET User, NEW L \in SUBSET User
    PROVE  /\ [x EXCEPT !.step = step] \in Dispatching
           /\ [x EXCEPT !.left = L] \in Dispatching
           /\ [x EXCEPT !.step = step, !.left = L] \in Dispatching
           /\ [x EXCEPT !.step = step, !.found = F, !.left = L] \in Dispatching
BY DEF Dispatching

\* A run of the dispatch keeps the types of the store and of the dispatches.
LEMMA DispatchKeepsType ==
    ASSUME TypeOK, NEW k \in Dispatch,
           \/ HandleOrderReady(k) \/ DispatchStep(k) \/ DispatchFails(k)
           \/ \E d \in User : OfferFails(k, d)
    PROVE  StoreTypeOK' /\ DispatchesTypeOK' /\ UNCHANGED drivers
<1> USE StoreAssumption DEF TypeOK, StoreTypeOK, DispatchesTypeOK
<1> DEFINE x == dispatches[k]
<1>0. Runs(k) => x \in Dispatching
  BY DEF Runs
<1>1. CASE HandleOrderReady(k)
  <2>1. Head(events) \in ReadyEvent
    BY <1>1, HeadType DEF HandleOrderReady
  <2>2. events' \in Seq(Event)
    BY <1>1, DeliverType DEF HandleOrderReady
  <2>3. dispatches' \in [Dispatch -> Dispatching \cup {Idle}]
    BY <1>1, <2>1 DEF HandleOrderReady, Dispatching, ReadyEvent
  <2>4. QED
    BY <1>1, <2>2, <2>3 DEF HandleOrderReady
<1>2. CASE MarkSearching(k) \/ MarkOffered(k)
  <2>1. Runs(k) /\ x.order \in Order
    BY <1>0, <1>2 DEF MarkSearching, MarkOffered, RunAt, Dispatching
  <2>2. orders[x.order].driver \in User \cup {NoDriver}
    BY <2>1 DEF Row
  <2>3. /\ orders' \in [Order -> Row]
        /\ reached' \in [Order -> SUBSET Status]
        /\ readied' \in [Order -> Nat]
    <3>1. "SEARCHING_DRIVER" \in Status /\ "OFFERED_TO_DRIVER" \in Status
      BY DEF Status
    <3>2. QED
      BY <1>2, <2>1, <2>2, <3>1, SetOrderType DEF MarkSearching, MarkOffered, SetStatus
  <2>4. dispatches' \in [Dispatch -> Dispatching \cup {Idle}]
    <3>1. /\ [x EXCEPT !.step = "query"] \in Dispatching
          /\ [x EXCEPT !.step = "create"] \in Dispatching
      BY <1>0, <2>1, RunType
    <3>2. \/ dispatches' = [dispatches EXCEPT ![k] = [x EXCEPT !.step = "query"]]
          \/ dispatches' = [dispatches EXCEPT ![k] = [x EXCEPT !.step = "create"]]
      BY <1>2 DEF MarkSearching, MarkOffered, GoTo
    <3>3. QED
      BY <3>1, <3>2
  <2>5. QED
    BY <1>2, <2>3, <2>4 DEF MarkSearching, MarkOffered
<1>3. CASE FindDrivers(k)
  <2>1. Runs(k)
    BY <1>3 DEF FindDrivers, RunAt
  <2>2. PICK S \in NearbyDrivers(x.order) :
          IF S = {} THEN EndRun(k)
          ELSE dispatches' = [dispatches EXCEPT ![k].step = "offer",
                                                ![k].found = S, ![k].left = S]
    BY <1>3 DEF FindDrivers
  <2>3. S \subseteq User
    BY <2>2 DEF NearbyDrivers, InReach
  <2>4. dispatches' \in [Dispatch -> Dispatching \cup {Idle}]
    <3>1. [x EXCEPT !.step = "offer", !.found = S, !.left = S] \in Dispatching
      BY <1>0, <2>1, <2>3, RunType
    <3>2. CASE S = {}
      BY <2>2, <3>2 DEF EndRun
    <3>3. CASE S # {}
      BY <2>2, <3>1, <3>3
    <3>4. QED
      BY <3>2, <3>3
  <2>5. QED
    BY <1>3, <2>4 DEF FindDrivers, storeVars
<1>4. ASSUME NEW d \in User, CreateOffer(k, d) \/ OfferFails(k, d)
      PROVE  StoreTypeOK' /\ DispatchesTypeOK' /\ UNCHANGED drivers
  <2>1. Runs(k) /\ x.order \in Order
    BY <1>0, <1>4 DEF CreateOffer, OfferFails, RunAt, Dispatching
  <2>2. offers' \in [Order -> [User -> Nat]]
    <3>1. \/ UNCHANGED offers
          \/ offers' = [offers EXCEPT ![x.order][d] = @ + 1]
      BY <1>4 DEF CreateOffer, OfferFails
    <3>2. [offers EXCEPT ![x.order][d] = @ + 1] \in [Order -> [User -> Nat]]
      BY <2>1
    <3>3. QED
      BY <3>1, <3>2
  <2>3. dispatches' \in [Dispatch -> Dispatching \cup {Idle}]
    <3>1. x.left \ {d} \in SUBSET User
      BY <1>0, <2>1 DEF Dispatching
    <3>2. /\ [x EXCEPT !.left = x.left \ {d}] \in Dispatching
          /\ [x EXCEPT !.step = "drain", !.left = x.left \ {d}] \in Dispatching
      BY <1>0, <2>1, <3>1, RunType
    <3>3. \/ dispatches' = [dispatches EXCEPT ![k] = [x EXCEPT !.left = x.left \ {d}]]
          \/ dispatches' = [dispatches EXCEPT ![k] =
                              [x EXCEPT !.step = "drain", !.left = x.left \ {d}]]
      BY <1>4 DEF CreateOffer, OfferFails
    <3>4. QED
      BY <3>2, <3>3
  <2>4. faults' \in Nat /\ UNCHANGED <<orders, events, reached, readied, drivers>>
    BY <1>4 DEF CreateOffer, OfferFails, Fault
  <2>5. QED
    BY <2>2, <2>3, <2>4
<1>5. CASE EmitOffered(k)
  <2>1. x \in Dispatching
    BY <1>0, <1>5 DEF EmitOffered, RunAt
  <2>2. Offered(x.order, x.found) \in Event
    BY <2>1 DEF Offered, Event, OfferedEvent, Dispatching
  <2>3. <<Offered(x.order, x.found)>> \in Seq(Event)
    BY <2>2
  <2>4. events' \in Seq(Event)
    BY <1>5, <2>3, EmitType DEF EmitOffered
  <2>5. QED
    BY <1>5, <2>4 DEF EmitOffered, EndRun
<1>6. CASE Drained(k)
  BY <1>6 DEF Drained, EndRun, storeVars
<1>7. CASE DispatchFails(k)
  <2>1. dispatches' \in [Dispatch -> Dispatching \cup {Idle}]
    BY <1>7 DEF DispatchFails, EndRun
  <2>2. faults' \in Nat /\ UNCHANGED <<orders, offers, events, reached, readied, drivers>>
    BY <1>7 DEF DispatchFails, Fault
  <2>3. QED
    BY <2>1, <2>2
<1>8. QED
  BY <1>1, <1>2, <1>3, <1>4, <1>5, <1>6, <1>7 DEF DispatchStep

\* So do the drivers with theirs, and the gateway with its own.
LEMMA DirectoryKeepsType ==
    ASSUME TypeOK, DirectoryStep
    PROVE  StoreTypeOK' /\ DriversTypeOK'
<1> USE DEF TypeOK, StoreTypeOK, DriversTypeOK
<1>1. PICK d \in HasProfile : ChangeOnline(d) \/ UpdateLocation(d)
  BY DEF DirectoryStep
<1>2. drivers' \in [HasProfile -> [online : BOOLEAN, place : Place \cup {Nowhere}]]
  BY <1>1 DEF ChangeOnline, UpdateLocation
<1>3. QED
  BY <1>1, <1>2 DEF ChangeOnline, UpdateLocation, storeVars

\* A step of the gateway keeps the types of the store and of the gateway.
LEMMA GatewayKeepsType ==
    ASSUME TypeOK, GatewayStep \/ \E o \in Order : TellingFails(o)
    PROVE  StoreTypeOK' /\ GatewayTypeOK'
<1> USE StoreAssumption DEF TypeOK, StoreTypeOK, GatewayTypeOK
<1>1. CASE HandleOrderStatusChanged
  <2>1. Head(events) \in StatusEvent
    BY <1>1, HeadType DEF HandleOrderStatusChanged
  <2>2. events' \in Seq(Event)
    BY <1>1, DeliverType DEF HandleOrderStatusChanged
  <2>3. QED
    BY <1>1, <2>1, <2>2 DEF HandleOrderStatusChanged, StatusEvent
<1>2. CASE HandleOrderOffered
  <2>1. Head(events) \in OfferedEvent
    BY <1>2, HeadType DEF HandleOrderOffered
  <2>2. events' \in Seq(Event)
    BY <1>2, DeliverType DEF HandleOrderOffered
  <2>3. toTell' \in [Order -> [User -> Nat]]
    BY <1>2, <2>1 DEF HandleOrderOffered, OfferedEvent
  <2>4. QED
    BY <1>2, <2>2, <2>3 DEF HandleOrderOffered
<1>3. ASSUME NEW o \in Order, NEW d \in User, TellDriver(o, d)
      PROVE  StoreTypeOK' /\ GatewayTypeOK'
  <2>1. toTell' \in [Order -> [User -> Nat]]
    BY <1>3 DEF TellDriver
  <2>2. QED
    BY <1>3, <2>1 DEF TellDriver, storeVars
<1>4. ASSUME NEW o \in Order, TellingFails(o)
      PROVE  StoreTypeOK' /\ GatewayTypeOK'
  <2>1. PICK S \in SUBSET {d \in User : toTell[o][d] > 0} \ {{}} :
          toTell' = [toTell EXCEPT ![o] =
                       [d \in User |-> @[d] - (IF d \in S THEN 1 ELSE 0)]]
    BY <1>4 DEF TellingFails
  <2>2. \A d \in User : toTell[o][d] - (IF d \in S THEN 1 ELSE 0) \in Nat
    BY <2>1
  <2>3. toTell' \in [Order -> [User -> Nat]]
    BY <2>1, <2>2
  <2>4. QED
    BY <1>4, <2>3 DEF TellingFails, Fault
<1>5. QED
  BY <1>1, <1>2, <1>3, <1>4 DEF GatewayStep

\* The initial state has the right types.
LEMMA InitType == Init => TypeOK
BY StoreAssumption DEF Init, TypeOK, StoreInit, StoreTypeOK, Row, RequestsInit,
   RequestsTypeOK, DriversInit, DriversTypeOK, DispatchesInit, DispatchesTypeOK,
   GatewayInit, GatewayTypeOK

\* Every step keeps the types.
LEMMA NextType == TypeOK /\ [Next]_vars => TypeOK'
<1> SUFFICES ASSUME TypeOK, [Next]_vars PROVE TypeOK'
  OBVIOUS
<1>1. CASE /\ \/ RequestArrives
              \/ \E r \in Request : RequestStep(r) \/ RequestFails(r)
           /\ UNCHANGED <<drivers, dispatches, gatewayVars>>
  <2>1. StoreTypeOK' /\ RequestsTypeOK'
    BY <1>1, ArrivalKeepsType, RequestKeepsType
  <2>2. QED
    BY <1>1, <2>1 DEF TypeOK, DriversTypeOK, DispatchesTypeOK, GatewayTypeOK, gatewayVars
<1>2. CASE DirectoryStep /\ UNCHANGED <<requests, dispatches, gatewayVars>>
  <2>1. StoreTypeOK' /\ DriversTypeOK'
    BY <1>2, DirectoryKeepsType
  <2>2. QED
    BY <1>2, <2>1 DEF TypeOK, RequestsTypeOK, DispatchesTypeOK, GatewayTypeOK, gatewayVars
<1>3. CASE /\ \E k \in Dispatch :
                \/ HandleOrderReady(k) \/ DispatchStep(k) \/ DispatchFails(k)
                \/ \E d \in User : OfferFails(k, d)
           /\ UNCHANGED <<requests, gatewayVars>>
  <2>1. StoreTypeOK' /\ DispatchesTypeOK' /\ UNCHANGED drivers
    BY <1>3, DispatchKeepsType
  <2>2. QED
    BY <1>3, <2>1 DEF TypeOK, RequestsTypeOK, DriversTypeOK, GatewayTypeOK, gatewayVars
<1>4. CASE /\ GatewayStep \/ \E o \in Order : TellingFails(o)
           /\ UNCHANGED <<requests, drivers, dispatches>>
  <2>1. StoreTypeOK' /\ GatewayTypeOK'
    BY <1>4, GatewayKeepsType
  <2>2. QED
    BY <1>4, <2>1 DEF TypeOK, RequestsTypeOK, DriversTypeOK, DispatchesTypeOK
<1>5. CASE Crash
  BY <1>5 DEF Crash, Fault, TypeOK, StoreTypeOK, RequestsTypeOK, DriversTypeOK,
     DispatchesTypeOK, GatewayTypeOK
<1>6. CASE UNCHANGED vars
  BY <1>6 DEF vars, storeVars, gatewayVars, TypeOK, StoreTypeOK, RequestsTypeOK,
     DriversTypeOK, DispatchesTypeOK, GatewayTypeOK
<1>7. QED
  BY <1>1, <1>2, <1>3, <1>4, <1>5, <1>6 DEF Next

(***************************************************************************)
(* The variables of the delivery flow always have their types: no handler  *)
(* writes a status, a driver or an event that the others cannot read.      *)
(***************************************************************************)
THEOREM TypeCorrect == Spec => []TypeOK
BY InitType, NextType, PTL DEF Spec
================================================================================
