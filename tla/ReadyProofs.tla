------------------------------- MODULE ReadyProofs -------------------------------
(***************************************************************************)
(* The two ends of an order's dispatch.  At one end, an order in READY     *)
(* always has somebody about to look for a driver, as long as nothing      *)
(* fails: the duty passes from the request to the event to the dispatch,   *)
(* and no step drops it.  At the other end, an order that has settled is   *)
(* out of reach: nothing that could write it is in flight, and no handler  *)
(* that reads it goes on.  In between, an offer that is recorded is on its *)
(* way to its driver: the run, the event and the gateway's loop hand it on *)
(* as the duty was handed to the run.                                      *)
(***************************************************************************)
EXTENDS OfferProofs

\* Who is about to look for a driver for o.
Announces(r, o) ==
    r \in RequestsOf(o) /\ requests[r].step = "emit" /\ requests[r].next = "READY"
IsQueued(o) == \E i \in DOMAIN events : events[i] = Ready(o)
Searches(k, o) == k \in DispatchesOf(o) /\ dispatches[k].step = "search"

Remembered(o) ==
    \/ \E r \in Request : Announces(r, o)
    \/ IsQueued(o)
    \/ \E k \in Dispatch : Searches(k, o)

\* ReadyNeverForgotten, in these terms.
LEMMA RememberedIsEnough ==
    ReadyNeverForgotten <=>
      (faults = 0 => \A o \in Order : orders[o].status = "READY" => Remembered(o))
BY DEF ReadyNeverForgotten, Remembered, Announces, IsQueued, Searches, RequestsOf,
   DispatchesOf

--------------------------------------------------------------------------------
\* What is queued stays queued while the queue grows.
LEMMA EmitKeepsQueued ==
    ASSUME events \in Seq(Event), NEW es \in Seq(Event), Emit(es), NEW o \in Order,
           IsQueued(o) \/ \E i \in DOMAIN es : es[i] = Ready(o)
    PROVE  IsQueued(o)'
<1>1. events' = events \o es
  BY DEF Emit
<1>2. CASE IsQueued(o)
  <2>1. PICK i \in DOMAIN events : events[i] = Ready(o)
    BY <1>2 DEF IsQueued
  <2>2. i \in DOMAIN events' /\ events'[i] = events[i]
    BY <1>1
  <2>3. QED
    BY <2>1, <2>2 DEF IsQueued, Ready
<1>3. ASSUME NEW i \in DOMAIN es, es[i] = Ready(o)
      PROVE  IsQueued(o)'
  <2>1. Len(events) + i \in DOMAIN events' /\ events'[Len(events) + i] = es[i]
    BY <1>1
  <2>2. QED
    BY <1>3, <2>1 DEF IsQueued, Ready
<1>4. QED
  BY <1>2, <1>3

\* Delivering an event takes only that event off the queue.
LEMMA DeliverKeepsQueued ==
    ASSUME events \in Seq(Event), events # << >>, Deliver, NEW o \in Order,
           IsQueued(o), Head(events) # Ready(o)
    PROVE  IsQueued(o)'
<1>1. PICK i \in DOMAIN events : events[i] = Ready(o)
  BY DEF IsQueued
<1>2. i # 1
  BY <1>1
<1>3. i - 1 \in DOMAIN events' /\ events'[i - 1] = events[i]
  BY <1>1, <1>2 DEF Deliver
<1>4. QED
  BY <1>1, <1>3 DEF IsQueued, Ready

\* What changeStatus emits, in the one case and in the other.
LEMMA ChangeStatusEmits ==
    ASSUME NEW p \in Order, NEW n \in Status, Emit(ChangeStatusEvents(p, n))
    PROVE  /\ <<Ready(p), StatusChanged(p, n, NoDriver)>> \in Seq(Event)
           /\ <<StatusChanged(p, n, NoDriver)>> \in Seq(Event)
           /\ n = "READY" => Emit(<<Ready(p), StatusChanged(p, n, NoDriver)>>)
           /\ n # "READY" => Emit(<<StatusChanged(p, n, NoDriver)>>)
<1>1. Ready(p) \in Event /\ StatusChanged(p, n, NoDriver) \in Event
  BY DEF Ready, StatusChanged, Event, ReadyEvent, StatusEvent
<1>2. CASE n = "READY"
  BY <1>1, <1>2 DEF ChangeStatusEvents, Emit
<1>3. CASE n # "READY"
  BY <1>1, <1>3 DEF ChangeStatusEvents, Emit
<1>4. QED
  BY <1>2, <1>3

\* It leaves what is queued there,
LEMMA ChangeStatusKeepsQueued ==
    ASSUME events \in Seq(Event), NEW p \in Order, NEW n \in Status,
           Emit(ChangeStatusEvents(p, n)), NEW o \in Order, IsQueued(o)
    PROVE  IsQueued(o)'
BY ChangeStatusEmits, EmitKeepsQueued

\* and queues the event of the order that it has made READY.
LEMMA ChangeStatusQueues ==
    ASSUME events \in Seq(Event), NEW o \in Order, Emit(ChangeStatusEvents(o, "READY"))
    PROVE  IsQueued(o)'
<1> DEFINE es == <<Ready(o), StatusChanged(o, "READY", NoDriver)>>
<1>1. "READY" \in Status
  BY DEF Status
<1>2. es \in Seq(Event) /\ Emit(es)
  BY <1>1, ChangeStatusEmits
<1>3. 1 \in DOMAIN es /\ es[1] = Ready(o)
  OBVIOUS
<1>4. QED
  BY <1>2, <1>3, EmitKeepsQueued

--------------------------------------------------------------------------------
(***************************************************************************)
(* The duty to dispatch passes on.                                         *)
(***************************************************************************)

\* Nobody whose duty it is leaves it, and what is queued stays queued.
LEMMA DutyStays ==
    ASSUME NEW o \in Order, Remembered(o),
           \A r \in Request : Announces(r, o) => Announces(r, o)' \/ IsQueued(o)',
           IsQueued(o) => Remembered(o)',
           \A k \in Dispatch : Searches(k, o) => Searches(k, o)'
    PROVE  Remembered(o)'
BY DEF Remembered

\* A step of a request keeps or makes the duty.
LEMMA RequestKeepsDuty ==
    ASSUME TypeOK, WritesJustified, NEW r \in Request, RequestStep(r),
           UNCHANGED dispatches, NEW o \in Order, orders'[o].status = "READY",
           orders[o].status = "READY" => Remembered(o)
    PROVE  Remembered(o)'
<1> USE DEF TypeOK, StoreTypeOK, RequestsTypeOK
<1> DEFINE q == requests[r]
<1>1. Busy(r)
  BY DEF RequestStep, ChangeStatusUpdate, ChangeStatusEmit, AssignDriverUpdate,
     AssignDriverEmit, CompleteOrderUpdate, CompleteOrderEmit, AcceptOrderUpdate,
     ForeignKeyRefuses, At
<1>2. /\ q \in InFlight /\ q.order \in Order /\ q.next \in Status
      /\ q.driver \in User \cup {NoDriver} /\ RequestJustified(r)
  BY <1>1 DEF Busy, InFlight, WritesJustified
<1>3. \A k \in Dispatch : Searches(k, o) => Searches(k, o)'
  BY DEF Searches, DispatchesOf, Runs
<1>4. ASSUME \A p \in Request \ {r} : requests'[p] = requests[p]
      PROVE  \A p \in Request \ {r} : Announces(p, o) => Announces(p, o)'
  BY <1>4 DEF Announces, RequestsOf, Busy
<1>5. CASE \/ ChangeStatusUpdate(r) \/ AssignDriverUpdate(r)
           \/ CompleteOrderUpdate(r) \/ AcceptOrderUpdate(r)
  <2>1. PICK n \in Status, d \in User \cup {NoDriver} :
          /\ SetOrder(q.order, n, d)
          /\ n = "READY" => ChangeStatusUpdate(r) /\ q.next = "READY"
    <3>1. orders[q.order].driver \in User \cup {NoDriver}
      BY <1>2 DEF Row
    <3>2. "ASSIGNED" \in Status /\ "DELIVERED" \in Status
      BY DEF Status
    <3>3. CASE ChangeStatusUpdate(r)
      BY <1>2, <3>1, <3>3 DEF ChangeStatusUpdate, SetStatus
    <3>4. CASE CompleteOrderUpdate(r)
      BY <1>2, <3>1, <3>2, <3>4 DEF CompleteOrderUpdate, SetStatus
    <3>5. CASE AssignDriverUpdate(r) \/ AcceptOrderUpdate(r)
      BY <1>2, <3>2, <3>5 DEF AssignDriverUpdate, AcceptOrderUpdate
    <3>6. QED
      BY <1>5, <3>3, <3>4, <3>5
  <2>2. /\ orders'[q.order].status = n
        /\ q.order # o => orders'[o] = orders[o]
    BY <1>2, <2>1, SetOrderHistory
  <2>3. UNCHANGED events
    BY <1>5 DEF ChangeStatusUpdate, AssignDriverUpdate, CompleteOrderUpdate,
       AcceptOrderUpdate
  <2>4. CASE q.order = o
    <3>1. ThenEmit(r) /\ q.next = "READY"
      BY <2>1, <2>2, <2>4 DEF ChangeStatusUpdate
    <3>2. /\ requests'[r] \in InFlight
          /\ requests'[r].step = "emit" /\ requests'[r].order = o
          /\ requests'[r].next = "READY"
      <4>1. requests'[r] = [q EXCEPT !.step = "emit"]
        BY <3>1 DEF ThenEmit
      <4>2. QED
        BY <1>2, <2>4, <3>1, <4>1 DEF InFlight
    <3>3. Announces(r, o)'
      BY <3>2, IdleAssumption DEF Announces, RequestsOf, Busy
    <3>4. QED
      BY <3>3 DEF Remembered
  <2>5. CASE q.order # o
    <3>1. \A p \in Request \ {r} : requests'[p] = requests[p]
      BY <1>5 DEF ChangeStatusUpdate, AssignDriverUpdate, CompleteOrderUpdate,
         AcceptOrderUpdate, ThenEmit, Finish
    <3>2. ~Announces(r, o)
      BY <2>5 DEF Announces, RequestsOf
    <3>3. IsQueued(o) => IsQueued(o)'
      BY <2>3 DEF IsQueued, Ready
    <3>4. Remembered(o)
      BY <2>2, <2>5
    <3>5. \A p \in Request : Announces(p, o) => Announces(p, o)'
      BY <1>4, <3>1, <3>2
    <3>6. QED
      BY <1>3, <3>3, <3>4, <3>5, DutyStays DEF Remembered
  <2>6. QED
    BY <2>4, <2>5
<1>6. CASE ChangeStatusEmit(r)
  <2>1. Emit(ChangeStatusEvents(q.order, q.next)) /\ Finish(r) /\ UNCHANGED orders
    BY <1>6 DEF ChangeStatusEmit
  <2>2. Announces(r, o) => IsQueued(o)'
    <3>1. SUFFICES ASSUME Announces(r, o) PROVE IsQueued(o)'
      OBVIOUS
    <3>2. q.order = o /\ q.next = "READY"
      BY <3>1 DEF Announces, RequestsOf
    <3>3. QED
      BY <1>2, <2>1, <3>2, ChangeStatusQueues
  <2>3. IsQueued(o) => IsQueued(o)'
    <3>1. SUFFICES ASSUME IsQueued(o) PROVE IsQueued(o)'
      OBVIOUS
    <3>2. QED
      BY <1>2, <2>1, <3>1, ChangeStatusKeepsQueued
  <2>4. \A p \in Request \ {r} : requests'[p] = requests[p]
    BY <2>1 DEF Finish
  <2>5. QED
    BY <1>3, <1>4, <2>1, <2>2, <2>3, <2>4, DutyStays DEF Remembered
<1>7. CASE AssignDriverEmit(r) \/ CompleteOrderEmit(r) \/ ForeignKeyRefuses(r)
  <2>1. Finish(r) /\ UNCHANGED orders
    BY <1>7 DEF AssignDriverEmit, CompleteOrderEmit, ForeignKeyRefuses, storeVars
  <2>2. ~Announces(r, o)
    BY <1>2, <1>7 DEF AssignDriverEmit, CompleteOrderEmit, ForeignKeyRefuses, At,
       RequestJustified, WritesOf, Announces
  <2>3. IsQueued(o) => IsQueued(o)'
    <3>1. \A st \in Status, d \in User \cup {NoDriver} :
            <<StatusChanged(q.order, st, d)>> \in Seq(Event)
      BY <1>2 DEF StatusChanged, Event, StatusEvent
    <3>2. "ASSIGNED" \in Status /\ "DELIVERED" \in Status
      BY DEF Status
    <3>3. CASE AssignDriverEmit(r) \/ CompleteOrderEmit(r)
      BY <1>2, <3>1, <3>2, <3>3, EmitKeepsQueued DEF AssignDriverEmit, CompleteOrderEmit
    <3>4. CASE ForeignKeyRefuses(r)
      BY <3>4 DEF ForeignKeyRefuses, storeVars, IsQueued, Ready
    <3>5. QED
      BY <1>7, <3>3, <3>4
  <2>4. \A p \in Request \ {r} : requests'[p] = requests[p]
    BY <2>1 DEF Finish
  <2>5. QED
    BY <1>3, <1>4, <2>1, <2>2, <2>3, <2>4, DutyStays DEF Remembered
<1>8. QED
  BY <1>5, <1>6, <1>7 DEF RequestStep

\* A step of the dispatch keeps the duty, or does it.
LEMMA DispatchKeepsDuty ==
    ASSUME TypeOK, NEW k \in Dispatch, HandleOrderReady(k) \/ DispatchStep(k),
           UNCHANGED requests, NEW o \in Order, orders'[o].status = "READY",
           orders[o].status = "READY" => Remembered(o)
    PROVE  Remembered(o)'
<1> USE DEF TypeOK, StoreTypeOK, DispatchesTypeOK
<1> DEFINE x == dispatches[k]
<1>1. \A r \in Request : Announces(r, o) => Announces(r, o)'
  BY DEF Announces, RequestsOf, Busy
<1>2. ASSUME \A p \in Dispatch \ {k} : dispatches'[p] = dispatches[p]
      PROVE  \A p \in Dispatch \ {k} : Searches(p, o) => Searches(p, o)'
  BY <1>2 DEF Searches, DispatchesOf, Runs
<1>3. Runs(k) => x \in Dispatching /\ x.order \in Order
  BY DEF Runs, Dispatching
<1>4. CASE HandleOrderReady(k)
  <2>1. Head(events) \in ReadyEvent /\ events # << >> /\ Deliver /\ UNCHANGED orders
    BY <1>4, HeadType DEF HandleOrderReady, NextEvent
  <2>2. /\ dispatches'[k] = [step |-> "search", order |-> Head(events).order,
                             found |-> {}, left |-> {}]
        /\ \A p \in Dispatch \ {k} : dispatches'[p] = dispatches[p]
    BY <1>4 DEF HandleOrderReady
  <2>3. IsQueued(o) => Remembered(o)'
    <3>1. CASE Head(events) = Ready(o)
      <4>1. dispatches'[k].order = o /\ dispatches'[k].step = "search"
        BY <2>2, <3>1 DEF Ready
      <4>2. dispatches'[k] # Idle
        <5>1. dispatches'[k] \in Dispatching
          BY <2>2, <3>1 DEF Ready, Dispatching
        <5>2. QED
          BY <5>1, DispatchAssumption
      <4>3. Searches(k, o)'
        BY <4>1, <4>2 DEF Searches, DispatchesOf, Runs
      <4>4. QED
        BY <4>3 DEF Remembered
    <3>2. CASE Head(events) # Ready(o)
      BY <2>1, <3>2, DeliverKeepsQueued DEF Remembered
    <3>3. QED
      BY <3>1, <3>2
  <2>4. ~Searches(k, o)
    BY <1>4 DEF HandleOrderReady, Searches, DispatchesOf
  <2>5. QED
    BY <1>1, <1>2, <2>1, <2>2, <2>3, <2>4, DutyStays
<1>5. CASE MarkSearching(k)
  <2>1. Runs(k) /\ SetStatus(x.order, "SEARCHING_DRIVER") /\ GoTo(k, "query")
    BY <1>5 DEF MarkSearching, RunAt
  <2>2. x.order # o
    BY <1>3, <2>1 DEF SetStatus, SetOrder, Row
  <2>3. orders'[o] = orders[o] /\ UNCHANGED events
    BY <1>3, <1>5, <2>1, <2>2 DEF SetStatus, SetOrder, MarkSearching
  <2>4. \A p \in Dispatch \ {k} : dispatches'[p] = dispatches[p]
    BY <2>1 DEF GoTo
  <2>5. ~Searches(k, o)
    BY <2>2 DEF Searches, DispatchesOf
  <2>6. IsQueued(o) => IsQueued(o)'
    BY <2>3 DEF IsQueued, Ready
  <2>7. QED
    BY <1>1, <1>2, <2>3, <2>4, <2>5, <2>6, DutyStays DEF Remembered
<1>6. CASE \/ FindDrivers(k) \/ MarkOffered(k) \/ EmitOffered(k) \/ Drained(k)
           \/ \E d \in User : CreateOffer(k, d)
  <2>1. Runs(k) /\ x.step # "search"
    BY <1>6 DEF FindDrivers, MarkOffered, EmitOffered, Drained, CreateOffer, RunAt
  <2>2. orders'[o].status = orders[o].status
    <3>1. CASE MarkOffered(k)
      <4>1. x.order # o
        BY <1>3, <2>1, <3>1 DEF MarkOffered, SetStatus, SetOrder, Row
      <4>2. QED
        BY <1>3, <2>1, <3>1, <4>1 DEF MarkOffered, SetStatus, SetOrder
    <3>2. CASE ~MarkOffered(k)
      BY <1>6, <3>2 DEF FindDrivers, EmitOffered, Drained, CreateOffer, storeVars
    <3>3. QED
      BY <3>1, <3>2
  <2>3. IsQueued(o) => IsQueued(o)'
    <3>1. CASE EmitOffered(k)
      <4>1. <<Offered(x.order, x.found)>> \in Seq(Event)
        BY <1>3, <2>1 DEF Offered, Event, OfferedEvent, Dispatching
      <4>2. QED
        BY <3>1, <4>1, EmitKeepsQueued DEF EmitOffered
    <3>2. CASE ~EmitOffered(k)
      <4>1. UNCHANGED events
        BY <1>6, <3>2 DEF FindDrivers, MarkOffered, Drained, CreateOffer, storeVars
      <4>2. QED
        BY <4>1 DEF IsQueued, Ready
    <3>3. QED
      BY <3>1, <3>2
  <2>4. \A p \in Dispatch \ {k} : dispatches'[p] = dispatches[p]
    BY <1>6 DEF FindDrivers, MarkOffered, EmitOffered, Drained, CreateOffer, GoTo, EndRun
  <2>5. ~Searches(k, o)
    BY <2>1 DEF Searches
  <2>6. QED
    BY <1>1, <1>2, <2>2, <2>3, <2>4, <2>5, DutyStays DEF Remembered
<1>7. QED
  BY <1>4, <1>5, <1>6 DEF DispatchStep

\* An event of another kind, delivered, is not of this duty.
LEMMA GatewayKeepsDuty ==
    ASSUME TypeOK, GatewayStep, UNCHANGED <<requests, dispatches>>, NEW o \in Order,
           Remembered(o)
    PROVE  Remembered(o)'
<1> USE DEF TypeOK, StoreTypeOK
<1>1. /\ \A r \in Request : Announces(r, o) => Announces(r, o)'
      /\ \A k \in Dispatch : Searches(k, o) => Searches(k, o)'
  <2>1. UNCHANGED orders
    BY DEF GatewayStep, HandleOrderStatusChanged, HandleOrderOffered, TellDriver, storeVars
  <2>2. QED
    BY <2>1 DEF Announces, RequestsOf, Busy, Searches, DispatchesOf, Runs
<1>2. IsQueued(o) => IsQueued(o)'
  <2>1. SUFFICES ASSUME IsQueued(o) PROVE IsQueued(o)'
    OBVIOUS
  <2>2. CASE HandleOrderStatusChanged \/ HandleOrderOffered
    <3>1. events # << >> /\ Deliver /\ Head(events).kind # "order.ready"
      BY <2>2 DEF HandleOrderStatusChanged, HandleOrderOffered, NextEvent
    <3>2. Head(events) # Ready(o)
      BY <3>1 DEF Ready
    <3>3. QED
      BY <2>1, <3>1, <3>2, DeliverKeepsQueued
  <2>3. ASSUME NEW p \in Order, NEW d \in User, TellDriver(p, d)
        PROVE  IsQueued(o)'
    BY <2>1, <2>3 DEF TellDriver, storeVars, IsQueued, Ready
  <2>4. QED
    BY <2>2, <2>3 DEF GatewayStep
<1>3. QED
  BY <1>1, <1>2, DutyStays DEF Remembered

\* A request that arrives makes no order READY and takes nobody's slot.
LEMMA ArrivalKeepsDuty ==
    ASSUME TypeOK, RequestArrives, UNCHANGED dispatches, NEW o \in Order,
           orders'[o].status = "READY", orders[o].status = "READY" => Remembered(o)
    PROVE  Remembered(o)'
<1> USE DEF TypeOK, StoreTypeOK, RequestsTypeOK
<1>1. \A k \in Dispatch : Searches(k, o) => Searches(k, o)'
  BY DEF Searches, DispatchesOf, Runs
<1>2. UNCHANGED events
  BY DEF RequestArrives, CreateOrder, ChangeStatusRead, AssignDriverRead,
     CompleteOrderRead, AcceptOrderRead, storeVars
<1>3. IsQueued(o) => IsQueued(o)'
  BY <1>2 DEF IsQueued, Ready
<1>4. \A r \in Request : Busy(r) => requests'[r] = requests[r]
  <2>1. ASSUME NEW r \in Request, ~Busy(r), NEW op, NEW p, NEW n, NEW d,
               Hold(r, op, p, n, d)
        PROVE  \A q \in Request : Busy(q) => requests'[q] = requests[q]
    BY <2>1 DEF Hold, Busy
  <2>2. \/ UNCHANGED requests
        \/ \E r \in Request : ~Busy(r) /\ \E op, p, n, d : Hold(r, op, p, n, d)
    BY DEF RequestArrives, CreateOrder, ChangeStatusRead, AssignDriverRead,
       CompleteOrderRead, AcceptOrderRead, Accepts
  <2>3. QED
    BY <2>1, <2>2
<1>5. \A r \in Request : Announces(r, o) => Announces(r, o)'
  BY <1>4 DEF Announces, RequestsOf, Busy
<1>6. orders[o].status = "READY"
  <2>1. ASSUME NEW u \in User, NEW p \in Order, CreateOrder(u, p)
        PROVE  orders[o].status = "READY"
    <3>1. orders'[p].status = "CREATED"
      BY <2>1 DEF CreateOrder
    <3>2. orders'[o] = orders[o]
      BY <2>1, <3>1 DEF CreateOrder
    <3>3. QED
      BY <3>2
  <2>2. (\E u \in User, p \in Order : CreateOrder(u, p)) \/ UNCHANGED orders
    BY DEF RequestArrives, ChangeStatusRead, AssignDriverRead, CompleteOrderRead,
       AcceptOrderRead, storeVars
  <2>3. QED
    BY <2>1, <2>2
<1>7. QED
  BY <1>1, <1>3, <1>5, <1>6, DutyStays DEF Remembered

--------------------------------------------------------------------------------
\* A failure or a crash counts.
LEMMA FaultCounts == TypeOK /\ Fault => faults' # 0
BY DEF TypeOK, StoreTypeOK, Fault

\* A step without a failure leaves the count alone.
LEMMA NoFaultOrFault ==
    ASSUME TypeOK, [Next]_vars, faults' = 0
    PROVE  /\ faults = 0
           /\ \/ RequestArrives /\ UNCHANGED <<dispatches, gatewayVars>>
              \/ \E r \in Request : RequestStep(r) /\ UNCHANGED <<dispatches, gatewayVars>>
              \/ \E k \in Dispatch : /\ HandleOrderReady(k) \/ DispatchStep(k)
                                     /\ UNCHANGED <<requests, gatewayVars>>
              \/ GatewayStep /\ UNCHANGED <<requests, dispatches>>
              \/ UNCHANGED <<orders, offers, events, requests, dispatches, gatewayVars>>
<1>1. ~Fault
  BY FaultCounts
<1>2. CASE RequestArrives /\ UNCHANGED <<dispatches, gatewayVars>>
  BY <1>2 DEF RequestArrives, CreateOrder, ChangeStatusRead, AssignDriverRead,
     CompleteOrderRead, AcceptOrderRead, storeVars
<1>3. ASSUME NEW r \in Request, RequestStep(r)
      PROVE  faults' = faults
  BY <1>3 DEF RequestStep, ChangeStatusUpdate, ChangeStatusEmit, AssignDriverUpdate,
     AssignDriverEmit, CompleteOrderUpdate, CompleteOrderEmit, AcceptOrderUpdate,
     ForeignKeyRefuses, storeVars
<1>4. ASSUME NEW k \in Dispatch, HandleOrderReady(k) \/ DispatchStep(k)
      PROVE  faults' = faults
  BY <1>4 DEF HandleOrderReady, DispatchStep, MarkSearching, FindDrivers, MarkOffered,
     CreateOffer, EmitOffered, Drained, storeVars
<1>5. CASE GatewayStep /\ UNCHANGED <<requests, dispatches>>
  BY <1>5 DEF GatewayStep, HandleOrderStatusChanged, HandleOrderOffered, TellDriver,
     storeVars
<1>6. CASE DirectoryStep /\ UNCHANGED <<requests, dispatches, gatewayVars>>
  BY <1>6 DEF DirectoryStep, ChangeOnline, UpdateLocation, storeVars
<1>7. CASE UNCHANGED vars
  BY <1>7 DEF vars, storeVars
<1>8. QED
  BY <1>1, <1>2, <1>3, <1>4, <1>5, <1>6, <1>7 DEF Next, RequestFails, DispatchFails,
     OfferFails, TellingFails, Crash

\* Every step keeps the duty.
LEMMA NextRemembers ==
    IInv /\ ReadyNeverForgotten /\ [Next]_vars => ReadyNeverForgotten'
<1> SUFFICES ASSUME IInv, ReadyNeverForgotten, [Next]_vars, faults' = 0,
                    NEW o \in Order, orders'[o].status = "READY"
             PROVE  Remembered(o)'
  BY DEF ReadyNeverForgotten, Remembered, Announces, IsQueued, Searches, RequestsOf,
     DispatchesOf
<1>1. TypeOK /\ WritesJustified
  BY DEF IInv
<1>2. orders[o].status = "READY" => Remembered(o)
  BY <1>1, NoFaultOrFault, RememberedIsEnough
<1>3. CASE RequestArrives /\ UNCHANGED dispatches
  BY <1>1, <1>2, <1>3, ArrivalKeepsDuty
<1>4. ASSUME NEW r \in Request, RequestStep(r), UNCHANGED dispatches
      PROVE  Remembered(o)'
  BY <1>1, <1>2, <1>4, RequestKeepsDuty
<1>5. ASSUME NEW k \in Dispatch, HandleOrderReady(k) \/ DispatchStep(k), UNCHANGED requests
      PROVE  Remembered(o)'
  BY <1>1, <1>2, <1>5, DispatchKeepsDuty
<1>6. CASE GatewayStep /\ UNCHANGED <<requests, dispatches>>
  <2>1. UNCHANGED orders
    BY <1>6 DEF GatewayStep, HandleOrderStatusChanged, HandleOrderOffered, TellDriver,
       storeVars
  <2>2. QED
    BY <1>1, <1>2, <1>6, <2>1, GatewayKeepsDuty
<1>7. CASE UNCHANGED <<orders, events, requests, dispatches>>
  BY <1>2, <1>7 DEF Remembered, Announces, IsQueued, Searches, RequestsOf, DispatchesOf,
     Busy, Runs, Ready
<1>8. QED
  BY <1>1, <1>3, <1>4, <1>5, <1>6, <1>7, NoFaultOrFault

\* Nothing is READY at first.
LEMMA InitRemembers == Init => ReadyNeverForgotten
<1> SUFFICES ASSUME Init PROVE ReadyNeverForgotten
  OBVIOUS
<1>1. \A o \in Order : orders[o].status = Absent
  BY DEF Init, StoreInit
<1>2. \A o \in Order : orders[o].status # "READY"
  BY <1>1, StatusExists DEF Status
<1>3. QED
  BY <1>2 DEF ReadyNeverForgotten

(***************************************************************************)
(* While nothing fails, no READY order is ever left with nobody about to   *)
(* look for a driver: racing updates, overtaking events and dispatches in  *)
(* any number hand the duty on, from request to event to listener.         *)
(***************************************************************************)
THEOREM ReadyAlwaysRemembered == Spec => []ReadyNeverForgotten
BY InitRemembers, InvariantHolds, NextRemembers, PTL DEF Spec

--------------------------------------------------------------------------------
(***************************************************************************)
(* The other end: nothing reaches an order that has settled.               *)
(***************************************************************************)

\* A step leaves a settled order alone: its row, the requests and the
\* dispatches of it, and the queue, which holds no event to dispatch it.
LeavesAlone(o) ==
    /\ orders'[o] = orders[o]
    /\ RequestsOf(o)' = {}
    /\ DispatchesOf(o)' = {}
    /\ ~IsQueued(o)'

\* An order that a step leaves alone is as settled after it.
LEMMA LeftAloneIsSettled ==
    ASSUME NEW o \in Order, Settled(o), LeavesAlone(o)
    PROVE  Settled(o)'
BY DEF Settled, Quiet, LeavesAlone, IsQueued, Ready

\* What a settled order is.
LEMMA SettledFacts ==
    ASSUME NEW o \in Order, Settled(o)
    PROVE  /\ \A r \in Request : Busy(r) => requests[r].order # o
           /\ \A k \in Dispatch : Runs(k) => dispatches[k].order # o
           /\ ~IsQueued(o)
           /\ \A n \in Status : <<orders[o].status, n>> \notin Flow
           /\ Exists(o)
<1>1. orders[o].status \in Final
  BY DEF Settled
<1>2. Exists(o) /\ \A n \in Status : <<orders[o].status, n>> \notin Flow
  BY <1>1, StatusExists DEF Final, Exists
<1>3. QED
  BY <1>2 DEF Settled, Quiet, RequestsOf, DispatchesOf, IsQueued

\* The queue holds no event of o to dispatch, if none is emitted.
LEMMA EmitLeavesUnqueued ==
    ASSUME events \in Seq(Event), NEW es \in Seq(Event), Emit(es), NEW o \in Order,
           ~IsQueued(o), \A i \in DOMAIN es : es[i] # Ready(o)
    PROVE  ~IsQueued(o)'
<1>1. events' = events \o es
  BY DEF Emit
<1>2. ASSUME NEW i \in DOMAIN events'
      PROVE  events'[i] # Ready(o)
  <2>1. \/ i \in DOMAIN events /\ events'[i] = events[i]
        \/ \E j \in DOMAIN es : events'[i] = es[j]
    <3>1. CASE i <= Len(events)
      BY <1>1, <1>2, <3>1
    <3>2. CASE i > Len(events)
      <4>1. i - Len(events) \in DOMAIN es /\ events'[i] = es[i - Len(events)]
        BY <1>1, <1>2, <3>2
      <4>2. QED
        BY <4>1
    <3>3. QED
      BY <1>1, <1>2, <3>1, <3>2
  <2>2. QED
    BY <2>1 DEF IsQueued
<1>3. QED
  BY <1>2 DEF IsQueued, Ready

\* Nor when one is delivered.
LEMMA DeliverLeavesUnqueued ==
    ASSUME events \in Seq(Event), events # << >>, Deliver, NEW o \in Order, ~IsQueued(o)
    PROVE  ~IsQueued(o)'
<1>1. ASSUME NEW i \in DOMAIN events'
      PROVE  events'[i] # Ready(o)
  <2>1. i + 1 \in DOMAIN events /\ events'[i] = events[i + 1]
    BY <1>1 DEF Deliver
  <2>2. QED
    BY <2>1 DEF IsQueued
<1>2. QED
  BY <1>1 DEF IsQueued, Ready

\* No handler that reads a settled order goes on.
LEMMA ArrivalLeavesSettled ==
    ASSUME TypeOK, RequestArrives, UNCHANGED dispatches, NEW o \in Order, Settled(o)
    PROVE  LeavesAlone(o)
<1> USE DEF TypeOK, StoreTypeOK, RequestsTypeOK
<1>1. /\ \A r \in Request : Busy(r) => requests[r].order # o
      /\ \A k \in Dispatch : Runs(k) => dispatches[k].order # o
      /\ ~IsQueued(o)
      /\ \A n \in Status : <<orders[o].status, n>> \notin Flow
      /\ Exists(o)
  BY SettledFacts
<1>2. UNCHANGED events
  BY DEF RequestArrives, CreateOrder, ChangeStatusRead, AssignDriverRead,
     CompleteOrderRead, AcceptOrderRead, storeVars
<1>3. ~IsQueued(o)' /\ DispatchesOf(o)' = {}
  BY <1>1, <1>2 DEF IsQueued, Ready, DispatchesOf, Runs
<1>4. ASSUME NEW u \in User, NEW p \in Order, CreateOrder(u, p)
      PROVE  LeavesAlone(o)
  <2>1. p # o /\ UNCHANGED requests
    BY <1>1, <1>4 DEF CreateOrder
  <2>2. orders'[o] = orders[o]
    BY <1>4, <2>1 DEF CreateOrder
  <2>3. RequestsOf(o)' = {}
    BY <1>1, <2>1 DEF RequestsOf, Busy
  <2>4. QED
    BY <1>3, <2>2, <2>3 DEF LeavesAlone
<1>5. ASSUME NEW r \in Request, NEW op, NEW p \in Order, NEW n, NEW d,
             Hold(r, op, p, n, d), UNCHANGED storeVars, p # o
      PROVE  LeavesAlone(o)
  <2>1. \A q \in Request : Busy(q)' => requests'[q].order # o
    <3>1. /\ requests'[r].order = p
          /\ \A q \in Request \ {r} : requests'[q] = requests[q]
      BY <1>5 DEF Hold
    <3>2. QED
      BY <1>1, <1>5, <3>1 DEF Busy
  <2>2. RequestsOf(o)' = {}
    BY <2>1 DEF RequestsOf
  <2>3. QED
    BY <1>3, <1>5, <2>2 DEF LeavesAlone, storeVars
<1>6. ASSUME NEW r \in Request, NEW u \in User, NEW p \in Order, NEW n \in Asked,
             ChangeStatusRead(r, u, p, n)
      PROVE  LeavesAlone(o)
  <2>1. p # o
    <3>1. <<orders[p].status, n>> \in Flow /\ n \in Status
      BY <1>6, RequestAssumption DEF ChangeStatusRead, CanChange, Flow
    <3>2. QED
      BY <1>1, <3>1
  <2>2. QED
    BY <1>5, <1>6, <2>1 DEF ChangeStatusRead
<1>7. ASSUME NEW r \in Request, NEW u \in User, NEW p \in Order, NEW d \in User,
             AssignDriverRead(r, u, p, d)
      PROVE  LeavesAlone(o)
  <2>1. p # o
    <3>1. <<orders[p].status, "ASSIGNED">> \in Flow
      BY <1>7 DEF AssignDriverRead, CanAssign, Flow
    <3>2. QED
      BY <1>1, <3>1 DEF Status
  <2>2. QED
    BY <1>5, <1>7, <2>1 DEF AssignDriverRead
<1>8. ASSUME NEW r \in Request, NEW u \in User, NEW p \in Order,
             CompleteOrderRead(r, u, p) \/ AcceptOrderRead(r, u, p)
      PROVE  LeavesAlone(o)
  <2>1. p # o
    <3>1. \E n \in {"ASSIGNED", "DELIVERED"} : <<orders[p].status, n>> \in Flow
      BY <1>8 DEF CompleteOrderRead, CanComplete, AcceptOrderRead, CanAccept, Flow
    <3>2. QED
      BY <1>1, <3>1 DEF Status
  <2>2. QED
    BY <1>5, <1>8, <2>1 DEF CompleteOrderRead, AcceptOrderRead
<1>9. QED
  BY <1>4, <1>6, <1>7, <1>8 DEF RequestArrives

\* A request in flight writes and announces the order it is of.
LEMMA RequestLeavesSettled ==
    ASSUME TypeOK, NEW r \in Request, RequestStep(r) \/ RequestFails(r),
           UNCHANGED dispatches, NEW o \in Order, Settled(o)
    PROVE  LeavesAlone(o)
<1> USE DEF TypeOK, StoreTypeOK, RequestsTypeOK
<1> DEFINE q == requests[r]
<1>1. /\ \A p \in Request : Busy(p) => requests[p].order # o
      /\ \A k \in Dispatch : Runs(k) => dispatches[k].order # o
      /\ ~IsQueued(o)
  BY SettledFacts
<1>2. Busy(r)
  BY DEF RequestStep, ChangeStatusUpdate, ChangeStatusEmit, AssignDriverUpdate,
     AssignDriverEmit, CompleteOrderUpdate, CompleteOrderEmit, AcceptOrderUpdate,
     ForeignKeyRefuses, At, RequestFails
<1>3. /\ q.order \in Order /\ q.order # o /\ q.next \in Status
      /\ q.driver \in User \cup {NoDriver}
  BY <1>1, <1>2 DEF Busy, InFlight
<1>4. DispatchesOf(o)' = {}
  BY <1>1 DEF DispatchesOf, Runs
<1>5. RequestsOf(o)' = {}
  <2>1. ThenEmit(r) \/ Finish(r)
    BY DEF RequestStep, ChangeStatusUpdate, ChangeStatusEmit, AssignDriverUpdate,
       AssignDriverEmit, CompleteOrderUpdate, CompleteOrderEmit, AcceptOrderUpdate,
       ForeignKeyRefuses, RequestFails
  <2>2. \A p \in Request \ {r} : requests'[p] = requests[p]
    BY <2>1 DEF ThenEmit, Finish
  <2>3. requests'[r] = Idle \/ requests'[r].order = q.order
    BY <1>2, <2>1 DEF ThenEmit, Finish, Busy, InFlight
  <2>4. QED
    BY <1>1, <1>3, <2>2, <2>3 DEF RequestsOf, Busy
<1>6. orders'[o] = orders[o]
  BY <1>3 DEF RequestStep, ChangeStatusUpdate, ChangeStatusEmit, AssignDriverUpdate,
     AssignDriverEmit, CompleteOrderUpdate, CompleteOrderEmit, AcceptOrderUpdate,
     ForeignKeyRefuses, RequestFails, SetStatus, SetOrder, storeVars
<1>7. ~IsQueued(o)'
  <2>1. \A p, st, d : StatusChanged(p, st, d) # Ready(o)
    BY DEF StatusChanged, Ready
  <2>2. Ready(q.order) # Ready(o)
    BY <1>3 DEF Ready
  <2>3. "ASSIGNED" \in Status /\ "DELIVERED" \in Status
    BY DEF Status
  <2>4. \A st \in Status, d \in User \cup {NoDriver} :
          <<StatusChanged(q.order, st, d)>> \in Seq(Event)
    BY <1>3 DEF StatusChanged, Event, StatusEvent
  <2>5. CASE ChangeStatusEmit(r)
    <3>1. Emit(ChangeStatusEvents(q.order, q.next))
      BY <2>5 DEF ChangeStatusEmit
    <3>2. CASE q.next = "READY"
      <4> DEFINE es == <<Ready(q.order), StatusChanged(q.order, q.next, NoDriver)>>
      <4>1. es \in Seq(Event) /\ Emit(es)
        BY <1>3, <3>1, <3>2, ChangeStatusEmits
      <4>2. \A i \in DOMAIN es : es[i] # Ready(o)
        BY <1>3, <2>1, <2>2
      <4>3. QED
        BY <1>1, <4>1, <4>2, EmitLeavesUnqueued
    <3>3. CASE q.next # "READY"
      <4> DEFINE es == <<StatusChanged(q.order, q.next, NoDriver)>>
      <4>1. es \in Seq(Event) /\ Emit(es)
        BY <1>3, <3>1, <3>3, ChangeStatusEmits
      <4>2. \A i \in DOMAIN es : es[i] # Ready(o)
        BY <1>3, <2>1
      <4>3. QED
        BY <1>1, <4>1, <4>2, EmitLeavesUnqueued
    <3>4. QED
      BY <3>2, <3>3
  <2>6. ASSUME NEW st \in Status, NEW d \in User \cup {NoDriver},
               Emit(<<StatusChanged(q.order, st, d)>>)
        PROVE  ~IsQueued(o)'
    <3> DEFINE es == <<StatusChanged(q.order, st, d)>>
    <3>1. es \in Seq(Event) /\ Emit(es)
      BY <2>4, <2>6
    <3>2. \A i \in DOMAIN es : es[i] # Ready(o)
      BY <1>3, <2>1
    <3>3. QED
      BY <1>1, <3>1, <3>2, EmitLeavesUnqueued
  <2>7. CASE AssignDriverEmit(r) \/ CompleteOrderEmit(r)
    BY <1>3, <2>3, <2>6, <2>7 DEF AssignDriverEmit, CompleteOrderEmit
  <2>8. CASE UNCHANGED events
    BY <1>1, <2>8 DEF IsQueued, Ready
  <2>9. QED
    BY <2>5, <2>7, <2>8 DEF RequestStep, ChangeStatusUpdate, AssignDriverUpdate,
       CompleteOrderUpdate, AcceptOrderUpdate, ForeignKeyRefuses, RequestFails, storeVars
<1>8. QED
  BY <1>4, <1>5, <1>6, <1>7 DEF LeavesAlone

\* A dispatch writes the order it runs for, and starts for the event it takes.
LEMMA DispatchLeavesSettled ==
    ASSUME TypeOK, NEW k \in Dispatch,
           \/ HandleOrderReady(k) \/ DispatchStep(k) \/ DispatchFails(k)
           \/ \E d \in User : OfferFails(k, d),
           UNCHANGED requests, NEW o \in Order, Settled(o)
    PROVE  LeavesAlone(o)
<1> USE DEF TypeOK, StoreTypeOK, DispatchesTypeOK
<1> DEFINE x == dispatches[k]
<1>1. /\ \A r \in Request : Busy(r) => requests[r].order # o
      /\ \A p \in Dispatch : Runs(p) => dispatches[p].order # o
      /\ ~IsQueued(o)
  BY SettledFacts
<1>2. RequestsOf(o)' = {}
  BY <1>1 DEF RequestsOf, Busy
<1>3. ASSUME \A p \in Dispatch \ {k} : dispatches'[p] = dispatches[p],
             dispatches'[k] = Idle \/ dispatches'[k].order # o
      PROVE  DispatchesOf(o)' = {}
  BY <1>1, <1>3 DEF DispatchesOf, Runs
<1>4. CASE HandleOrderReady(k)
  <2>1. Head(events) \in ReadyEvent /\ events # << >> /\ Deliver /\ UNCHANGED orders
    BY <1>4, HeadType DEF HandleOrderReady, NextEvent
  <2>2. Head(events) # Ready(o)
    <3>1. 1 \in DOMAIN events /\ Head(events) = events[1]
      BY <2>1
    <3>2. QED
      BY <1>1, <3>1 DEF IsQueued
  <2>3. Head(events).order # o
    BY <2>1, <2>2 DEF ReadyEvent, Ready
  <2>4. /\ dispatches'[k] = [step |-> "search", order |-> Head(events).order,
                             found |-> {}, left |-> {}]
        /\ \A p \in Dispatch \ {k} : dispatches'[p] = dispatches[p]
    BY <1>4 DEF HandleOrderReady
  <2>5. DispatchesOf(o)' = {}
    BY <1>3, <2>3, <2>4
  <2>6. ~IsQueued(o)'
    BY <1>1, <2>1, DeliverLeavesUnqueued
  <2>7. QED
    BY <1>2, <2>1, <2>5, <2>6 DEF LeavesAlone
<1>5. CASE \/ DispatchStep(k) \/ DispatchFails(k) \/ \E d \in User : OfferFails(k, d)
  <2>1. Runs(k)
    BY <1>5 DEF DispatchStep, MarkSearching, FindDrivers, MarkOffered, CreateOffer,
       EmitOffered, Drained, DispatchFails, OfferFails, RunAt
  <2>2. x \in Dispatching /\ x.order \in Order /\ x.order # o
    BY <1>1, <2>1 DEF Runs, Dispatching
  <2>3. DispatchesOf(o)' = {}
    <3>1. \A p \in Dispatch \ {k} : dispatches'[p] = dispatches[p]
      BY <1>5 DEF DispatchStep, MarkSearching, FindDrivers, MarkOffered, CreateOffer,
         EmitOffered, Drained, DispatchFails, OfferFails, GoTo, EndRun
    <3>2. dispatches'[k] = Idle \/ dispatches'[k].order = x.order
      <4>1. CASE EndRun(k)
        BY <4>1 DEF EndRun
      <4>2. CASE \E step : GoTo(k, step)
        BY <2>2, <4>2 DEF GoTo, Dispatching
      <4>3. CASE FindDrivers(k)
        <5>1. PICK S \in NearbyDrivers(x.order) :
                IF S = {} THEN EndRun(k)
                ELSE dispatches' = [dispatches EXCEPT ![k].step = "offer",
                                                      ![k].found = S, ![k].left = S]
          BY <4>3 DEF FindDrivers
        <5>2. CASE S = {}
          BY <4>1, <5>1, <5>2
        <5>3. CASE S # {}
          BY <2>2, <5>1, <5>3 DEF Dispatching
        <5>4. QED
          BY <5>2, <5>3
      <4>4. ASSUME NEW d \in User, CreateOffer(k, d) \/ OfferFails(k, d)
            PROVE  dispatches'[k].order = x.order
        BY <2>2, <4>4 DEF CreateOffer, OfferFails, Dispatching
      <4>5. QED
        BY <1>5, <4>1, <4>2, <4>3, <4>4 DEF DispatchStep, MarkSearching, MarkOffered,
           EmitOffered, Drained, DispatchFails
    <3>3. QED
      BY <1>3, <2>2, <3>1, <3>2
  <2>4. orders'[o] = orders[o]
    <3>1. CASE MarkSearching(k) \/ MarkOffered(k)
      BY <2>2, <3>1 DEF MarkSearching, MarkOffered, SetStatus, SetOrder
    <3>2. CASE ~(MarkSearching(k) \/ MarkOffered(k))
      BY <1>5, <3>2 DEF DispatchStep, FindDrivers, CreateOffer, EmitOffered, Drained,
         DispatchFails, OfferFails, storeVars
    <3>3. QED
      BY <3>1, <3>2
  <2>5. ~IsQueued(o)'
    <3>1. CASE EmitOffered(k)
      <4> DEFINE es == <<Offered(x.order, x.found)>>
      <4>1. Emit(es)
        BY <3>1 DEF EmitOffered
      <4>2. Offered(x.order, x.found) \in Event /\ Offered(x.order, x.found) # Ready(o)
        BY <2>2 DEF Offered, Ready, Event, OfferedEvent, Dispatching
      <4>3. es \in Seq(Event) /\ \A i \in DOMAIN es : es[i] # Ready(o)
        BY <4>2
      <4>4. QED
        BY <1>1, <4>1, <4>3, EmitLeavesUnqueued
    <3>2. CASE ~EmitOffered(k)
      <4>1. UNCHANGED events
        BY <1>5, <3>2 DEF DispatchStep, MarkSearching, FindDrivers, MarkOffered,
           CreateOffer, Drained, DispatchFails, OfferFails, storeVars
      <4>2. QED
        BY <1>1, <4>1 DEF IsQueued, Ready
    <3>3. QED
      BY <3>1, <3>2
  <2>6. QED
    BY <1>2, <2>3, <2>4, <2>5 DEF LeavesAlone
<1>6. QED
  BY <1>4, <1>5

\* What writes no order and only takes events away.
LEMMA OthersLeaveSettled ==
    ASSUME TypeOK, NEW o \in Order, Settled(o), UNCHANGED orders,
           \/ UNCHANGED <<requests, dispatches>>
           \/ /\ requests' = [r \in Request |-> Idle]
              /\ dispatches' = [k \in Dispatch |-> Idle],
           \/ UNCHANGED events
           \/ events # << >> /\ Deliver
           \/ events' = << >>
    PROVE  LeavesAlone(o)
<1>1. /\ \A r \in Request : Busy(r) => requests[r].order # o
      /\ \A p \in Dispatch : Runs(p) => dispatches[p].order # o
      /\ ~IsQueued(o)
  BY SettledFacts
<1>2. RequestsOf(o)' = {} /\ DispatchesOf(o)' = {}
  BY <1>1 DEF RequestsOf, Busy, DispatchesOf, Runs
<1>3. ~IsQueued(o)'
  <2>1. CASE UNCHANGED events
    BY <1>1, <2>1 DEF IsQueued, Ready
  <2>2. CASE events # << >> /\ Deliver
    BY <1>1, <2>2, DeliverLeavesUnqueued DEF TypeOK, StoreTypeOK
  <2>3. CASE events' = << >>
    BY <2>3 DEF IsQueued
  <2>4. QED
    BY <2>1, <2>2, <2>3
<1>4. QED
  BY <1>2, <1>3 DEF LeavesAlone

\* Every step leaves every settled order alone.
LEMMA NextLeavesSettled ==
    ASSUME TypeOK, [Next]_vars, NEW o \in Order, Settled(o)
    PROVE  LeavesAlone(o)
<1>1. CASE RequestArrives /\ UNCHANGED dispatches
  BY <1>1, ArrivalLeavesSettled
<1>2. ASSUME NEW r \in Request, RequestStep(r) \/ RequestFails(r), UNCHANGED dispatches
      PROVE  LeavesAlone(o)
  BY <1>2, RequestLeavesSettled
<1>3. ASSUME NEW k \in Dispatch, UNCHANGED requests,
             \/ HandleOrderReady(k) \/ DispatchStep(k) \/ DispatchFails(k)
             \/ \E d \in User : OfferFails(k, d)
      PROVE  LeavesAlone(o)
  BY <1>3, DispatchLeavesSettled
<1>4. CASE /\ \/ GatewayStep \/ \E p \in Order : TellingFails(p)
              \/ DirectoryStep \/ UNCHANGED vars
           /\ UNCHANGED <<requests, dispatches>>
  <2>1. /\ UNCHANGED orders
        /\ UNCHANGED events \/ (events # << >> /\ Deliver)
    BY <1>4 DEF GatewayStep, HandleOrderStatusChanged, HandleOrderOffered, NextEvent,
       TellDriver, TellingFails, DirectoryStep, ChangeOnline, UpdateLocation, vars, storeVars
  <2>2. QED
    BY <1>4, <2>1, OthersLeaveSettled
<1>5. CASE Crash
  BY <1>5, OthersLeaveSettled DEF Crash
<1>6. QED
  BY <1>1, <1>2, <1>3, <1>4, <1>5 DEF Next, vars

(***************************************************************************)
(* An order that is final, with nothing in flight that could write it,     *)
(* stays so and is never written again, whatever is asked for, delivered,  *)
(* failed or lost in a crash.                                              *)
(***************************************************************************)
THEOREM SettledStaysFinal == Spec => SettledIsFinal
<1>1. TypeOK /\ [Next]_vars =>
        [\A o \in Order : Settled(o) => Settled(o)' /\ orders'[o] = orders[o]]_vars
  <2>1. SUFFICES ASSUME TypeOK, [Next]_vars, NEW o \in Order, Settled(o)
                 PROVE  Settled(o)' /\ orders'[o] = orders[o]
    OBVIOUS
  <2>2. LeavesAlone(o)
    BY <2>1, NextLeavesSettled
  <2>3. QED
    BY <2>1, <2>2, LeftAloneIsSettled DEF LeavesAlone
<1>2. QED
  BY <1>1, TypeCorrect, PTL DEF Spec, SettledIsFinal

--------------------------------------------------------------------------------
(***************************************************************************)
(* The way of an offer, from its row to its driver.                        *)
(***************************************************************************)

\* Who is about to tell d of o.
Creates(k, o, d) ==
    k \in DispatchesOf(o) /\ dispatches[k].step = "create" /\ d \in dispatches[k].found
Names(e, o, d) == e.kind = "order.offered" /\ e.order = o /\ d \in e.drivers
Carried(o, d) == \E i \in DOMAIN events : Names(events[i], o, d)

Owed(o, d) ==
    \/ d \in told[o]
    \/ \E k \in Dispatch : Creates(k, o, d)
    \/ Carried(o, d)
    \/ toTell[o][d] > 0

\* OffersNeverForgotten, in these terms.
LEMMA OwedIsEnough ==
    OffersNeverForgotten <=>
      (faults = 0 => \A o \in Order, d \in User : offers[o][d] > 0 => Owed(o, d))
BY DEF OffersNeverForgotten, AboutToTell, Owed, Creates, Carried, Names, DispatchesOf

\* While nothing fails, no run has thrown.
NoneThrew == faults = 0 => \A k \in Dispatch : Runs(k) => dispatches[k].step # "drain"

\* What is carried stays carried while the queue grows.
LEMMA EmitKeepsCarried ==
    ASSUME events \in Seq(Event), NEW es \in Seq(Event), Emit(es),
           NEW o \in Order, NEW d \in User,
           Carried(o, d) \/ \E i \in DOMAIN es : Names(es[i], o, d)
    PROVE  Carried(o, d)'
<1>1. events' = events \o es
  BY DEF Emit
<1>2. CASE Carried(o, d)
  <2>1. PICK i \in DOMAIN events : Names(events[i], o, d)
    BY <1>2 DEF Carried
  <2>2. i \in DOMAIN events' /\ events'[i] = events[i]
    BY <1>1
  <2>3. QED
    BY <2>1, <2>2 DEF Carried, Names
<1>3. ASSUME NEW i \in DOMAIN es, Names(es[i], o, d)
      PROVE  Carried(o, d)'
  <2>1. Len(events) + i \in DOMAIN events' /\ events'[Len(events) + i] = es[i]
    BY <1>1
  <2>2. QED
    BY <1>3, <2>1 DEF Carried, Names
<1>4. QED
  BY <1>2, <1>3

\* Delivering an event takes only that event off the queue.
LEMMA DeliverKeepsCarried ==
    ASSUME events \in Seq(Event), events # << >>, Deliver,
           NEW o \in Order, NEW d \in User, Carried(o, d)
    PROVE  Carried(o, d)' \/ Names(Head(events), o, d)
<1>1. PICK i \in DOMAIN events : Names(events[i], o, d)
  BY DEF Carried
<1>2. CASE i = 1
  BY <1>1, <1>2
<1>3. CASE i # 1
  <2>1. i - 1 \in DOMAIN events' /\ events'[i - 1] = events[i]
    BY <1>3 DEF Deliver
  <2>2. QED
    BY <1>1, <2>1 DEF Carried, Names
<1>4. QED
  BY <1>2, <1>3

\* What is owed stays owed when nobody who owes it leaves it.
LEMMA OwedStays ==
    ASSUME NEW o \in Order, NEW d \in User, Owed(o, d),
           d \in told[o] => d \in told'[o],
           \A k \in Dispatch : Creates(k, o, d) => Owed(o, d)',
           Carried(o, d) => Owed(o, d)',
           toTell[o][d] > 0 => Owed(o, d)'
    PROVE  Owed(o, d)'
BY DEF Owed

\* A request emits nothing of offers, and takes nothing off the queue.
LEMMA RequestKeepsOwed ==
    ASSUME TypeOK, NEW r \in Request, RequestStep(r), UNCHANGED <<dispatches, gatewayVars>>,
           NEW o \in Order, NEW d \in User, Owed(o, d)
    PROVE  Owed(o, d)'
<1> USE DEF TypeOK, StoreTypeOK, RequestsTypeOK
<1>1. UNCHANGED events \/ \E es \in Seq(Event) : Emit(es)
  <2>1. CASE ChangeStatusEmit(r)
    <3>1. requests[r].order \in Order /\ requests[r].next \in Status
      BY <2>1 DEF ChangeStatusEmit, At, Busy, InFlight
    <3>2. Emit(ChangeStatusEvents(requests[r].order, requests[r].next))
      BY <2>1 DEF ChangeStatusEmit
    <3>3. QED
      BY <3>1, <3>2, ChangeStatusEmits
  <2>2. CASE AssignDriverEmit(r) \/ CompleteOrderEmit(r)
    <3>1. /\ requests[r].order \in Order /\ requests[r].driver \in User \cup {NoDriver}
          /\ "ASSIGNED" \in Status /\ "DELIVERED" \in Status
      BY <2>2 DEF AssignDriverEmit, CompleteOrderEmit, At, Busy, InFlight, Status
    <3>2. \A st \in Status, c \in User \cup {NoDriver} :
            StatusChanged(requests[r].order, st, c) \in Event
      BY <3>1 DEF StatusChanged, Event, StatusEvent
    <3>3. \A st \in Status, c \in User \cup {NoDriver} :
            <<StatusChanged(requests[r].order, st, c)>> \in Seq(Event)
      BY <3>2
    <3>4. \E st \in Status, c \in User \cup {NoDriver} :
            Emit(<<StatusChanged(requests[r].order, st, c)>>)
      BY <2>2, <3>1 DEF AssignDriverEmit, CompleteOrderEmit
    <3>5. QED
      BY <3>3, <3>4
  <2>3. QED
    BY <2>1, <2>2 DEF RequestStep, ChangeStatusUpdate, AssignDriverUpdate,
       CompleteOrderUpdate, AcceptOrderUpdate, ForeignKeyRefuses, storeVars
<1>2. Carried(o, d) => Carried(o, d)'
  BY <1>1, EmitKeepsCarried DEF Carried, Names
<1>3. \A k \in Dispatch : Creates(k, o, d) => Creates(k, o, d)'
  BY DEF Creates, DispatchesOf, Runs
<1>4. QED
  BY <1>2, <1>3 DEF Owed, gatewayVars

\* A run hands over all it has found when it ends by emitting, and owes what it
\* has just created.
LEMMA DispatchKeepsOwed ==
    ASSUME TypeOK, RunsStand, NEW k \in Dispatch, HandleOrderReady(k) \/ DispatchStep(k),
           UNCHANGED gatewayVars, Runs(k) => dispatches[k].step # "drain",
           NEW o \in Order, NEW d \in User,
           offers'[o][d] > 0, offers[o][d] > 0 => Owed(o, d)
    PROVE  Owed(o, d)'
<1> USE DEF TypeOK, StoreTypeOK, DispatchesTypeOK
<1> DEFINE x == dispatches[k]
<1>1. Runs(k) => x \in Dispatching /\ x.order \in Order /\ x.found \subseteq User
  BY DEF Runs, Dispatching
<1>2. \A j \in Dispatch \ {k} : dispatches'[j] = dispatches[j]
  BY DEF HandleOrderReady, DispatchStep, MarkSearching, FindDrivers, MarkOffered,
     CreateOffer, EmitOffered, Drained, GoTo, EndRun
<1>3. \A j \in Dispatch \ {k} : Creates(j, o, d) => Creates(j, o, d)'
  BY <1>2 DEF Creates, DispatchesOf, Runs
<1>4. ASSUME offers[o][d] > 0,
             Creates(k, o, d) => Owed(o, d)', Carried(o, d) => Carried(o, d)'
      PROVE  Owed(o, d)'
  BY <1>3, <1>4 DEF Owed, gatewayVars
<1>5. CASE HandleOrderReady(k)
  <2>1. UNCHANGED offers /\ ~Runs(k) /\ events # << >> /\ Deliver
        /\ Head(events).kind = "order.ready"
    BY <1>5 DEF HandleOrderReady, NextEvent
  <2>2. ~Creates(k, o, d) /\ ~Names(Head(events), o, d)
    BY <2>1 DEF Creates, DispatchesOf, Names
  <2>3. QED
    BY <2>1, <2>2, <1>4, DeliverKeepsCarried
<1>6. CASE MarkSearching(k) \/ FindDrivers(k) \/ MarkOffered(k) \/ Drained(k)
  <2>1. UNCHANGED <<offers, events>> /\ x.step # "create"
    BY <1>6 DEF MarkSearching, FindDrivers, MarkOffered, Drained, RunAt, storeVars
  <2>2. ~Creates(k, o, d) /\ (Carried(o, d) => Carried(o, d)')
    BY <2>1 DEF Creates, Carried, Names
  <2>3. QED
    BY <2>1, <2>2, <1>4
<1>7. ASSUME NEW e \in User, CreateOffer(k, e)
      PROVE  Owed(o, d)'
  <2>1. /\ Runs(k) /\ x.step = "create" /\ e \in x.left /\ UNCHANGED events
        /\ offers' = [offers EXCEPT ![x.order][e] = @ + 1]
        /\ dispatches'[k] = [x EXCEPT !.left = @ \ {e}]
    BY <1>7 DEF CreateOffer, RunAt
  <2>2. /\ dispatches'[k].step = "create" /\ dispatches'[k].order = x.order
        /\ dispatches'[k].found = x.found /\ dispatches'[k] # Idle
    BY <1>1, <2>1, DispatchAssumption DEF Dispatching
  <2>3. o = x.order /\ d \in x.found => Creates(k, o, d)'
    BY <2>2 DEF Creates, DispatchesOf, Runs
  <2>4. e \in x.found
    BY <2>1 DEF RunsStand, RunStands
  <2>5. CASE o = x.order /\ d = e
    BY <2>3, <2>4, <2>5 DEF Owed
  <2>6. CASE ~(o = x.order /\ d = e)
    <3>1. offers'[o][d] = offers[o][d]
      BY <1>1, <2>1, <2>6
    <3>2. Creates(k, o, d) => Creates(k, o, d)'
      BY <2>3 DEF Creates, DispatchesOf
    <3>3. Carried(o, d) => Carried(o, d)'
      BY <2>1 DEF Carried, Names
    <3>4. QED
      BY <3>1, <3>2, <3>3, <1>4 DEF Owed
  <2>7. QED
    BY <2>5, <2>6
<1>8. CASE EmitOffered(k)
  <2> DEFINE ev == Offered(x.order, x.found)
  <2>1. Runs(k) /\ Emit(<<ev>>) /\ UNCHANGED offers
    BY <1>8 DEF EmitOffered, RunAt
  <2>2. ev \in Event
    BY <1>1, <2>1 DEF Offered, Event, OfferedEvent
  <2>3. <<ev>> \in Seq(Event) /\ 1 \in DOMAIN <<ev>> /\ <<ev>>[1] = ev
    BY <2>2
  <2>4. Creates(k, o, d) => Names(ev, o, d)
    BY DEF Creates, DispatchesOf, Names, Offered
  <2>5. Creates(k, o, d) \/ Carried(o, d) => Carried(o, d)'
    <3> HIDE DEF ev
    <3> QED
      BY <2>1, <2>3, <2>4, EmitKeepsCarried
  <2>6. QED
    BY <2>1, <2>5, <1>4 DEF Owed
<1>9. QED
  BY <1>5, <1>6, <1>7, <1>8 DEF DispatchStep

\* The event of an offer becomes turns of the loop, and a turn tells the driver.
LEMMA GatewayKeepsOwed ==
    ASSUME TypeOK, GatewayStep, UNCHANGED dispatches,
           NEW o \in Order, NEW d \in User, Owed(o, d)
    PROVE  Owed(o, d)'
<1> USE DEF TypeOK, StoreTypeOK, GatewayTypeOK
<1>1. \A k \in Dispatch : Creates(k, o, d) => Owed(o, d)'
  BY DEF Creates, DispatchesOf, Runs, Owed
<1>2. CASE HandleOrderStatusChanged
  <2>1. /\ events # << >> /\ Deliver /\ UNCHANGED <<toTell, told>>
        /\ ~Names(Head(events), o, d)
    BY <1>2 DEF HandleOrderStatusChanged, NextEvent, Names
  <2>2. Carried(o, d) => Carried(o, d)'
    BY <2>1, DeliverKeepsCarried
  <2>3. QED
    BY <1>1, <2>1, <2>2 DEF Owed
<1>3. CASE HandleOrderOffered
  <2>1. events # << >> /\ Deliver /\ UNCHANGED told
    BY <1>3 DEF HandleOrderOffered, NextEvent
  <2>2. Head(events) \in OfferedEvent
    BY <1>3, HeadType DEF HandleOrderOffered, NextEvent
  <2>3. /\ toTell[o][d] > 0 => toTell'[o][d] > 0
        /\ Names(Head(events), o, d) => toTell'[o][d] > 0
    <3>1. Head(events).order \in Order /\ Head(events).drivers \subseteq User
      BY <2>2 DEF OfferedEvent
    <3>2. toTell'[o][d] = toTell[o][d] + (IF o = Head(events).order /\ d \in Head(events).drivers
                                          THEN 1 ELSE 0)
      BY <1>3, <3>1 DEF HandleOrderOffered
    <3>3. toTell[o][d] \in Nat
      OBVIOUS
    <3>4. QED
      BY <3>2, <3>3 DEF Names
  <2>4. Carried(o, d) => Carried(o, d)' \/ toTell'[o][d] > 0
    BY <2>1, <2>3, DeliverKeepsCarried
  <2>5. QED
    BY <1>1, <2>1, <2>3, <2>4 DEF Owed
<1>4. ASSUME NEW p \in Order, NEW e \in User, TellDriver(p, e)
      PROVE  Owed(o, d)'
  <2>1. /\ UNCHANGED events
        /\ toTell' = [toTell EXCEPT ![p][e] = @ - 1]
        /\ told' = [told EXCEPT ![p] = @ \cup {e}]
    BY <1>4 DEF TellDriver, storeVars
  <2>2. /\ d \in told[o] => d \in told'[o]
        /\ o = p /\ d = e => d \in told'[o]
    BY <2>1
  <2>3. ~(o = p /\ d = e) => toTell'[o][d] = toTell[o][d]
    BY <2>1
  <2>4. Carried(o, d) => Carried(o, d)'
    BY <2>1 DEF Carried, Names
  <2>5. QED
    BY <1>1, <2>2, <2>3, <2>4 DEF Owed
<1>5. QED
  BY <1>2, <1>3, <1>4 DEF GatewayStep

\* Only a failure makes a run throw.
LEMMA NextNoneThrew ==
    ASSUME TypeOK, NoneThrew, [Next]_vars
    PROVE  NoneThrew'
<1> SUFFICES ASSUME faults' = 0, NEW j \in Dispatch, Runs(j)'
             PROVE  dispatches'[j].step # "drain"
  BY DEF NoneThrew
<1>1. faults = 0 /\ (Runs(j) => dispatches[j].step # "drain")
  BY NoFaultOrFault DEF NoneThrew
<1>2. CASE UNCHANGED dispatches
  BY <1>1, <1>2 DEF Runs
<1>3. ASSUME NEW k \in Dispatch, HandleOrderReady(k) \/ DispatchStep(k)
      PROVE  dispatches'[j].step # "drain"
  <2> USE DEF TypeOK, DispatchesTypeOK
  <2>1. CASE j # k
    <3>1. dispatches'[j] = dispatches[j]
      BY <1>3, <2>1 DEF HandleOrderReady, DispatchStep, MarkSearching, FindDrivers,
         MarkOffered, CreateOffer, EmitOffered, Drained, GoTo, EndRun
    <3>2. QED
      BY <1>1, <3>1 DEF Runs
  <2>2. CASE j = k /\ HandleOrderReady(k)
    BY <2>2 DEF HandleOrderReady
  <2>3. CASE j = k /\ DispatchStep(k)
    <3>1. CASE EndRun(k)
      BY <2>3, <3>1 DEF EndRun, Runs
    <3>2. CASE ~EndRun(k)
      <4>1. Runs(k)
        BY <2>3, <3>2 DEF DispatchStep, MarkSearching, FindDrivers, MarkOffered,
           CreateOffer, EmitOffered, Drained, RunAt
      <4>2. dispatches[k] \in Dispatching
        BY <4>1 DEF Runs
      <4>3. \/ \E step \in {"query", "create"} : GoTo(k, step)
            \/ \E S : dispatches' = [dispatches EXCEPT ![k].step = "offer",
                                                     ![k].found = S, ![k].left = S]
            \/ \E d : dispatches' = [dispatches EXCEPT ![k].left = @ \ {d}]
        BY <2>3, <3>2 DEF DispatchStep, MarkSearching, FindDrivers, MarkOffered,
           CreateOffer, EmitOffered, Drained
      <4>4. dispatches'[k].step \in {"query", "offer", "create", dispatches[k].step}
        <5>1. ASSUME NEW step \in {"query", "create"}, GoTo(k, step)
              PROVE  dispatches'[k].step = step
          BY <4>2, <5>1 DEF GoTo, Dispatching
        <5>2. ASSUME NEW S, dispatches' = [dispatches EXCEPT ![k].step = "offer",
                                                            ![k].found = S, ![k].left = S]
              PROVE  dispatches'[k].step = "offer"
          BY <4>2, <5>2 DEF Dispatching
        <5>3. ASSUME NEW d, dispatches' = [dispatches EXCEPT ![k].left = @ \ {d}]
              PROVE  dispatches'[k].step = dispatches[k].step
          BY <4>2, <5>3 DEF Dispatching
        <5>4. QED
          BY <4>3, <5>1, <5>2, <5>3
      <4>5. QED
        BY <1>1, <2>3, <4>1, <4>4
    <3>3. QED
      BY <3>1, <3>2
  <2>4. QED
    BY <1>3, <2>1, <2>2, <2>3
<1>4. QED
  BY <1>2, <1>3, NoFaultOrFault

\* Every step keeps what is owed.
LEMMA NextOwed ==
    IInv /\ OInv /\ NoneThrew /\ OffersNeverForgotten /\ [Next]_vars => OffersNeverForgotten'
<1> SUFFICES ASSUME IInv, OInv, NoneThrew, OffersNeverForgotten, [Next]_vars, faults' = 0,
                    NEW o \in Order, NEW d \in User, offers'[o][d] > 0
             PROVE  Owed(o, d)'
  BY DEF OffersNeverForgotten, AboutToTell, Owed, Creates, Carried, Names, DispatchesOf
<1>1. TypeOK /\ RunsStand
  BY DEF IInv, OInv
<1>2. /\ offers[o][d] > 0 => Owed(o, d)
      /\ \A k \in Dispatch : Runs(k) => dispatches[k].step # "drain"
  BY <1>1, NoFaultOrFault, OwedIsEnough DEF NoneThrew
<1>3. ASSUME UNCHANGED <<offers, events, dispatches, gatewayVars>>
      PROVE  Owed(o, d)'
  BY <1>2, <1>3 DEF Owed, Creates, DispatchesOf, Runs, Carried, Names, gatewayVars
<1>4. CASE RequestArrives /\ UNCHANGED <<dispatches, gatewayVars>>
  <2>1. UNCHANGED <<offers, events>>
    BY <1>4 DEF RequestArrives, CreateOrder, ChangeStatusRead, AssignDriverRead,
       CompleteOrderRead, AcceptOrderRead, storeVars
  <2>2. QED
    BY <1>3, <1>4, <2>1
<1>5. ASSUME NEW r \in Request, RequestStep(r), UNCHANGED <<dispatches, gatewayVars>>
      PROVE  Owed(o, d)'
  <2>1. UNCHANGED offers
    BY <1>5 DEF RequestStep, ChangeStatusUpdate, ChangeStatusEmit, AssignDriverUpdate,
       AssignDriverEmit, CompleteOrderUpdate, CompleteOrderEmit, AcceptOrderUpdate,
       ForeignKeyRefuses, storeVars
  <2>2. QED
    BY <1>1, <1>2, <1>5, <2>1, RequestKeepsOwed
<1>6. ASSUME NEW k \in Dispatch, HandleOrderReady(k) \/ DispatchStep(k), UNCHANGED gatewayVars
      PROVE  Owed(o, d)'
  BY <1>1, <1>2, <1>6, DispatchKeepsOwed
<1>7. CASE GatewayStep /\ UNCHANGED dispatches
  <2>1. UNCHANGED offers
    BY <1>7 DEF GatewayStep, HandleOrderStatusChanged, HandleOrderOffered, TellDriver,
       storeVars
  <2>2. QED
    BY <1>1, <1>2, <1>7, <2>1, GatewayKeepsOwed
<1>8. QED
  BY <1>1, <1>3, <1>4, <1>5, <1>6, <1>7, NoFaultOrFault

(***************************************************************************)
(* While nothing fails, no recorded offer is ever left with its driver     *)
(* untold and nobody about to tell him: racing dispatches, queued events   *)
(* and loops in any number hand the offer on, from run to event to loop.   *)
(***************************************************************************)
THEOREM OffersAlwaysRemembered == Spec => []OffersNeverForgotten
<1>1. Init => NoneThrew /\ OffersNeverForgotten
  <2> SUFFICES ASSUME Init PROVE NoneThrew /\ OffersNeverForgotten
    OBVIOUS
  <2>1. \A o \in Order, d \in User : offers[o][d] = 0
    BY DEF Init, StoreInit
  <2>2. \A k \in Dispatch : ~Runs(k)
    BY DEF Init, DispatchesInit, Runs
  <2>3. QED
    BY <2>1, <2>2 DEF NoneThrew, OffersNeverForgotten
<1>2. IInv /\ NoneThrew /\ [Next]_vars => NoneThrew'
  BY NextNoneThrew DEF IInv
<1>3. Spec => [](NoneThrew /\ OffersNeverForgotten)
  BY <1>1, <1>2, NextOwed, InvariantHolds, OffersStand, PTL DEF Spec
<1>4. QED
  BY <1>3, PTL
================================================================================
