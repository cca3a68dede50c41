------------------------------- MODULE OfferProofs -------------------------------
(***************************************************************************)
(* Offers.  Drivers are found in the order's tenant, offers are created    *)
(* for the drivers found, the event leaves when all of them are created,   *)
(* and the gateway tells the drivers in the event: so whoever is told has  *)
(* an offer, and is of the order's tenant.  No step of that chain looks    *)
(* back at the one before; what makes it hold is what a run of the         *)
(* dispatch carries from its query to its event (RunStands), and that      *)
(* offers and tenants are there to stay.                                   *)
(*                                                                         *)
(* How many offers there are is a matter of counting what is on its way    *)
(* (RoundsAddUp), in the second part.  The third shows that the query the  *)
(* chain begins with always has an answer.                                 *)
(***************************************************************************)
EXTENDS DeliverySafety, FiniteSetTheorems, NaturalsInduction, WellFoundedInduction

\* Of a run of the dispatch: those found are of the order's tenant, and those
\* no longer left have an offer, unless a create has failed.
RunStands(k) ==
    LET x == dispatches[k] IN
      /\ x.left \subseteq x.found
      /\ \A d \in x.found : home[d] = orders[x.order].tenant
      /\ x.step = "offer" => x.left = x.found
      /\ x.step = "create" => \A d \in x.found \ x.left : offers[x.order][d] > 0

RunsStand == \A k \in Dispatch : Runs(k) => RunStands(k)

OffersAtHome ==
    \A o \in Order, d \in User :
      offers[o][d] > 0 => Exists(o) /\ home[d] = orders[o].tenant

CouriersAtHome ==
    \A o \in Order : orders[o].driver \in User => home[orders[o].driver] = orders[o].tenant

\* OfferedMeansRecorded, of an event and of the gateway's loops.
RecordedEvent(e) ==
    e.kind = "order.offered" => \A d \in e.drivers : offers[e.order][d] > 0
RecordedQueue == \A i \in DOMAIN events : RecordedEvent(events[i])
RecordedTurns ==
    \A o \in Order, d \in User : toTell[o][d] > 0 \/ d \in told[o] => offers[o][d] > 0

\* The inductive invariant of offers, relative to IInv.
OInv == RunsStand /\ OffersAtHome /\ CouriersAtHome /\ RecordedQueue /\ RecordedTurns

\* It implies the two properties.
LEMMA OInvSuffices == OInv => TenantIsolation /\ OfferedMeansRecorded
<1> SUFFICES ASSUME OInv PROVE TenantIsolation /\ OfferedMeansRecorded
  OBVIOUS
<1>1. OfferedMeansRecorded
  BY DEF OInv, RecordedQueue, RecordedEvent, RecordedTurns, OfferedMeansRecorded
<1>2. ASSUME NEW o \in Order, NEW d \in User,
             orders[o].driver = d \/ offers[o][d] > 0 \/ toTell[o][d] > 0
      PROVE  home[d] = orders[o].tenant
  BY <1>2 DEF OInv, OffersAtHome, CouriersAtHome, RecordedTurns
<1>3. QED
  BY <1>1, <1>2 DEF TenantIsolation

--------------------------------------------------------------------------------
(***************************************************************************)
(* Offers are there to stay.                                               *)
(***************************************************************************)
OffersGrow == \A o \in Order, d \in User : offers[o][d] > 0 => offers'[o][d] > 0

\* What a create does to the table.
LEMMA CreateGrows ==
    ASSUME TypeOK, NEW k \in Dispatch, NEW d \in User, CreateOffer(k, d) \/ OfferFails(k, d)
    PROVE  /\ OffersGrow
           /\ Runs(k) /\ dispatches[k].order \in Order /\ d \in dispatches[k].left
           /\ CreateOffer(k, d) => offers'[dispatches[k].order][d] > 0
           /\ \A o \in Order, e \in User :
                offers'[o][e] > 0 => offers[o][e] > 0 \/ (o = dispatches[k].order /\ e = d)
<1> USE DEF TypeOK, StoreTypeOK, DispatchesTypeOK
<1>1. Runs(k) /\ d \in dispatches[k].left
  BY DEF CreateOffer, OfferFails, RunAt
<1>2. dispatches[k].order \in Order
  BY <1>1 DEF Runs, Dispatching
<1>3. CASE UNCHANGED offers /\ ~CreateOffer(k, d)
  BY <1>1, <1>2, <1>3 DEF OffersGrow
<1>4. CASE offers' = [offers EXCEPT ![dispatches[k].order][d] = @ + 1]
  <2>1. /\ offers'[dispatches[k].order][d] = offers[dispatches[k].order][d] + 1
        /\ \A o \in Order, e \in User :
             o # dispatches[k].order \/ e # d => offers'[o][e] = offers[o][e]
    BY <1>2, <1>4
  <2>2. offers[dispatches[k].order][d] \in Nat
    BY <1>2
  <2>3. OffersGrow
    BY <2>1, <2>2 DEF OffersGrow
  <2>4. QED
    BY <1>1, <1>2, <2>1, <2>2, <2>3
<1>5. QED
  BY <1>3, <1>4 DEF CreateOffer, OfferFails

\* The steps that create an offer, and those that do not.
LEMMA OfferSteps ==
    ASSUME TypeOK, [Next]_vars
    PROVE  \/ UNCHANGED offers
           \/ /\ \E k \in Dispatch, d \in User : CreateOffer(k, d) \/ OfferFails(k, d)
              /\ UNCHANGED orders
<1>1. CASE RequestArrives
  BY <1>1 DEF RequestArrives, CreateOrder, ChangeStatusRead, AssignDriverRead,
     CompleteOrderRead, AcceptOrderRead, storeVars
<1>2. CASE \E r \in Request : RequestStep(r) \/ RequestFails(r)
  BY <1>2 DEF RequestStep, ChangeStatusUpdate, ChangeStatusEmit, AssignDriverUpdate,
     AssignDriverEmit, CompleteOrderUpdate, CompleteOrderEmit, AcceptOrderUpdate,
     ForeignKeyRefuses, RequestFails, storeVars
<1>3. ASSUME NEW k \in Dispatch,
             \/ HandleOrderReady(k) \/ DispatchStep(k) \/ DispatchFails(k)
             \/ \E d \in User : OfferFails(k, d)
      PROVE  \/ UNCHANGED offers
             \/ /\ \E d \in User : CreateOffer(k, d) \/ OfferFails(k, d)
                /\ UNCHANGED orders
  BY <1>3 DEF HandleOrderReady, DispatchStep, MarkSearching, FindDrivers, MarkOffered,
     CreateOffer, EmitOffered, Drained, DispatchFails, OfferFails, storeVars
<1>4. CASE DirectoryStep \/ GatewayStep \/ \E o \in Order : TellingFails(o)
  BY <1>4 DEF DirectoryStep, ChangeOnline, UpdateLocation, GatewayStep,
     HandleOrderStatusChanged, HandleOrderOffered, TellDriver, TellingFails, storeVars
<1>5. CASE Crash \/ UNCHANGED vars
  BY <1>5 DEF Crash, vars, storeVars
<1>6. QED
  BY <1>1, <1>2, <1>3, <1>4, <1>5 DEF Next

\* No step takes an offer back.
LEMMA StepOffersGrow ==
    ASSUME TypeOK, [Next]_vars
    PROVE  OffersGrow
BY OfferSteps, CreateGrows DEF OffersGrow

--------------------------------------------------------------------------------
(***************************************************************************)
(* Everybody is at home.                                                   *)
(***************************************************************************)
LEMMA StepKeepsOffersHome ==
    ASSUME TypeOK, WritesJustified, Grows, RunsStand, OffersAtHome, [Next]_vars
    PROVE  OffersAtHome'
<1>1. CASE UNCHANGED offers
  BY <1>1 DEF OffersAtHome, Grows
<1>2. ASSUME NEW k \in Dispatch, NEW d \in User, CreateOffer(k, d) \/ OfferFails(k, d),
             UNCHANGED orders
      PROVE  OffersAtHome'
  <2>1. /\ Runs(k) /\ dispatches[k].order \in Order /\ d \in dispatches[k].left
        /\ \A o \in Order, e \in User :
             offers'[o][e] > 0 => offers[o][e] > 0 \/ (o = dispatches[k].order /\ e = d)
    BY <1>2, CreateGrows
  <2>2. Exists(dispatches[k].order) /\ home[d] = orders[dispatches[k].order].tenant
    BY <2>1 DEF WritesJustified, DispatchJustified, RunsStand, RunStands
  <2>3. QED
    BY <1>2, <2>1, <2>2 DEF OffersAtHome, Exists
<1>3. QED
  BY <1>1, <1>2, OfferSteps

\* A driver is named in the tenant of the order only.
LEMMA StepKeepsCouriersHome ==
    ASSUME TypeOK, HistoryKept, CouriersAtHome, StepKind
    PROVE  CouriersAtHome'
<1> USE DEF TypeOK, StoreTypeOK
<1>1. ASSUME NEW u \in User, NEW o \in Order, CreateOrder(u, o)
      PROVE  CouriersAtHome'
  <2>1. orders'[o].driver = NoDriver
    BY <1>1 DEF CreateOrder
  <2>2. \A p \in Order \ {o} : orders'[p] = orders[p]
    BY <1>1 DEF CreateOrder
  <2>3. QED
    BY <2>1, <2>2, StoreAssumption DEF CouriersAtHome
<1>2. CASE JustifiedWrite
  <2>1. PICK o \in Order, n \in Status, d \in User \cup {NoDriver} :
          /\ \/ d = orders[o].driver
             \/ d \in HasProfile /\ home[d] = orders[o].tenant
          /\ SetOrder(o, n, d)
    BY <1>2 DEF JustifiedWrite
  <2>2. /\ orders'[o].driver = d /\ orders'[o].tenant = orders[o].tenant
        /\ \A p \in Order \ {o} : orders'[p] = orders[p]
    BY <2>1, SetOrderHistory
  <2>3. QED
    BY <2>1, <2>2 DEF CouriersAtHome
<1>3. CASE UNCHANGED <<orders, reached>>
  BY <1>3 DEF CouriersAtHome
<1>4. QED
  BY <1>1, <1>2, <1>3 DEF StepKind

--------------------------------------------------------------------------------
(***************************************************************************)
(* What a run of the dispatch carries.                                     *)
(***************************************************************************)

\* A run that no step touches stands as it did: tenants and offers stay.
LEMMA RunStaysStanding ==
    ASSUME TypeOK, WritesJustified, Grows, OffersGrow, RunsStand, NEW k \in Dispatch,
           dispatches'[k] = dispatches[k]
    PROVE  Runs(k)' => RunStands(k)'
<1> SUFFICES ASSUME Runs(k) PROVE RunStands(k)'
  BY DEF Runs
<1>1. RunStands(k) /\ DispatchJustified(k)
  BY DEF RunsStand, WritesJustified
<1>2. dispatches[k] \in Dispatching
  BY DEF TypeOK, DispatchesTypeOK, Runs
<1>3. /\ dispatches[k].order \in Order /\ dispatches[k].found \subseteq User
      /\ Exists(dispatches[k].order)
  BY <1>1, <1>2 DEF Dispatching, DispatchJustified
<1>4. /\ orders'[dispatches[k].order].tenant = orders[dispatches[k].order].tenant
      /\ \A d \in dispatches[k].found :
           offers[dispatches[k].order][d] > 0 => offers'[dispatches[k].order][d] > 0
  BY <1>3 DEF Grows, OffersGrow
<1>5. QED
  BY <1>1, <1>4 DEF RunStands

\* Of the run that a step moves on.
LEMMA DispatchStepStands ==
    ASSUME TypeOK, WritesJustified, Grows, OffersGrow, RunsStand, NEW k \in Dispatch,
           \/ HandleOrderReady(k) \/ DispatchStep(k) \/ DispatchFails(k)
           \/ \E d \in User : OfferFails(k, d)
    PROVE  Runs(k)' => RunStands(k)'
<1> USE DEF TypeOK, StoreTypeOK, DispatchesTypeOK
<1> DEFINE x == dispatches[k]
<1>1. Runs(k) => /\ x \in Dispatching /\ RunStands(k)
                 /\ x.order \in Order /\ x.found \subseteq User
                 /\ orders'[x.order].tenant = orders[x.order].tenant
  BY DEF Runs, Dispatching, RunsStand, WritesJustified, DispatchJustified, Grows
<1>2. CASE EndRun(k)
  BY <1>2 DEF EndRun, Runs
<1>3. CASE HandleOrderReady(k)
  <2>1. dispatches'[k].found = {} /\ dispatches'[k].left = {}
    BY <1>3 DEF HandleOrderReady
  <2>2. QED
    BY <2>1 DEF RunStands
<1>4. CASE MarkSearching(k)
  <2>1. Runs(k) /\ dispatches'[k] = [x EXCEPT !.step = "query"]
    BY <1>4 DEF MarkSearching, RunAt, GoTo
  <2>2. /\ dispatches'[k].step = "query" /\ dispatches'[k].order = x.order
        /\ dispatches'[k].found = x.found /\ dispatches'[k].left = x.left
    BY <1>1, <2>1 DEF Dispatching
  <2>3. QED
    BY <1>1, <2>1, <2>2 DEF RunStands
<1>5. CASE FindDrivers(k)
  <2>1. Runs(k) /\ UNCHANGED orders
    BY <1>5 DEF FindDrivers, RunAt, storeVars
  <2>2. PICK S \in NearbyDrivers(x.order) :
          IF S = {} THEN EndRun(k)
          ELSE dispatches' = [dispatches EXCEPT ![k].step = "offer",
                                                ![k].found = S, ![k].left = S]
    BY <1>5 DEF FindDrivers
  <2>3. \A d \in S : home[d] = orders[x.order].tenant
    BY <2>2 DEF NearbyDrivers, InReach
  <2>4. CASE S # {}
    <3>1. /\ dispatches'[k].step = "offer" /\ dispatches'[k].order = x.order
          /\ dispatches'[k].found = S /\ dispatches'[k].left = S
      BY <1>1, <2>1, <2>2, <2>4 DEF Dispatching
    <3>2. QED
      BY <2>1, <2>3, <3>1 DEF RunStands
  <2>5. QED
    BY <1>2, <2>2, <2>4
<1>6. CASE MarkOffered(k)
  <2>1. Runs(k) /\ x.step = "offer" /\ dispatches'[k] = [x EXCEPT !.step = "create"]
    BY <1>6 DEF MarkOffered, RunAt, GoTo
  <2>2. /\ dispatches'[k].step = "create" /\ dispatches'[k].order = x.order
        /\ dispatches'[k].found = x.found /\ dispatches'[k].left = x.left
    BY <1>1, <2>1 DEF Dispatching
  <2>3. QED
    BY <1>1, <2>1, <2>2 DEF RunStands
<1>7. ASSUME NEW d \in User, CreateOffer(k, d)
      PROVE  RunStands(k)'
  <2>1. Runs(k) /\ dispatches'[k] = [x EXCEPT !.left = @ \ {d}]
    BY <1>7 DEF CreateOffer, RunAt
  <2>2. /\ dispatches'[k].step = x.step /\ dispatches'[k].order = x.order
        /\ dispatches'[k].found = x.found /\ dispatches'[k].left = x.left \ {d}
    BY <1>1, <2>1 DEF Dispatching
  <2>3. x.step # "offer"
    BY <1>7 DEF CreateOffer, RunAt
  <2>4. offers'[x.order][d] > 0
    BY <1>7, CreateGrows
  <2>5. \A e \in x.found : offers[x.order][e] > 0 => offers'[x.order][e] > 0
    BY <1>1, <2>1 DEF OffersGrow
  <2>6. x.step = "create" => \A e \in x.found \ (x.left \ {d}) : offers'[x.order][e] > 0
    BY <1>1, <2>1, <2>4, <2>5 DEF RunStands
  <2>7. QED
    BY <1>1, <2>1, <2>2, <2>3, <2>6 DEF RunStands
<1>8. ASSUME NEW d \in User, OfferFails(k, d)
      PROVE  RunStands(k)'
  <2>1. /\ Runs(k)
        /\ dispatches' = [dispatches EXCEPT ![k].step = "drain", ![k].left = @ \ {d}]
    BY <1>8 DEF OfferFails, RunAt
  <2>2. /\ dispatches'[k].step = "drain" /\ dispatches'[k].order = x.order
        /\ dispatches'[k].found = x.found /\ dispatches'[k].left = x.left \ {d}
    BY <1>1, <2>1 DEF Dispatching
  <2>3. QED
    BY <1>1, <2>1, <2>2 DEF RunStands
<1>9. QED
  BY <1>2, <1>3, <1>4, <1>5, <1>6, <1>7, <1>8
     DEF DispatchStep, DispatchFails, EmitOffered, Drained

\* Every run stands after every step.
LEMMA StepKeepsRuns ==
    ASSUME TypeOK, WritesJustified, Grows, OffersGrow, RunsStand, [Next]_vars
    PROVE  RunsStand'
<1>1. CASE UNCHANGED dispatches
  BY <1>1, RunStaysStanding DEF RunsStand
<1>2. ASSUME NEW k \in Dispatch,
             \/ HandleOrderReady(k) \/ DispatchStep(k) \/ DispatchFails(k)
             \/ \E d \in User : OfferFails(k, d)
      PROVE  RunsStand'
  <2>1. \A p \in Dispatch \ {k} : dispatches'[p] = dispatches[p]
    BY <1>2 DEF HandleOrderReady, DispatchStep, MarkSearching, FindDrivers, MarkOffered,
       CreateOffer, EmitOffered, Drained, DispatchFails, OfferFails, GoTo, EndRun,
       TypeOK, DispatchesTypeOK
  <2>2. \A p \in Dispatch : Runs(p)' => RunStands(p)'
    BY <1>2, <2>1, RunStaysStanding, DispatchStepStands
  <2>3. QED
    BY <2>2 DEF RunsStand
<1>3. CASE Crash
  BY <1>3 DEF Crash, RunsStand, Runs
<1>4. QED
  BY <1>1, <1>2, <1>3 DEF Next, vars

--------------------------------------------------------------------------------
(***************************************************************************)
(* What is queued and told.                                                *)
(***************************************************************************)
LEMMA RecordedGrows ==
    ASSUME OffersGrow, NEW e \in Event, RecordedEvent(e)
    PROVE  RecordedEvent(e)'
<1> SUFFICES ASSUME e.kind = "order.offered"
             PROVE  \A d \in e.drivers : offers'[e.order][d] > 0
  BY DEF RecordedEvent
<1>1. e.order \in Order /\ e.drivers \subseteq User
  BY DEF Event, StatusEvent, ReadyEvent, OfferedEvent
<1>2. QED
  BY <1>1 DEF RecordedEvent, OffersGrow

\* Whether it grows by recorded events or shrinks, the queue stays recorded.
LEMMA QueueStaysRecorded ==
    ASSUME OffersGrow, events \in Seq(Event), RecordedQueue,
           \/ \E es \in Seq(Event) : Emit(es) /\ \A i \in DOMAIN es : RecordedEvent(es[i])
           \/ events # << >> /\ Deliver
           \/ events' = << >>
           \/ UNCHANGED events
    PROVE  RecordedQueue'
<1>1. SUFFICES ASSUME NEW i \in DOMAIN events'
               PROVE  \E e \in Event : events'[i] = e /\ RecordedEvent(e)
  BY RecordedGrows DEF RecordedQueue, RecordedEvent
<1>2. ASSUME NEW es \in Seq(Event), Emit(es), \A j \in DOMAIN es : RecordedEvent(es[j])
      PROVE  \E e \in Event : events'[i] = e /\ RecordedEvent(e)
  <2>1. /\ i \in 1 .. Len(events) + Len(es)
        /\ i <= Len(events) => events'[i] = events[i]
        /\ i > Len(events) => events'[i] = es[i - Len(events)]
    BY <1>1, <1>2 DEF Emit
  <2>2. /\ DOMAIN events = 1 .. Len(events) /\ DOMAIN es = 1 .. Len(es)
        /\ Len(events) \in Nat /\ Len(es) \in Nat
    OBVIOUS
  <2>3. CASE i <= Len(events)
    BY <2>1, <2>2, <2>3 DEF RecordedQueue
  <2>4. CASE i > Len(events)
    <3>1. i - Len(events) \in DOMAIN es
      BY <2>1, <2>2, <2>4
    <3>2. QED
      BY <1>2, <2>1, <2>4, <3>1
  <2>5. QED
    BY <2>1, <2>2, <2>3, <2>4
<1>3. CASE events # << >> /\ Deliver
  <2>1. i + 1 \in DOMAIN events /\ events'[i] = events[i + 1]
    BY <1>1, <1>3 DEF Deliver
  <2>2. QED
    BY <2>1 DEF RecordedQueue
<1>4. CASE events' = << >>
  BY <1>1, <1>4
<1>5. CASE UNCHANGED events
  BY <1>1, <1>5 DEF RecordedQueue
<1>6. QED
  BY <1>2, <1>3, <1>4, <1>5

\* A handler of orders emits no offer.
LEMMA RequestKeepsQueue ==
    ASSUME TypeOK, OffersGrow, RecordedQueue, NEW r \in Request,
           RequestStep(r) \/ RequestFails(r)
    PROVE  RecordedQueue'
<1> USE DEF TypeOK, StoreTypeOK, RequestsTypeOK
<1> DEFINE q == requests[r]
<1>1. CASE ChangeStatusEmit(r) \/ AssignDriverEmit(r) \/ CompleteOrderEmit(r)
  <2>1. /\ q.order \in Order /\ q.next \in Status
        /\ q.driver \in User \cup {NoDriver}
    BY <1>1 DEF ChangeStatusEmit, AssignDriverEmit, CompleteOrderEmit, At, Busy, InFlight
  <2>2. ASSUME NEW st \in Status, NEW d \in User \cup {NoDriver}
        PROVE  /\ StatusChanged(q.order, st, d) \in Event
               /\ RecordedEvent(StatusChanged(q.order, st, d))
    BY <2>1 DEF StatusChanged, Event, StatusEvent, RecordedEvent
  <2>3. Ready(q.order) \in Event /\ RecordedEvent(Ready(q.order))
    BY <2>1 DEF Ready, Event, ReadyEvent, RecordedEvent
  <2>4. ASSUME NEW st \in Status, NEW d \in User \cup {NoDriver},
               Emit(<<StatusChanged(q.order, st, d)>>)
        PROVE  RecordedQueue'
    <3> DEFINE es == <<StatusChanged(q.order, st, d)>>
    <3>1. es \in Seq(Event) /\ \A i \in DOMAIN es : RecordedEvent(es[i])
      BY <2>2
    <3>2. QED
      BY <2>4, <3>1, QueueStaysRecorded
  <2>5. CASE ChangeStatusEmit(r)
    <3>1. CASE q.next = "READY"
      <4> DEFINE es == <<Ready(q.order), StatusChanged(q.order, q.next, NoDriver)>>
      <4>1. es \in Seq(Event) /\ \A i \in DOMAIN es : RecordedEvent(es[i])
        BY <2>1, <2>2, <2>3
      <4>2. Emit(es)
        BY <2>5, <3>1 DEF ChangeStatusEmit, ChangeStatusEvents, Emit
      <4>3. QED
        BY <4>1, <4>2, QueueStaysRecorded
    <3>2. CASE q.next # "READY"
      <4>1. Emit(<<StatusChanged(q.order, q.next, NoDriver)>>)
        BY <2>5, <3>2 DEF ChangeStatusEmit, ChangeStatusEvents, Emit
      <4>2. QED
        BY <2>1, <2>4, <4>1
    <3>3. QED
      BY <3>1, <3>2
  <2>6. CASE AssignDriverEmit(r) \/ CompleteOrderEmit(r)
    <3>1. "ASSIGNED" \in Status /\ "DELIVERED" \in Status
      BY DEF Status
    <3>2. QED
      BY <2>1, <2>4, <2>6, <3>1 DEF AssignDriverEmit, CompleteOrderEmit
  <2>7. QED
    BY <1>1, <2>5, <2>6
<1>2. CASE UNCHANGED events
  BY <1>2, QueueStaysRecorded
<1>3. QED
  BY <1>1, <1>2 DEF RequestStep, ChangeStatusUpdate, AssignDriverUpdate,
     CompleteOrderUpdate, AcceptOrderUpdate, ForeignKeyRefuses, RequestFails, storeVars

\* A run of the dispatch emits its offer when everybody found has one.
LEMMA DispatchKeepsQueue ==
    ASSUME TypeOK, OffersGrow, RunsStand, RecordedQueue, NEW k \in Dispatch,
           \/ HandleOrderReady(k) \/ DispatchStep(k) \/ DispatchFails(k)
           \/ \E d \in User : OfferFails(k, d)
    PROVE  RecordedQueue'
<1> USE DEF TypeOK, StoreTypeOK, DispatchesTypeOK
<1> DEFINE x == dispatches[k]
<1>1. CASE EmitOffered(k)
  <2> DEFINE e == Offered(x.order, x.found)
  <2>1. Runs(k) /\ x.step = "create" /\ x.left = {} /\ Emit(<<e>>)
    BY <1>1 DEF EmitOffered, RunAt
  <2>2. \A d \in x.found : offers[x.order][d] > 0
    BY <2>1 DEF RunsStand, RunStands
  <2>3. RecordedEvent(e)
    BY <2>2 DEF Offered, RecordedEvent
  <2>4. e \in Event
    BY <2>1 DEF Runs, Dispatching, Offered, Event, OfferedEvent
  <2>5. <<e>> \in Seq(Event) /\ \A i \in DOMAIN <<e>> : RecordedEvent(<<e>>[i])
    BY <2>3, <2>4
  <2>6. QED
    BY <2>1, <2>5, QueueStaysRecorded
<1>2. CASE HandleOrderReady(k)
  <2>1. events # << >> /\ Deliver
    BY <1>2 DEF HandleOrderReady, NextEvent
  <2>2. QED
    BY <2>1, QueueStaysRecorded
<1>3. CASE UNCHANGED events
  BY <1>3, QueueStaysRecorded
<1>4. QED
  BY <1>1, <1>2, <1>3 DEF DispatchStep, MarkSearching, FindDrivers, MarkOffered,
     CreateOffer, Drained, DispatchFails, OfferFails, storeVars

\* The loops of handleOrderOffered tell the drivers of the event.
LEMMA GatewayKeepsTurns ==
    ASSUME TypeOK, OffersGrow, RecordedQueue, RecordedTurns,
           GatewayStep \/ \E o \in Order : TellingFails(o)
    PROVE  RecordedTurns'
<1> USE DEF TypeOK, StoreTypeOK, GatewayTypeOK
<1>1. ASSUME \A o \in Order, d \in User :
               toTell'[o][d] > 0 \/ d \in told'[o] =>
                 toTell[o][d] > 0 \/ d \in told[o] \/ offers[o][d] > 0
      PROVE  RecordedTurns'
  BY <1>1 DEF RecordedTurns, OffersGrow
<1>2. CASE HandleOrderStatusChanged
  BY <1>1, <1>2 DEF HandleOrderStatusChanged
<1>3. CASE HandleOrderOffered
  <2>1. Head(events) \in OfferedEvent /\ events # << >>
    BY <1>3, HeadType DEF HandleOrderOffered, NextEvent
  <2>2. RecordedEvent(Head(events))
    <3>1. 1 \in DOMAIN events /\ Head(events) = events[1]
      BY <2>1
    <3>2. QED
      BY <3>1 DEF RecordedQueue
  <2>3. \A d \in Head(events).drivers : offers[Head(events).order][d] > 0
    BY <2>1, <2>2 DEF RecordedEvent, OfferedEvent
  <2>4. ASSUME NEW o \in Order, NEW d \in User, toTell'[o][d] > 0
        PROVE  toTell[o][d] > 0 \/ offers[o][d] > 0
    <3>1. CASE o = Head(events).order /\ d \in Head(events).drivers
      BY <2>3, <3>1
    <3>2. CASE ~(o = Head(events).order /\ d \in Head(events).drivers)
      BY <1>3, <2>4, <3>2 DEF HandleOrderOffered
    <3>3. QED
      BY <3>1, <3>2
  <2>5. QED
    BY <1>1, <1>3, <2>4 DEF HandleOrderOffered
<1>4. ASSUME NEW p \in Order, NEW e \in User, TellDriver(p, e)
      PROVE  RecordedTurns'
  <2>1. /\ toTell[p][e] > 0
        /\ \A o \in Order, d \in User : toTell'[o][d] > 0 => toTell[o][d] > 0
    BY <1>4 DEF TellDriver
  <2>2. \A o \in Order : told'[o] = (IF o = p THEN told[o] \cup {e} ELSE told[o])
    BY <1>4 DEF TellDriver
  <2>3. QED
    BY <1>1, <2>1, <2>2
<1>5. ASSUME NEW p \in Order, TellingFails(p)
      PROVE  RecordedTurns'
  <2>1. PICK S \in SUBSET {d \in User : toTell[p][d] > 0} \ {{}} :
          toTell' = [toTell EXCEPT ![p] =
                       [d \in User |-> @[d] - (IF d \in S THEN 1 ELSE 0)]]
    BY <1>5 DEF TellingFails
  <2>2. \A o \in Order, d \in User : toTell'[o][d] > 0 => toTell[o][d] > 0
    BY <2>1
  <2>3. QED
    BY <1>1, <1>5, <2>2 DEF TellingFails
<1>6. QED
  BY <1>2, <1>3, <1>4, <1>5 DEF GatewayStep

--------------------------------------------------------------------------------
\* No offers, no runs, no events at first.
LEMMA InitOInv == Init => OInv
<1> SUFFICES ASSUME Init PROVE OInv
  OBVIOUS
<1>1. /\ \A o \in Order : orders[o].driver = NoDriver /\ told[o] = {}
      /\ \A o \in Order, d \in User : offers[o][d] = 0 /\ toTell[o][d] = 0
      /\ events = << >>
      /\ \A k \in Dispatch : ~Runs(k)
  BY DEF Init, StoreInit, DispatchesInit, GatewayInit, Runs
<1>2. QED
  BY <1>1, StoreAssumption DEF OInv, RunsStand, OffersAtHome, CouriersAtHome,
     RecordedQueue, RecordedTurns

\* Every step preserves the invariant.
LEMMA NextOInv == IInv /\ OInv /\ [Next]_vars => OInv'
<1> SUFFICES ASSUME IInv, OInv, [Next]_vars PROVE OInv'
  OBVIOUS
<1>1. TypeOK /\ HistoryKept /\ WritesJustified
  BY DEF IInv
<1>2. RunsStand /\ OffersAtHome /\ CouriersAtHome /\ RecordedQueue /\ RecordedTurns
  BY DEF OInv
<1>3. StepKind /\ OffersGrow
  BY <1>1, StepKinds, StepOffersGrow
<1>4. Grows
  BY <1>1, <1>3, StepGrows
<1>5. RunsStand' /\ OffersAtHome' /\ CouriersAtHome'
  BY <1>1, <1>2, <1>3, <1>4, StepKeepsRuns, StepKeepsOffersHome, StepKeepsCouriersHome
<1>6. events \in Seq(Event)
  BY <1>1 DEF TypeOK, StoreTypeOK
<1>7. ASSUME UNCHANGED <<toTell, told>>
      PROVE  RecordedTurns'
  BY <1>2, <1>3, <1>7 DEF RecordedTurns, OffersGrow
<1>8. CASE RequestArrives /\ UNCHANGED gatewayVars
  <2>1. UNCHANGED events
    BY <1>8 DEF RequestArrives, CreateOrder, ChangeStatusRead, AssignDriverRead,
       CompleteOrderRead, AcceptOrderRead, storeVars
  <2>2. RecordedQueue' /\ RecordedTurns'
    BY <1>2, <1>3, <1>6, <1>7, <1>8, <2>1, QueueStaysRecorded DEF gatewayVars
  <2>3. QED
    BY <1>5, <2>2 DEF OInv
<1>9. CASE (\E r \in Request : RequestStep(r) \/ RequestFails(r)) /\ UNCHANGED gatewayVars
  <2>1. RecordedQueue' /\ RecordedTurns'
    BY <1>1, <1>2, <1>3, <1>7, <1>9, RequestKeepsQueue DEF gatewayVars
  <2>2. QED
    BY <1>5, <2>1 DEF OInv
<1>10. CASE /\ \E k \in Dispatch :
                 \/ HandleOrderReady(k) \/ DispatchStep(k) \/ DispatchFails(k)
                 \/ \E d \in User : OfferFails(k, d)
            /\ UNCHANGED gatewayVars
  <2>1. RecordedQueue' /\ RecordedTurns'
    BY <1>1, <1>2, <1>3, <1>7, <1>10, DispatchKeepsQueue DEF gatewayVars
  <2>2. QED
    BY <1>5, <2>1 DEF OInv
<1>11. CASE GatewayStep \/ \E o \in Order : TellingFails(o)
  <2>1. UNCHANGED events \/ (events # << >> /\ Deliver)
    BY <1>11 DEF GatewayStep, HandleOrderStatusChanged, HandleOrderOffered, NextEvent,
       TellDriver, TellingFails, storeVars
  <2>2. RecordedQueue'
    BY <1>2, <1>3, <1>6, <2>1, QueueStaysRecorded
  <2>3. RecordedTurns'
    BY <1>1, <1>2, <1>3, <1>11, GatewayKeepsTurns
  <2>4. QED
    BY <1>5, <2>2, <2>3 DEF OInv
<1>12. CASE UNCHANGED <<events, toTell, told>>
  <2>1. RecordedQueue' /\ RecordedTurns'
    BY <1>2, <1>3, <1>6, <1>7, <1>12, QueueStaysRecorded
  <2>2. QED
    BY <1>5, <2>1 DEF OInv
<1>13. CASE Crash
  <2>1. RecordedQueue'
    BY <1>2, <1>3, <1>6, <1>13, QueueStaysRecorded DEF Crash
  <2>2. RecordedTurns'
    BY <1>2, <1>13 DEF Crash, RecordedTurns
  <2>3. QED
    BY <1>5, <2>1, <2>2 DEF OInv
<1>14. QED
  BY <1>8, <1>9, <1>10, <1>11, <1>12, <1>13
     DEF Next, DirectoryStep, ChangeOnline, UpdateLocation, vars, storeVars, gatewayVars

(***************************************************************************)
(* At every moment, what a run of the dispatch carries, what is queued and *)
(* what is told has its offers, and every offer and every courier is of    *)
(* the order's tenant.                                                     *)
(***************************************************************************)
THEOREM OffersStand == Spec => []OInv
BY InitOInv, NextOInv, InvariantHolds, PTL DEF Spec

(***************************************************************************)
(* No interleaving, failure or crash assigns, offers or announces an order *)
(* to a driver of another tenant.                                          *)
(***************************************************************************)
THEOREM TenantsStayApart == Spec => []TenantIsolation
<1>1. OInv => TenantIsolation
  BY OInvSuffices
<1>2. QED
  BY <1>1, OffersStand, PTL

(***************************************************************************)
(* No driver is ever told of an offer that is not in the table, whichever  *)
(* of the concurrent creates has failed.                                   *)
(***************************************************************************)
THEOREM OfferedIsRecorded == Spec => []OfferedMeansRecorded
<1>1. OInv => OfferedMeansRecorded
  BY OInvSuffices
<1>2. QED
  BY <1>1, OffersStand, PTL

--------------------------------------------------------------------------------
(***************************************************************************)
(* Rounds.  Offers per round are counted with what is still on its way: a  *)
(* request that has yet to announce READY, an event that is queued, a run  *)
(* that may still create the offer.  A token passes from one to the next   *)
(* and none is made but by a write of READY, so RoundsAddUp needs nothing  *)
(* but that only finitely many handlers are ever in flight, whatever the   *)
(* number of slots.                                                        *)
(***************************************************************************)
FlightsFinite ==
    /\ IsFiniteSet({r \in Request : Busy(r)})
    /\ IsFiniteSet({k \in Dispatch : Runs(k)})

RInv == FlightsFinite /\ RoundsAddUp

\* A set that gains or loses one element.
LEMMA OneMoreOrLess ==
    ASSUME NEW S, IsFiniteSet(S), NEW T
    PROVE  /\ Cardinality(S) \in Nat
           /\ T \subseteq S =>
                IsFiniteSet(T) /\ Cardinality(T) \in Nat /\ Cardinality(T) <= Cardinality(S)
           /\ \A x : T \subseteq S \cup {x} =>
                IsFiniteSet(T) /\ Cardinality(T) \in Nat /\ Cardinality(T) <= Cardinality(S) + 1
           /\ \A x \in S : T \subseteq S \ {x} =>
                IsFiniteSet(T) /\ Cardinality(T) \in Nat /\ Cardinality(T) + 1 <= Cardinality(S)
<1>1. Cardinality(S) \in Nat
  BY FS_CardinalityType
<1>2. ASSUME NEW U, IsFiniteSet(U), T \subseteq U
      PROVE  IsFiniteSet(T) /\ Cardinality(T) \in Nat /\ Cardinality(T) <= Cardinality(U)
  BY <1>2, FS_Subset, FS_CardinalityType
<1>3. ASSUME NEW x, T \subseteq S \cup {x}
      PROVE  IsFiniteSet(T) /\ Cardinality(T) \in Nat /\ Cardinality(T) <= Cardinality(S) + 1
  <2>1. IsFiniteSet(S \cup {x}) /\ Cardinality(S \cup {x}) <= Cardinality(S) + 1
        /\ Cardinality(S \cup {x}) \in Nat
    BY <1>1, FS_AddElement
  <2>2. QED
    BY <1>1, <1>2, <1>3, <2>1
<1>4. ASSUME NEW x \in S, T \subseteq S \ {x}
      PROVE  IsFiniteSet(T) /\ Cardinality(T) \in Nat /\ Cardinality(T) + 1 <= Cardinality(S)
  <2>1. IsFiniteSet(S \ {x}) /\ Cardinality(S \ {x}) = Cardinality(S) - 1
    BY FS_RemoveElement
  <2>2. QED
    BY <1>1, <1>2, <1>4, <2>1
<1>5. QED
  BY <1>1, <1>2, <1>3, <1>4

\* What is counted is finite.
LEMMA CountsAreNumbers ==
    ASSUME TypeOK, FlightsFinite, NEW o \in Order
    PROVE  /\ IsFiniteSet(Announcing(o)) /\ Cardinality(Announcing(o)) \in Nat
           /\ IsFiniteSet(Queued(o)) /\ Cardinality(Queued(o)) \in Nat
           /\ \A d \in User :
                IsFiniteSet(MayOffer(o, d)) /\ Cardinality(MayOffer(o, d)) \in Nat
<1>1. IsFiniteSet(Announcing(o)) /\ Cardinality(Announcing(o)) \in Nat
  <2>1. Announcing(o) \subseteq {r \in Request : Busy(r)}
    BY DEF Announcing, RequestsOf
  <2>2. QED
    BY <2>1, OneMoreOrLess DEF FlightsFinite
<1>2. ASSUME NEW d \in User
      PROVE  IsFiniteSet(MayOffer(o, d)) /\ Cardinality(MayOffer(o, d)) \in Nat
  <2>1. MayOffer(o, d) \subseteq {k \in Dispatch : Runs(k)}
    BY DEF MayOffer, DispatchesOf
  <2>2. QED
    BY <2>1, OneMoreOrLess DEF FlightsFinite
<1>3. IsFiniteSet(Queued(o)) /\ Cardinality(Queued(o)) \in Nat
  <2>1. Queued(o) \subseteq 1 .. Len(events) /\ Len(events) \in Nat
    BY DEF Queued, TypeOK, StoreTypeOK
  <2>2. IsFiniteSet(1 .. Len(events))
    BY <2>1, FS_Interval
  <2>3. QED
    BY <2>1, <2>2, OneMoreOrLess
<1>4. QED
  BY <1>1, <1>2, <1>3

--------------------------------------------------------------------------------
\* The queue: what is emitted adds no READY of another order, and a delivery
\* takes at most the first away.
LEMMA QueueCounts ==
    ASSUME events \in Seq(Event), NEW o \in Order, IsFiniteSet(Queued(o)),
           \/ \E es \in Seq(Event) : Emit(es) /\ \A i \in DOMAIN es : es[i] # Ready(o)
           \/ events # << >> /\ Deliver
           \/ events' = << >>
           \/ UNCHANGED events
    PROVE  /\ IsFiniteSet(Queued(o)') /\ Cardinality(Queued(o)') \in Nat
           /\ Cardinality(Queued(o)') <= Cardinality(Queued(o))
           /\ (Deliver /\ events # << >> /\ Head(events) = Ready(o)) =>
                Cardinality(Queued(o)') + 1 <= Cardinality(Queued(o))
<1>1. ASSUME NEW es \in Seq(Event), Emit(es), \A i \in DOMAIN es : es[i] # Ready(o)
      PROVE  Queued(o)' \subseteq Queued(o)
  <2>1. /\ DOMAIN events = 1 .. Len(events) /\ DOMAIN es = 1 .. Len(es)
        /\ Len(events) \in Nat /\ Len(es) \in Nat
    OBVIOUS
  <2>2. ASSUME NEW i \in DOMAIN events', events'[i] = Ready(o)
        PROVE  i \in DOMAIN events /\ events[i] = Ready(o)
    <3>1. /\ i \in 1 .. Len(events) + Len(es)
          /\ i <= Len(events) => events'[i] = events[i]
          /\ i > Len(events) => events'[i] = es[i - Len(events)]
      BY <1>1, <2>2 DEF Emit
    <3>2. ~(i > Len(events))
      <4>1. i > Len(events) => i - Len(events) \in DOMAIN es
        BY <2>1, <3>1
      <4>2. QED
        BY <1>1, <2>2, <3>1, <4>1
    <3>3. QED
      BY <2>1, <2>2, <3>1, <3>2
  <2>3. QED
    BY <2>2 DEF Queued
<1>2. CASE events # << >> /\ Deliver
  <2>1. \A i \in DOMAIN events' : i \in Nat /\ i + 1 \in DOMAIN events /\ events'[i] = events[i + 1]
    BY <1>2 DEF Deliver
  <2> DEFINE Rest == Queued(o) \ {1}
             next == [i \in Queued(o)' |-> i + 1]
  <2>2. \A i \in Queued(o)' : i \in DOMAIN events' /\ events'[i] = Ready(o)
    BY DEF Queued
  <2>3. \A i \in Queued(o)' : i \in Nat \ {0} /\ i + 1 \in Rest
    <3>1. DOMAIN events' \subseteq Nat \ {0}
      BY <1>2 DEF Deliver
    <3>2. QED
      BY <2>1, <2>2, <3>1 DEF Queued
  <2>4. next \in Injection(Queued(o)', Rest)
    BY <2>3 DEF Injection, IsInjective
  <2>5. /\ IsFiniteSet(Rest) /\ Cardinality(Rest) \in Nat
        /\ Cardinality(Rest) <= Cardinality(Queued(o))
        /\ (1 \in Queued(o) => Cardinality(Rest) + 1 <= Cardinality(Queued(o)))
    BY OneMoreOrLess
  <2>6. IsFiniteSet(Queued(o)') /\ Cardinality(Queued(o)') <= Cardinality(Rest)
    BY <2>4, <2>5, FS_Injection
  <2>7. Cardinality(Queued(o)') \in Nat /\ Cardinality(Queued(o)) \in Nat
    BY <2>6, FS_CardinalityType
  <2>8. Head(events) = Ready(o) => 1 \in Queued(o)
    BY <1>2 DEF Queued
  <2>9. QED
    BY <2>5, <2>6, <2>7, <2>8
<1>3. ASSUME events' = << >> \/ UNCHANGED events
      PROVE  Queued(o)' \subseteq Queued(o)
  <2>1. CASE events' = << >>
    BY <2>1 DEF Queued
  <2>2. CASE UNCHANGED events
    BY <2>2 DEF Queued
  <2>3. QED
    BY <1>3, <2>1, <2>2
<1>4. CASE Queued(o)' \subseteq Queued(o) /\ ~(events # << >> /\ Deliver)
  BY <1>4, OneMoreOrLess
<1>5. QED
  BY <1>1, <1>2, <1>3, <1>4

\* A READY that is emitted is one more.
LEMMA QueueCountsOneMore ==
    ASSUME events \in Seq(Event), NEW o \in Order, IsFiniteSet(Queued(o)),
           NEW e \in Event, e # Ready(o), Emit(<<Ready(o), e>>)
    PROVE  /\ IsFiniteSet(Queued(o)') /\ Cardinality(Queued(o)') \in Nat
           /\ Cardinality(Queued(o)') <= Cardinality(Queued(o)) + 1
<1> DEFINE es == <<Ready(o), e>>
           n == Len(events)
<1>1. n \in Nat /\ DOMAIN events = 1 .. n
  OBVIOUS
<1>2. Ready(o) \in Event
  BY DEF Ready, Event, ReadyEvent
<1>3. es \in Seq(Event) /\ Len(es) = 2 /\ es[2] = e
  BY <1>2
<1>4. ASSUME NEW i \in DOMAIN events', events'[i] = Ready(o)
      PROVE  i \in Queued(o) \cup {n + 1}
  <2>1. /\ i \in 1 .. n + 2
        /\ i <= n => events'[i] = events[i]
        /\ i > n => events'[i] = es[i - n]
    BY <1>3, <1>4 DEF Emit
  <2>2. i # n + 2
    BY <1>1, <1>3, <1>4, <2>1
  <2>3. QED
    BY <1>1, <1>4, <2>1, <2>2 DEF Queued
<1>5. Queued(o)' \subseteq Queued(o) \cup {n + 1}
  BY <1>4 DEF Queued
<1>6. QED
  BY <1>5, OneMoreOrLess

(***************************************************************************)
(* A request in flight, of an order: it announces READY only when it has   *)
(* written it, and once.                                                   *)
(***************************************************************************)
LEMMA RequestCounts ==
    ASSUME TypeOK, WritesJustified, FlightsFinite, NEW r \in Request,
           RequestStep(r) \/ RequestFails(r), NEW o \in Order
    PROVE  /\ Cardinality(Announcing(o)') \in Nat /\ Cardinality(Queued(o)') \in Nat
           /\ readied'[o] \in Nat
           /\ Cardinality(Queued(o)') + Cardinality(Announcing(o)') + readied[o]
                <= Cardinality(Queued(o)) + Cardinality(Announcing(o)) + readied'[o]
<1> USE DEF TypeOK, StoreTypeOK, RequestsTypeOK
<1> DEFINE q == requests[r]
<1>1. /\ Busy(r) /\ q.order \in Order /\ q.next \in Status /\ q.driver \in User \cup {NoDriver}
      /\ q \in InFlight /\ q.next \in WritesOf(q.op)
  <2>1. Busy(r)
    BY DEF RequestStep, RequestFails, ChangeStatusUpdate, ChangeStatusEmit,
       AssignDriverUpdate, AssignDriverEmit, CompleteOrderUpdate, CompleteOrderEmit,
       AcceptOrderUpdate, ForeignKeyRefuses, At
  <2>2. q \in InFlight
    BY <2>1 DEF Busy
  <2>3. QED
    BY <2>1, <2>2 DEF InFlight, WritesJustified, RequestJustified
<1>3. IsFiniteSet(Announcing(o)) /\ IsFiniteSet(Queued(o))
  BY CountsAreNumbers
<1>4. \A p \in Request \ {r} : requests'[p] = requests[p]
  BY DEF RequestStep, RequestFails, ChangeStatusUpdate, ChangeStatusEmit,
     AssignDriverUpdate, AssignDriverEmit, CompleteOrderUpdate, CompleteOrderEmit,
     AcceptOrderUpdate, ForeignKeyRefuses, ThenEmit, Finish
<1>5. /\ Announcing(o)' \subseteq Announcing(o) \cup {r}
      /\ r \notin Announcing(o)' => Announcing(o)' \subseteq Announcing(o) \ {r}
  BY <1>4 DEF Announcing, RequestsOf, Busy
<1>6. UNCHANGED events =>
        Cardinality(Queued(o)') \in Nat /\ Cardinality(Queued(o)') <= Cardinality(Queued(o))
  BY <1>3, QueueCounts
<1>7. /\ Cardinality(Announcing(o)) \in Nat /\ Cardinality(Queued(o)) \in Nat
      /\ readied[o] \in Nat
      /\ Cardinality(Announcing(o)') \in Nat
      /\ Cardinality(Announcing(o)') <= Cardinality(Announcing(o)) + 1
      /\ r \notin Announcing(o)' => Cardinality(Announcing(o)') <= Cardinality(Announcing(o))
      /\ r \in Announcing(o) /\ r \notin Announcing(o)' =>
           Cardinality(Announcing(o)') + 1 <= Cardinality(Announcing(o))
  <2>1. Announcing(o) \ {r} \subseteq Announcing(o)
    OBVIOUS
  <2>2. QED
    BY <1>3, <1>5, <2>1, OneMoreOrLess
<1>8. Finish(r) => r \notin Announcing(o)'
  BY DEF Finish, Announcing, RequestsOf, Busy
<1>9. CASE ChangeStatusUpdate(r)
  <2>1. /\ UNCHANGED events
        /\ readied' = [readied EXCEPT ![q.order] = @ + (IF q.next = "READY" THEN 1 ELSE 0)]
        /\ requests' = [requests EXCEPT ![r].step = "emit"]
    BY <1>9 DEF ChangeStatusUpdate, SetStatus, SetOrder, ThenEmit
  <2>2. requests'[r].order = q.order /\ requests'[r].next = q.next
    BY <1>1, <2>1 DEF InFlight
  <2>3. readied'[o] \in Nat /\ readied'[o] >= readied[o]
    BY <1>1, <2>1
  <2>4. CASE q.order = o /\ q.next = "READY"
    <3>1. readied'[o] = readied[o] + 1
      BY <2>1, <2>4
    <3>2. QED
      BY <1>6, <1>7, <2>1, <2>3, <3>1
  <2>5. CASE ~(q.order = o /\ q.next = "READY")
    <3>1. r \notin Announcing(o)'
      BY <2>2, <2>5 DEF Announcing, RequestsOf
    <3>2. QED
      BY <1>6, <1>7, <2>1, <2>3, <3>1
  <2>6. QED
    BY <2>4, <2>5
<1>10. CASE AssignDriverUpdate(r) \/ CompleteOrderUpdate(r) \/ AcceptOrderUpdate(r)
  <2>1. /\ UNCHANGED events
        /\ \E n \in Status :
             readied' = [readied EXCEPT ![q.order] = @ + (IF n = "READY" THEN 1 ELSE 0)]
    BY <1>10 DEF AssignDriverUpdate, CompleteOrderUpdate, AcceptOrderUpdate, SetStatus,
       SetOrder, Status
  <2>2. readied'[o] \in Nat /\ readied'[o] >= readied[o]
    BY <1>1, <2>1
  <2>3. r \notin Announcing(o)'
    <3>1. CASE AcceptOrderUpdate(r)
      BY <1>8, <3>1 DEF AcceptOrderUpdate
    <3>2. CASE AssignDriverUpdate(r) \/ CompleteOrderUpdate(r)
      <4>1. q.next # "READY"
        BY <1>1, <3>2 DEF AssignDriverUpdate, CompleteOrderUpdate, At, WritesOf
      <4>2. requests' = [requests EXCEPT ![r].step = "emit"]
        BY <3>2 DEF AssignDriverUpdate, CompleteOrderUpdate, ThenEmit
      <4>3. requests'[r].next = q.next
        BY <1>1, <4>2 DEF InFlight
      <4>4. QED
        BY <4>1, <4>3 DEF Announcing
    <3>3. QED
      BY <1>10, <3>1, <3>2
  <2>4. QED
    BY <1>6, <1>7, <2>1, <2>2, <2>3
<1>11. CASE ChangeStatusEmit(r)
  <2>1. /\ Emit(ChangeStatusEvents(q.order, q.next)) /\ UNCHANGED readied
        /\ q.step = "emit" /\ r \notin Announcing(o)'
    BY <1>8, <1>11 DEF ChangeStatusEmit, At
  <2> DEFINE e == StatusChanged(q.order, q.next, NoDriver)
  <2>2. e \in Event /\ \A p \in Order : e # Ready(p)
    BY <1>1 DEF StatusChanged, Event, StatusEvent, Ready
  <2>3. CASE q.next = "READY" /\ q.order = o
    <3>1. Emit(<<Ready(o), e>>)
      BY <2>1, <2>3 DEF ChangeStatusEvents, Emit
    <3>2. Cardinality(Queued(o)') \in Nat /\ Cardinality(Queued(o)') <= Cardinality(Queued(o)) + 1
      BY <1>3, <2>2, <3>1, QueueCountsOneMore
    <3>3. r \in Announcing(o)
      BY <1>1, <2>1, <2>3 DEF Announcing, RequestsOf
    <3>4. QED
      BY <1>7, <2>1, <3>2, <3>3
  <2>4. CASE ~(q.next = "READY" /\ q.order = o)
    <3> DEFINE es == ChangeStatusEvents(q.order, q.next)
    <3>1. Ready(q.order) \in Event /\ (q.order # o => Ready(q.order) # Ready(o))
      BY <1>1 DEF Ready, Event, ReadyEvent
    <3>2. es \in Seq(Event) /\ \A i \in DOMAIN es : es[i] # Ready(o)
      <4>1. CASE q.next = "READY"
        <5>1. ASSUME NEW a \in Event, NEW b \in Event, a # Ready(o), b # Ready(o)
              PROVE  /\ <<a>> \o <<b>> \in Seq(Event)
                     /\ \A i \in DOMAIN (<<a>> \o <<b>>) : (<<a>> \o <<b>>)[i] # Ready(o)
          BY <5>1
        <5>2. es = <<Ready(q.order)>> \o <<e>>
          BY <4>1 DEF ChangeStatusEvents
        <5>3. QED
          BY <2>2, <2>4, <3>1, <4>1, <5>1, <5>2
      <4>2. CASE q.next # "READY"
        <5>1. es = <<e>>
          BY <4>2 DEF ChangeStatusEvents
        <5>2. QED
          BY <2>2, <5>1
      <4>3. QED
        BY <4>1, <4>2
    <3>3. Cardinality(Queued(o)') \in Nat /\ Cardinality(Queued(o)') <= Cardinality(Queued(o))
      BY <1>3, <2>1, <3>2, QueueCounts
    <3>4. QED
      BY <1>7, <2>1, <3>3
  <2>5. QED
    BY <2>3, <2>4
<1>12. CASE AssignDriverEmit(r) \/ CompleteOrderEmit(r)
  <2>1. PICK e \in Event : Emit(<<e>>) /\ e # Ready(o)
    <3>1. "ASSIGNED" \in Status /\ "DELIVERED" \in Status
      BY DEF Status
    <3>2. ASSUME NEW st \in Status, NEW d \in User \cup {NoDriver}
          PROVE  StatusChanged(q.order, st, d) \in Event /\ StatusChanged(q.order, st, d) # Ready(o)
      BY <1>1 DEF StatusChanged, Event, StatusEvent, Ready
    <3>3. QED
      BY <1>1, <1>12, <3>1, <3>2 DEF AssignDriverEmit, CompleteOrderEmit
  <2>2. <<e>> \in Seq(Event) /\ \A i \in DOMAIN <<e>> : <<e>>[i] # Ready(o)
    BY <2>1
  <2>3. Cardinality(Queued(o)') \in Nat /\ Cardinality(Queued(o)') <= Cardinality(Queued(o))
    BY <1>3, <2>1, <2>2, QueueCounts
  <2>4. UNCHANGED readied /\ r \notin Announcing(o)'
    BY <1>8, <1>12 DEF AssignDriverEmit, CompleteOrderEmit
  <2>5. QED
    BY <1>7, <2>3, <2>4
<1>13. CASE ForeignKeyRefuses(r) \/ RequestFails(r)
  <2>1. UNCHANGED <<events, readied>> /\ r \notin Announcing(o)'
    BY <1>8, <1>13 DEF ForeignKeyRefuses, RequestFails, storeVars
  <2>2. QED
    BY <1>6, <1>7, <2>1
<1>14. QED
  BY <1>9, <1>10, <1>11, <1>12, <1>13 DEF RequestStep

(***************************************************************************)
(* A run of the dispatch: it starts for an event that is taken from the    *)
(* queue, and creates one offer for each driver it has left.               *)
(***************************************************************************)
LEMMA DispatchCounts ==
    ASSUME TypeOK, FlightsFinite, NEW k \in Dispatch,
           \/ HandleOrderReady(k) \/ DispatchStep(k) \/ DispatchFails(k)
           \/ \E e \in User : OfferFails(k, e),
           NEW o \in Order, NEW d \in User
    PROVE  /\ Cardinality(MayOffer(o, d)') \in Nat /\ Cardinality(Queued(o)') \in Nat
           /\ offers'[o][d] \in Nat /\ readied'[o] = readied[o]
           /\ offers'[o][d] + Cardinality(MayOffer(o, d)') + Cardinality(Queued(o)')
                <= offers[o][d] + Cardinality(MayOffer(o, d)) + Cardinality(Queued(o))
<1> USE DEF TypeOK, StoreTypeOK, DispatchesTypeOK
<1> DEFINE x == dispatches[k]
           M == MayOffer(o, d)
<1>1. /\ Runs(k) => x \in Dispatching /\ x.order \in Order /\ x.left \subseteq User
      /\ IsFiniteSet(M) /\ IsFiniteSet(Queued(o))
      /\ Cardinality(M) \in Nat /\ Cardinality(Queued(o)) \in Nat
      /\ offers[o][d] \in Nat
  BY CountsAreNumbers DEF Runs, Dispatching
<1>2. \A p \in Dispatch \ {k} : dispatches'[p] = dispatches[p]
  BY DEF HandleOrderReady, DispatchStep, MarkSearching, FindDrivers, MarkOffered,
     CreateOffer, EmitOffered, Drained, DispatchFails, OfferFails, GoTo, EndRun
<1>3. /\ M' \subseteq M \cup {k}
      /\ k \notin M' => M' \subseteq M \ {k}
  BY <1>2 DEF MayOffer, DispatchesOf, Runs
<1>4. /\ Cardinality(M') \in Nat /\ Cardinality(M') <= Cardinality(M) + 1
      /\ (k \in M' => k \in M) => Cardinality(M') <= Cardinality(M)
      /\ k \in M /\ k \notin M' => Cardinality(M') + 1 <= Cardinality(M)
  <2>1. (k \in M' => k \in M) => M' \subseteq M
    BY <1>3
  <2>2. QED
    BY <1>1, <1>3, <2>1, OneMoreOrLess
<1>5. UNCHANGED events =>
        Cardinality(Queued(o)') \in Nat /\ Cardinality(Queued(o)') <= Cardinality(Queued(o))
  BY <1>1, QueueCounts
<1>6. EndRun(k) => k \notin M'
  BY DEF EndRun, MayOffer, DispatchesOf, Runs
<1>7. CASE HandleOrderReady(k)
  <2>1. /\ events # << >> /\ Deliver /\ Head(events).kind = "order.ready"
        /\ dispatches'[k].order = Head(events).order
        /\ UNCHANGED <<offers, readied>>
    BY <1>7 DEF HandleOrderReady, NextEvent
  <2>2. Cardinality(Queued(o)') \in Nat /\ Cardinality(Queued(o)') <= Cardinality(Queued(o))
    BY <1>1, <2>1, QueueCounts
  <2>3. CASE Head(events).order = o
    <3>1. Head(events) = Ready(o)
      <4>1. Head(events) \in Event
        BY <2>1
      <4>2. QED
        BY <2>1, <2>3, <4>1 DEF Event, StatusEvent, ReadyEvent, OfferedEvent, Ready
    <3>2. Cardinality(Queued(o)') + 1 <= Cardinality(Queued(o))
      BY <1>1, <2>1, <3>1, QueueCounts
    <3>3. QED
      BY <1>1, <1>4, <2>1, <2>2, <3>2
  <2>4. CASE Head(events).order # o
    <3>1. k \notin M'
      BY <2>1, <2>4 DEF MayOffer, DispatchesOf
    <3>2. QED
      BY <1>1, <1>4, <2>1, <2>2, <3>1
  <2>5. QED
    BY <2>3, <2>4
<1>8. CASE MarkSearching(k) \/ MarkOffered(k)
  <2>1. /\ Runs(k) /\ UNCHANGED <<events, offers>>
        /\ \E n \in {"SEARCHING_DRIVER", "OFFERED_TO_DRIVER"} :
             readied' = [readied EXCEPT ![x.order] = @ + (IF n = "READY" THEN 1 ELSE 0)]
    BY <1>8 DEF MarkSearching, MarkOffered, RunAt, SetStatus, SetOrder
  <2>2. readied'[o] = readied[o]
    BY <1>1, <2>1
  <2>3. k \in M' => k \in M
    <3>1. CASE MarkSearching(k)
      <4>1. x.step = "search" /\ dispatches' = [dispatches EXCEPT ![k].step = "query"]
        BY <3>1 DEF MarkSearching, RunAt, GoTo
      <4>2. dispatches'[k].order = x.order
        BY <1>1, <2>1, <4>1 DEF Dispatching
      <4>3. QED
        BY <2>1, <4>1, <4>2 DEF MayOffer, DispatchesOf
    <3>2. CASE MarkOffered(k)
      <4>1. dispatches' = [dispatches EXCEPT ![k].step = "create"]
        BY <3>2 DEF MarkOffered, GoTo
      <4>2. /\ dispatches'[k].order = x.order /\ dispatches'[k].left = x.left
            /\ dispatches'[k].step = "create"
        BY <1>1, <2>1, <4>1 DEF Dispatching
      <4>3. QED
        BY <2>1, <4>2 DEF MayOffer, DispatchesOf
    <3>3. QED
      BY <1>8, <3>1, <3>2
  <2>4. QED
    BY <1>1, <1>4, <1>5, <2>1, <2>2, <2>3
<1>9. CASE FindDrivers(k)
  <2>1. /\ Runs(k) /\ x.step = "query" /\ UNCHANGED <<events, offers, readied>>
    BY <1>9 DEF FindDrivers, RunAt, storeVars
  <2>2. k \in M' => k \in M
    <3>1. PICK S \in NearbyDrivers(x.order) :
            IF S = {} THEN EndRun(k)
            ELSE dispatches' = [dispatches EXCEPT ![k].step = "offer",
                                                  ![k].found = S, ![k].left = S]
      BY <1>9 DEF FindDrivers
    <3>2. S # {} => dispatches'[k].order = x.order
      BY <1>1, <2>1, <3>1 DEF Dispatching
    <3>3. QED
      BY <1>6, <2>1, <3>1, <3>2 DEF MayOffer, DispatchesOf
  <2>3. QED
    BY <1>1, <1>4, <1>5, <2>1, <2>2
<1>10. ASSUME NEW e \in User, CreateOffer(k, e) \/ OfferFails(k, e)
       PROVE  /\ Cardinality(M') \in Nat /\ Cardinality(Queued(o)') \in Nat
              /\ offers'[o][d] \in Nat /\ readied'[o] = readied[o]
              /\ offers'[o][d] + Cardinality(M') + Cardinality(Queued(o)')
                   <= offers[o][d] + Cardinality(M) + Cardinality(Queued(o))
  <2>1. /\ Runs(k) /\ x.step \in {"create", "drain"} /\ e \in x.left
        /\ UNCHANGED <<events, readied>>
        /\ \/ UNCHANGED offers
           \/ offers' = [offers EXCEPT ![x.order][e] = @ + 1]
        /\ \E st \in {"create", "drain"} :
             dispatches' = [dispatches EXCEPT ![k].step = st, ![k].left = @ \ {e}]
    <3>1. CASE OfferFails(k, e)
      BY <1>10, <3>1 DEF OfferFails, RunAt
    <3>2. CASE CreateOffer(k, e)
      <4>1. /\ Runs(k) /\ x.step \in {"create", "drain"}
            /\ dispatches' = [dispatches EXCEPT ![k].left = @ \ {e}]
        BY <3>2 DEF CreateOffer, RunAt
      <4>2. dispatches' = [dispatches EXCEPT ![k].step = x.step, ![k].left = @ \ {e}]
        BY <1>1, <4>1 DEF Dispatching
      <4>3. QED
        BY <3>2, <4>1, <4>2 DEF CreateOffer
    <3>3. QED
      BY <1>10, <3>1, <3>2
  <2>2. /\ dispatches'[k].order = x.order /\ dispatches'[k].left = x.left \ {e}
        /\ dispatches'[k].step \in {"create", "drain"}
    BY <1>1, <2>1 DEF Dispatching
  <2>3. k \in M' => k \in M
    BY <2>1, <2>2 DEF MayOffer, DispatchesOf
  <2>4. CASE x.order = o /\ e = d
    <3>1. k \in M /\ k \notin M'
      BY <2>1, <2>2, <2>4 DEF MayOffer, DispatchesOf
    <3>2. offers'[o][d] \in Nat /\ offers'[o][d] <= offers[o][d] + 1
      BY <1>1, <2>1, <2>4
    <3>3. Cardinality(M') \in Nat /\ Cardinality(M') + 1 <= Cardinality(M)
      BY <1>4, <3>1
    <3>4. Cardinality(Queued(o)') \in Nat /\ Cardinality(Queued(o)') <= Cardinality(Queued(o))
      BY <1>5, <2>1
    <3>5. readied'[o] = readied[o]
      BY <2>1
    <3>6. QED
      BY <1>1, <3>2, <3>3, <3>4, <3>5
  <2>5. CASE ~(x.order = o /\ e = d)
    <3>1. offers'[o][d] = offers[o][d]
      BY <1>1, <2>1, <2>5
    <3>2. QED
      BY <1>1, <1>4, <1>5, <2>1, <2>3, <3>1
  <2>6. QED
    BY <2>4, <2>5
<1>11. CASE EmitOffered(k)
  <2>1. /\ Emit(<<Offered(x.order, x.found)>>) /\ EndRun(k) /\ Runs(k)
        /\ UNCHANGED <<offers, readied>>
    BY <1>11 DEF EmitOffered, RunAt
  <2>2. ASSUME NEW e \in Event, e # Ready(o)
        PROVE  <<e>> \in Seq(Event) /\ \A i \in DOMAIN <<e>> : <<e>>[i] # Ready(o)
    BY <2>2
  <2>3. Offered(x.order, x.found) \in Event /\ Offered(x.order, x.found) # Ready(o)
    BY <1>1, <2>1 DEF Dispatching, Offered, Event, OfferedEvent, Ready
  <2>4. Cardinality(Queued(o)') \in Nat /\ Cardinality(Queued(o)') <= Cardinality(Queued(o))
    BY <1>1, <2>1, <2>2, <2>3, QueueCounts
  <2>5. QED
    BY <1>1, <1>4, <1>6, <2>1, <2>4
<1>12. CASE Drained(k) \/ DispatchFails(k)
  <2>1. EndRun(k) /\ UNCHANGED <<events, offers, readied>>
    BY <1>12 DEF Drained, DispatchFails, storeVars
  <2>2. QED
    BY <1>1, <1>4, <1>5, <1>6, <2>1
<1>13. QED
  BY <1>7, <1>8, <1>9, <1>10, <1>11, <1>12 DEF DispatchStep

\* A request that arrives has nothing to announce yet.
LEMMA ArrivalCounts ==
    ASSUME TypeOK, RequestArrives
    PROVE  /\ UNCHANGED <<offers, events, readied>>
           /\ \A o \in Order : Announcing(o)' \subseteq Announcing(o)
           /\ \/ UNCHANGED requests
              \/ \E r \in Request : \A p \in Request \ {r} : requests'[p] = requests[p]
<1> USE DEF TypeOK, StoreTypeOK, RequestsTypeOK
<1>1. ASSUME NEW u \in User, NEW p \in Order, CreateOrder(u, p)
      PROVE  /\ UNCHANGED <<offers, events, readied, requests>>
             /\ \A o \in Order : Announcing(o)' \subseteq Announcing(o)
  BY <1>1 DEF CreateOrder, Announcing, RequestsOf, Busy
<1>2. ASSUME NEW r \in Request, NEW u \in User, NEW p \in Order,
             \/ \E next \in Asked : ChangeStatusRead(r, u, p, next)
             \/ \E d \in User : AssignDriverRead(r, u, p, d)
             \/ CompleteOrderRead(r, u, p)
             \/ AcceptOrderRead(r, u, p)
      PROVE  /\ UNCHANGED <<offers, events, readied>>
             /\ \A o \in Order : Announcing(o)' \subseteq Announcing(o)
             /\ \A q \in Request \ {r} : requests'[q] = requests[q]
  <2>1. PICK op, next, d : Hold(r, op, p, next, d)
    BY <1>2 DEF ChangeStatusRead, AssignDriverRead, CompleteOrderRead, AcceptOrderRead
  <2>2. /\ requests'[r].step = "update"
        /\ \A q \in Request \ {r} : requests'[q] = requests[q]
    BY <2>1 DEF Hold
  <2>3. \A o \in Order : Announcing(o)' \subseteq Announcing(o)
    BY <2>2 DEF Announcing, RequestsOf, Busy
  <2>4. QED
    BY <1>2, <2>2, <2>3
       DEF ChangeStatusRead, AssignDriverRead, CompleteOrderRead, AcceptOrderRead, storeVars
<1>3. QED
  BY <1>1, <1>2 DEF RequestArrives

\* Each step starts one handler at most.
LEMMA StepKeepsFlightsFinite ==
    ASSUME TypeOK, FlightsFinite, [Next]_vars
    PROVE  FlightsFinite'
<1> USE DEF TypeOK, RequestsTypeOK, DispatchesTypeOK
<1> DEFINE B == {r \in Request : Busy(r)}
           D == {k \in Dispatch : Runs(k)}
<1>1. ASSUME \/ UNCHANGED requests
             \/ \E r \in Request : \A p \in Request \ {r} : requests'[p] = requests[p]
             \/ \A r \in Request : ~Busy(r)'
      PROVE  IsFiniteSet(B')
  <2>1. PICK x : B' \subseteq B \cup {x}
    BY <1>1 DEF Busy
  <2>2. IsFiniteSet(B)
    BY DEF FlightsFinite
  <2> HIDE DEF B
  <2>3. QED
    BY <2>1, <2>2, OneMoreOrLess
<1>2. ASSUME \/ UNCHANGED dispatches
             \/ \E k \in Dispatch : \A p \in Dispatch \ {k} : dispatches'[p] = dispatches[p]
             \/ \A k \in Dispatch : ~Runs(k)'
      PROVE  IsFiniteSet(D')
  <2>1. PICK x : D' \subseteq D \cup {x}
    BY <1>2 DEF Runs
  <2>2. IsFiniteSet(D)
    BY DEF FlightsFinite
  <2> HIDE DEF D
  <2>3. QED
    BY <2>1, <2>2, OneMoreOrLess
<1>3. CASE RequestArrives /\ UNCHANGED dispatches
  BY <1>1, <1>2, <1>3, ArrivalCounts DEF FlightsFinite
<1>4. ASSUME NEW r \in Request, RequestStep(r) \/ RequestFails(r), UNCHANGED dispatches
      PROVE  FlightsFinite'
  <2>1. \A p \in Request \ {r} : requests'[p] = requests[p]
    BY <1>4 DEF RequestStep, RequestFails, ChangeStatusUpdate, ChangeStatusEmit,
       AssignDriverUpdate, AssignDriverEmit, CompleteOrderUpdate, CompleteOrderEmit,
       AcceptOrderUpdate, ForeignKeyRefuses, ThenEmit, Finish
  <2>2. QED
    BY <1>1, <1>2, <1>4, <2>1 DEF FlightsFinite
<1>5. ASSUME NEW k \in Dispatch, UNCHANGED requests,
             \/ HandleOrderReady(k) \/ DispatchStep(k) \/ DispatchFails(k)
             \/ \E d \in User : OfferFails(k, d)
      PROVE  FlightsFinite'
  <2>1. \A p \in Dispatch \ {k} : dispatches'[p] = dispatches[p]
    BY <1>5 DEF HandleOrderReady, DispatchStep, MarkSearching, FindDrivers, MarkOffered,
       CreateOffer, EmitOffered, Drained, DispatchFails, OfferFails, GoTo, EndRun
  <2>2. QED
    BY <1>1, <1>2, <1>5, <2>1 DEF FlightsFinite
<1>6. CASE Crash
  <2>1. (\A r \in Request : ~Busy(r)') /\ (\A k \in Dispatch : ~Runs(k)')
    BY <1>6 DEF Crash, Busy, Runs
  <2>2. QED
    BY <1>1, <1>2, <2>1 DEF FlightsFinite
<1>7. CASE UNCHANGED <<requests, dispatches>>
  BY <1>1, <1>2, <1>7 DEF FlightsFinite
<1>8. QED
  BY <1>3, <1>4, <1>5, <1>6, <1>7 DEF Next, vars

\* RoundsAddUp, of one order and one driver.
LEMMA StepKeepsRounds ==
    ASSUME TypeOK, WritesJustified, RInv, [Next]_vars
    PROVE  RoundsAddUp'
<1> USE DEF TypeOK, StoreTypeOK
<1> SUFFICES ASSUME NEW o \in Order, NEW d \in User
             PROVE  offers'[o][d] + Cardinality(MayOffer(o, d)') + Cardinality(Queued(o)')
                      + Cardinality(Announcing(o)') <= readied'[o]
  BY DEF RoundsAddUp
<1> DEFINE A == Announcing(o)
           M == MayOffer(o, d)
           Q == Queued(o)
<1>1. FlightsFinite /\ offers[o][d] + Cardinality(M) + Cardinality(Q) + Cardinality(A) <= readied[o]
  BY DEF RInv, RoundsAddUp
<1>2. /\ IsFiniteSet(A) /\ Cardinality(A) \in Nat
      /\ IsFiniteSet(Q) /\ Cardinality(Q) \in Nat
      /\ IsFiniteSet(M) /\ Cardinality(M) \in Nat
      /\ offers[o][d] \in Nat /\ readied[o] \in Nat
  BY <1>1, CountsAreNumbers
<1>3. UNCHANGED requests => A' = A
  BY DEF Announcing, RequestsOf, Busy
<1>4. UNCHANGED dispatches => M' = M
  BY DEF MayOffer, DispatchesOf, Runs
<1>5. CASE RequestArrives /\ UNCHANGED dispatches
  <2>1. A' \subseteq A /\ UNCHANGED <<offers, events, readied>>
    BY <1>5, ArrivalCounts
  <2>2. Cardinality(A') \in Nat /\ Cardinality(A') <= Cardinality(A)
    BY <1>2, <2>1, OneMoreOrLess
  <2>3. Q' = Q
    BY <2>1 DEF Queued
  <2>4. QED
    BY <1>1, <1>2, <1>4, <1>5, <2>1, <2>2, <2>3
<1>6. ASSUME NEW r \in Request, RequestStep(r) \/ RequestFails(r), UNCHANGED dispatches
      PROVE  offers'[o][d] + Cardinality(M') + Cardinality(Q') + Cardinality(A') <= readied'[o]
  <2>1. /\ Cardinality(A') \in Nat /\ Cardinality(Q') \in Nat /\ readied'[o] \in Nat
        /\ Cardinality(Q') + Cardinality(A') + readied[o]
             <= Cardinality(Q) + Cardinality(A) + readied'[o]
    BY <1>1, <1>6, RequestCounts
  <2>2. UNCHANGED offers
    BY <1>6 DEF RequestStep, RequestFails, ChangeStatusUpdate, ChangeStatusEmit,
       AssignDriverUpdate, AssignDriverEmit, CompleteOrderUpdate, CompleteOrderEmit,
       AcceptOrderUpdate, ForeignKeyRefuses, storeVars
  <2>3. QED
    BY <1>1, <1>2, <1>4, <1>6, <2>1, <2>2
<1>7. ASSUME NEW k \in Dispatch, UNCHANGED requests,
             \/ HandleOrderReady(k) \/ DispatchStep(k) \/ DispatchFails(k)
             \/ \E e \in User : OfferFails(k, e)
      PROVE  offers'[o][d] + Cardinality(M') + Cardinality(Q') + Cardinality(A') <= readied'[o]
  <2>1. /\ Cardinality(M') \in Nat /\ Cardinality(Q') \in Nat
        /\ offers'[o][d] \in Nat /\ readied'[o] = readied[o]
        /\ offers'[o][d] + Cardinality(M') + Cardinality(Q')
             <= offers[o][d] + Cardinality(M) + Cardinality(Q)
    BY <1>1, <1>7, DispatchCounts
  <2>2. QED
    BY <1>1, <1>2, <1>3, <1>7, <2>1
<1>8. CASE /\ GatewayStep \/ \E p \in Order : TellingFails(p)
           /\ UNCHANGED <<requests, dispatches>>
  <2>1. /\ UNCHANGED events \/ (events # << >> /\ Deliver)
        /\ UNCHANGED <<offers, readied>>
    BY <1>8 DEF GatewayStep, HandleOrderStatusChanged, HandleOrderOffered, NextEvent,
       TellDriver, TellingFails, storeVars
  <2>2. Cardinality(Q') \in Nat /\ Cardinality(Q') <= Cardinality(Q)
    BY <1>2, <2>1, QueueCounts
  <2>3. QED
    BY <1>1, <1>2, <1>3, <1>4, <1>8, <2>1, <2>2
<1>9. CASE Crash
  <2>1. /\ A' = {} /\ M' = {} /\ events' = << >> /\ UNCHANGED <<offers, readied>>
    BY <1>9 DEF Crash, Announcing, RequestsOf, Busy, MayOffer, DispatchesOf, Runs
  <2>2. Cardinality(A') = 0 /\ Cardinality(M') = 0
    BY <2>1, FS_EmptySet
  <2>3. Cardinality(Q') \in Nat /\ Cardinality(Q') <= Cardinality(Q)
    BY <1>2, <2>1, QueueCounts
  <2>4. QED
    BY <1>1, <1>2, <2>1, <2>2, <2>3
<1>10. CASE UNCHANGED <<offers, events, readied, requests, dispatches>>
  <2>1. Q' = Q
    BY <1>10 DEF Queued
  <2>2. QED
    BY <1>1, <1>3, <1>4, <1>10, <2>1
<1>11. QED
  BY <1>5, <1>6, <1>7, <1>8, <1>9, <1>10
     DEF Next, DirectoryStep, ChangeOnline, UpdateLocation, vars, storeVars

\* At first nothing is in flight.
LEMMA InitRInv == Init => RInv
<1> SUFFICES ASSUME Init PROVE RInv
  OBVIOUS
<1> USE DEF Init, StoreInit, RequestsInit, DispatchesInit
<1>1. (\A r \in Request : ~Busy(r)) /\ (\A k \in Dispatch : ~Runs(k))
  BY DEF Busy, Runs
<1>2. \A o \in Order, d \in User :
        Announcing(o) = {} /\ Queued(o) = {} /\ MayOffer(o, d) = {}
  BY <1>1 DEF Announcing, RequestsOf, Queued, MayOffer, DispatchesOf
<1>3. {r \in Request : Busy(r)} = {} /\ {k \in Dispatch : Runs(k)} = {}
  BY <1>1
<1>4. \A o \in Order, d \in User : offers[o][d] = 0 /\ readied[o] = 0
  OBVIOUS
<1>5. IsFiniteSet({}) /\ Cardinality({}) = 0
  BY FS_EmptySet
<1>6. FlightsFinite
  BY <1>3, <1>5 DEF FlightsFinite
<1>7. RoundsAddUp
  <2> SUFFICES ASSUME NEW o \in Order, NEW d \in User
               PROVE  offers[o][d] + Cardinality(MayOffer(o, d)) + Cardinality(Queued(o))
                        + Cardinality(Announcing(o)) <= readied[o]
    BY DEF RoundsAddUp
  <2>1. /\ Cardinality(MayOffer(o, d)) = 0 /\ Cardinality(Queued(o)) = 0
        /\ Cardinality(Announcing(o)) = 0
    BY <1>2, <1>5
  <2>2. QED
    BY <1>4, <2>1
<1>8. QED
  BY <1>6, <1>7 DEF RInv

(***************************************************************************)
(* At every moment, the offers made to a driver of an order, with those    *)
(* that can still come of what is in flight, are no more than the times    *)
(* the order was made READY; whatever fails, and however many handlers run *)
(* at once.                                                                *)
(***************************************************************************)
THEOREM RoundsAlwaysAddUp == Spec => []RoundsAddUp
<1>1. IInv /\ RInv /\ [Next]_vars => RInv'
  BY StepKeepsFlightsFinite, StepKeepsRounds DEF IInv, RInv
<1>2. RInv => RoundsAddUp
  BY DEF RInv
<1>3. QED
  BY InitRInv, <1>1, <1>2, InvariantHolds, PTL DEF Spec

(***************************************************************************)
(* Nothing is dispatched twice for one event: a driver never has more      *)
(* offers of an order than READY was written to it.                        *)
(***************************************************************************)
THEOREM OneOfferPerRound == Spec => []OffersPerRound
<1>1. TypeOK /\ RInv => OffersPerRound
  <2> SUFFICES ASSUME TypeOK, RInv, NEW o \in Order, NEW d \in User
               PROVE  offers[o][d] <= readied[o]
    BY DEF OffersPerRound
  <2>1. /\ Cardinality(Announcing(o)) \in Nat /\ Cardinality(Queued(o)) \in Nat
        /\ Cardinality(MayOffer(o, d)) \in Nat
    BY CountsAreNumbers DEF RInv
  <2>2. offers[o][d] \in Nat /\ readied[o] \in Nat
    BY DEF TypeOK, StoreTypeOK
  <2>3. QED
    BY <2>1, <2>2 DEF RInv, RoundsAddUp
<1>2. IInv /\ RInv /\ [Next]_vars => RInv'
  BY StepKeepsFlightsFinite, StepKeepsRounds DEF IInv, RInv
<1>3. QED
  BY InitRInv, <1>1, <1>2, InvariantHolds, TypeCorrect, PTL DEF Spec

--------------------------------------------------------------------------------
(***************************************************************************)
(* The query of the drivers always has an answer.                          *)
(***************************************************************************)

\* A set of numbers that is not empty has a least one.
LEMMA LeastNumber ==
    ASSUME NEW S \in SUBSET Nat, S # {}
    PROVE  \E m \in S : \A n \in S : m <= n
<1> DEFINE R == OpToRel(<, Nat)
<1>1. IsWellFoundedOn(R, Nat)
  BY NatLessThanWellFounded
<1>2. PICK m \in S : \A n \in S : ~(<<n, m>> \in R)
  <2> HIDE DEF R
  <2>1. QED
    BY <1>1, WFMin
<1>3. ASSUME NEW n \in S PROVE m <= n
  <2>1. n \in Nat /\ m \in Nat
    OBVIOUS
  <2>2. CASE n < m
    <3>1. <<n, m>> \in R
      BY <2>1, <2>2 DEF OpToRel
    <3>2. QED
      BY <1>2, <3>1
  <2>3. QED
    BY <2>1, <2>2
<1>4. QED
  BY <1>3

\* Among drivers in reach there is a nearest.
LEMMA NearestExists ==
    ASSUME TypeOK, NEW o \in Order, NEW T \in SUBSET InReach(o), T # {}
    PROVE  \E d \in T : \A e \in T : Distance(o, d) <= Distance(o, e)
<1> DEFINE far == {Distance(o, e) : e \in T}
<1>1. ASSUME NEW e \in T PROVE Distance(o, e) \in Nat
  <2>1. e \in HasProfile /\ drivers[e].place # Nowhere
    BY DEF InReach
  <2>2. drivers[e].place \in Place
    BY <2>1 DEF TypeOK, DriversTypeOK
  <2>3. QED
    BY <2>2, DirectoryAssumption DEF Distance
<1>2. far \in SUBSET Nat /\ far # {}
  BY <1>1
<1>3. PICK m \in far : \A n \in far : m <= n
  <2> HIDE DEF far
  <2>1. QED
    BY <1>2, LeastNumber
<1>4. QED
  BY <1>3

\* The drivers that the query may return, but for its LIMIT reached.
Nearest(o, S) ==
    /\ S \in SUBSET InReach(o)
    /\ Cardinality(S) <= OfferLimit
    /\ \A d \in S, e \in InReach(o) \ S : Distance(o, d) <= Distance(o, e)

QueryAnswered == IsFiniteSet(HasProfile) => \A o \in Order : NearbyDrivers(o) # {}

\* The longest such list is an answer: one driver more could be added otherwise.
LEMMA LongestAnswers == TypeOK => QueryAnswered
<1> SUFFICES ASSUME TypeOK, IsFiniteSet(HasProfile), NEW o \in Order
             PROVE  NearbyDrivers(o) # {}
  BY DEF QueryAnswered
<1> DEFINE room == {OfferLimit - Cardinality(S) : S \in {S \in SUBSET InReach(o) : Nearest(o, S)}}
<1>1. ASSUME NEW S \in SUBSET InReach(o)
      PROVE  IsFiniteSet(S) /\ Cardinality(S) \in Nat
  <2>1. S \in SUBSET HasProfile
    BY DEF InReach
  <2>2. QED
    BY <2>1, FS_Subset, FS_CardinalityType
<1>2. OfferLimit \in Nat /\ OfferLimit # 0
  BY DirectoryAssumption
<1>3. room \in SUBSET Nat /\ room # {}
  <2>1. Nearest(o, {})
    BY <1>2, FS_EmptySet DEF Nearest
  <2>2. \A S \in SUBSET InReach(o) : Nearest(o, S) => OfferLimit - Cardinality(S) \in Nat
    BY <1>1, <1>2 DEF Nearest
  <2>3. QED
    BY <2>1, <2>2
<1>4. PICK S \in SUBSET InReach(o) :
        /\ Nearest(o, S)
        /\ \A T \in SUBSET InReach(o) :
             Nearest(o, T) => OfferLimit - Cardinality(S) <= OfferLimit - Cardinality(T)
  <2>1. PICK m \in room : \A n \in room : m <= n
    <3> HIDE DEF room
    <3>1. QED
      BY <1>3, LeastNumber
  <2>2. QED
    BY <2>1
<1>5. S # InReach(o) => Cardinality(S) = OfferLimit
  <2> SUFFICES ASSUME S # InReach(o), Cardinality(S) # OfferLimit PROVE FALSE
    OBVIOUS
  <2>1. PICK d \in InReach(o) \ S : \A e \in InReach(o) \ S : Distance(o, d) <= Distance(o, e)
    BY NearestExists
  <2> DEFINE T == S \cup {d}
  <2>2. Cardinality(T) = Cardinality(S) + 1 /\ Cardinality(S) \in Nat
    BY <1>1, FS_AddElement
  <2>3. Nearest(o, T)
    <3>1. T \in SUBSET InReach(o)
      OBVIOUS
    <3>2. Cardinality(T) <= OfferLimit
      BY <1>2, <1>4, <2>2 DEF Nearest
    <3>3. \A c \in T, e \in InReach(o) \ T : Distance(o, c) <= Distance(o, e)
      BY <1>4, <2>1 DEF Nearest
    <3>4. QED
      BY <3>1, <3>2, <3>3 DEF Nearest
  <2> HIDE DEF T
  <2>4. OfferLimit - Cardinality(S) <= OfferLimit - Cardinality(T)
    BY <1>4, <2>3 DEF Nearest
  <2>5. QED
    BY <1>2, <2>2, <2>4
<1>6. S \in NearbyDrivers(o)
  BY <1>4, <1>5 DEF NearbyDrivers, Nearest
<1>7. QED
  BY <1>6

(***************************************************************************)
(* With finitely many drivers, the query for the OfferLimit nearest ones   *)
(* has an answer in every state, whatever their distances and however many *)
(* are equally far: a run of the dispatch never waits at its query.        *)
(***************************************************************************)
THEOREM QueryAlwaysAnswered == Spec => []QueryAnswered
BY LongestAnswers, TypeCorrect, PTL
================================================================================
