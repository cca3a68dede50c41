----------------------------- MODULE DeliverySafety -----------------------------
(***************************************************************************)
(* The delivery flow keeps its promise, and with it the milestones of an   *)
(* order and the truth of what is announced.  The argument: a step that    *)
(* touches the table of orders writes what its handler was justified to    *)
(* write (StepKinds); such a write is a step of OrderPromise               *)
(* (WriteIsPromised), only adds to an order's history (StepGrows) and      *)
(* keeps the milestones (StepKeepsHistory); and a justification never      *)
(* expires, because it only asks for what the history holds.               *)
(***************************************************************************)
EXTENDS DeliveryProofs

\* A write of a row that some handler in flight was justified to make.
JustifiedWrite ==
    \E o \in Order, n \in Status, d \in User \cup {NoDriver} :
      /\ Exists(o)
      /\ \E s \in reached[o] : <<s, n>> \in Flow
      /\ \/ d = orders[o].driver
         \/ n = "ASSIGNED" /\ d \in HasProfile /\ home[d] = orders[o].tenant
      /\ SetOrder(o, n, d)

\* Creations, justified writes, and steps that leave the orders alone.
StepKind ==
    \/ \E u \in User, o \in Order : CreateOrder(u, o)
    \/ JustifiedWrite
    \/ UNCHANGED <<orders, reached>>

--------------------------------------------------------------------------------
\* The writes of the HTTP handlers are justified.
LEMMA RequestStepKind ==
    ASSUME TypeOK, WritesJustified, NEW r \in Request,
           RequestStep(r) \/ RequestFails(r)
    PROVE  JustifiedWrite \/ UNCHANGED <<orders, reached>>
<1> USE DEF TypeOK, StoreTypeOK, RequestsTypeOK
<1> DEFINE q == requests[r]
<1>1. CASE \/ ChangeStatusUpdate(r) \/ AssignDriverUpdate(r)
           \/ CompleteOrderUpdate(r) \/ AcceptOrderUpdate(r)
  <2>1. Busy(r)
    BY <1>1 DEF ChangeStatusUpdate, AssignDriverUpdate, CompleteOrderUpdate,
                AcceptOrderUpdate, At
  <2>2. /\ q.order \in Order /\ q.next \in Status
        /\ q.driver \in User \cup {NoDriver} /\ q.op \in Op
    BY <2>1 DEF Busy, InFlight
  <2>3. RequestJustified(r)
    BY <2>1 DEF WritesJustified
  <2>4. orders[q.order].driver \in User \cup {NoDriver}
    BY <2>2 DEF Row
  <2>5. CASE ChangeStatusUpdate(r)
    <3>1. SetOrder(q.order, q.next, orders[q.order].driver)
      BY <2>5 DEF ChangeStatusUpdate, SetStatus
    <3>2. QED
      BY <2>2, <2>3, <2>4, <3>1 DEF RequestJustified, JustifiedWrite
  <2>6. CASE CompleteOrderUpdate(r)
    <3>1. SetOrder(q.order, "DELIVERED", orders[q.order].driver)
      BY <2>6 DEF CompleteOrderUpdate, SetStatus
    <3>2. q.next = "DELIVERED"
      BY <2>3, <2>6 DEF CompleteOrderUpdate, At, RequestJustified, WritesOf
    <3>3. QED
      BY <2>2, <2>3, <2>4, <3>1, <3>2 DEF RequestJustified, JustifiedWrite
  <2>7. CASE AssignDriverUpdate(r) \/ AcceptOrderUpdate(r)
    <3>1. SetOrder(q.order, "ASSIGNED", q.driver) /\ q.driver \in HasProfile
      BY <2>7 DEF AssignDriverUpdate, AcceptOrderUpdate
    <3>2. q.op \in {"assignDriver", "acceptOrder"}
      BY <2>7 DEF AssignDriverUpdate, AcceptOrderUpdate, At
    <3>3. q.next = "ASSIGNED" /\ home[q.driver] = orders[q.order].tenant
      BY <2>3, <3>2 DEF RequestJustified, WritesOf
    <3>4. QED
      BY <2>2, <2>3, <3>1, <3>3 DEF RequestJustified, JustifiedWrite
  <2>8. QED
    BY <1>1, <2>5, <2>6, <2>7
<1>2. CASE \/ ChangeStatusEmit(r) \/ AssignDriverEmit(r) \/ CompleteOrderEmit(r)
           \/ ForeignKeyRefuses(r) \/ RequestFails(r)
  BY <1>2 DEF ChangeStatusEmit, AssignDriverEmit, CompleteOrderEmit,
              ForeignKeyRefuses, RequestFails, storeVars
<1>3. QED
  BY <1>1, <1>2 DEF RequestStep

\* So are the two writes of a dispatch.
LEMMA DispatchStepKind ==
    ASSUME TypeOK, WritesJustified, NEW k \in Dispatch,
           \/ HandleOrderReady(k) \/ DispatchStep(k) \/ DispatchFails(k)
           \/ \E d \in User : OfferFails(k, d)
    PROVE  JustifiedWrite \/ UNCHANGED <<orders, reached>>
<1> USE DEF TypeOK, StoreTypeOK, DispatchesTypeOK
<1> DEFINE x == dispatches[k]
<1>1. CASE MarkSearching(k) \/ MarkOffered(k)
  <2>1. Runs(k)
    BY <1>1 DEF MarkSearching, MarkOffered, RunAt
  <2>2. x.order \in Order
    BY <2>1 DEF Runs, Dispatching
  <2>3. DispatchJustified(k)
    BY <2>1 DEF WritesJustified
  <2>4. orders[x.order].driver \in User \cup {NoDriver}
    BY <2>2 DEF Row
  <2>5. CASE MarkSearching(k)
    <3>1. SetOrder(x.order, "SEARCHING_DRIVER", orders[x.order].driver)
      BY <2>5 DEF MarkSearching, SetStatus
    <3>2. Exists(x.order) /\ "READY" \in reached[x.order]
      BY <2>3, <2>5 DEF MarkSearching, RunAt, DispatchJustified
    <3>3. <<"READY", "SEARCHING_DRIVER">> \in Flow /\ "SEARCHING_DRIVER" \in Status
      BY DEF Flow, validTransitions, Status
    <3>4. QED
      BY <2>2, <2>4, <3>1, <3>2, <3>3 DEF JustifiedWrite
  <2>6. CASE MarkOffered(k)
    <3>1. SetOrder(x.order, "OFFERED_TO_DRIVER", orders[x.order].driver)
      BY <2>6 DEF MarkOffered, SetStatus
    <3>2. Exists(x.order) /\ "SEARCHING_DRIVER" \in reached[x.order]
      BY <2>3, <2>6 DEF MarkOffered, RunAt, DispatchJustified
    <3>3. <<"SEARCHING_DRIVER", "OFFERED_TO_DRIVER">> \in Flow
          /\ "OFFERED_TO_DRIVER" \in Status
      BY DEF Flow, validTransitions, Status
    <3>4. QED
      BY <2>2, <2>4, <3>1, <3>2, <3>3 DEF JustifiedWrite
  <2>7. QED
    BY <1>1, <2>5, <2>6
<1>2. CASE \/ HandleOrderReady(k) \/ FindDrivers(k) \/ EmitOffered(k)
           \/ Drained(k) \/ DispatchFails(k)
           \/ \E d \in User : CreateOffer(k, d) \/ OfferFails(k, d)
  BY <1>2 DEF HandleOrderReady, FindDrivers, EmitOffered, Drained, DispatchFails,
              CreateOffer, OfferFails, storeVars
<1>3. QED
  BY <1>1, <1>2 DEF DispatchStep

\* Every step is of one of the three kinds.
LEMMA StepKinds ==
    ASSUME TypeOK, WritesJustified, [Next]_vars
    PROVE  StepKind
<1>1. CASE RequestArrives
  BY <1>1 DEF RequestArrives, ChangeStatusRead, AssignDriverRead, CompleteOrderRead,
              AcceptOrderRead, storeVars, StepKind
<1>2. CASE \E r \in Request : RequestStep(r) \/ RequestFails(r)
  BY <1>2, RequestStepKind DEF StepKind
<1>3. CASE \E k \in Dispatch :
             \/ HandleOrderReady(k) \/ DispatchStep(k) \/ DispatchFails(k)
             \/ \E d \in User : OfferFails(k, d)
  BY <1>3, DispatchStepKind DEF StepKind
<1>4. CASE DirectoryStep
  BY <1>4 DEF DirectoryStep, ChangeOnline, UpdateLocation, storeVars, StepKind
<1>5. CASE GatewayStep \/ \E o \in Order : TellingFails(o)
  BY <1>5 DEF GatewayStep, HandleOrderStatusChanged, HandleOrderOffered, TellDriver,
              TellingFails, storeVars, StepKind
<1>6. CASE Crash \/ UNCHANGED vars
  BY <1>6 DEF Crash, vars, storeVars, StepKind
<1>7. QED
  BY <1>1, <1>2, <1>3, <1>4, <1>5, <1>6 DEF Next

--------------------------------------------------------------------------------
(***************************************************************************)
(* A history with its milestones in order keeps them in order when a       *)
(* status that follows one of its statuses is added: the fact about the    *)
(* transition table that everything rests on.                              *)
(***************************************************************************)
LEMMA FollowingKeepsMilestones ==
    ASSUME NEW R \in SUBSET Status, "CREATED" \in R,
           \A m \in R : Needs[m] \in R,
           R \cap {"PENDING", "CONFIRMED"} = {},
           NEW s \in R, NEW n \in Status, <<s, n>> \in Flow
    PROVE  /\ \A m \in R \cup {n} : Needs[m] \in R \cup {n}
           /\ (R \cup {n}) \cap {"PENDING", "CONFIRMED"} = {}
<1>1. /\ n \in {"PREPARING", "CANCELLED", "READY", "SEARCHING_DRIVER",
                "OFFERED_TO_DRIVER", "FAILED", "ASSIGNED", "PICKED_UP", "DELIVERED"}
      /\ n = "READY" => s = "PREPARING"
      /\ n = "SEARCHING_DRIVER" => s \in {"READY", "OFFERED_TO_DRIVER"}
      /\ n = "OFFERED_TO_DRIVER" => s = "SEARCHING_DRIVER"
      /\ n = "FAILED" => s \in {"SEARCHING_DRIVER", "PICKED_UP"}
      /\ n = "ASSIGNED" => s \in {"OFFERED_TO_DRIVER", "READY", "CONFIRMED"}
      /\ n = "PICKED_UP" => s = "ASSIGNED"
      /\ n = "DELIVERED" => s \in {"PICKED_UP", "ASSIGNED"}
  BY DEF Flow, validTransitions, Assignable
<1>2. /\ Needs["PREPARING"] = "CREATED" /\ Needs["CANCELLED"] = "CREATED"
      /\ Needs["READY"] = "PREPARING"
      /\ Needs["SEARCHING_DRIVER"] = "READY" /\ Needs["OFFERED_TO_DRIVER"] = "READY"
      /\ Needs["ASSIGNED"] = "READY" /\ Needs["FAILED"] = "READY"
      /\ Needs["PICKED_UP"] = "ASSIGNED" /\ Needs["DELIVERED"] = "ASSIGNED"
  BY DEF Needs, Status
<1>3. "ASSIGNED" \in R => "READY" \in R
  BY <1>2
<1>4. Needs[n] \in R
  <2>1. CASE n \in {"PREPARING", "CANCELLED"}
    BY <1>2, <2>1
  <2>2. CASE n \in {"READY", "PICKED_UP"}
    BY <1>1, <1>2, <2>2
  <2>3. CASE n \in {"SEARCHING_DRIVER", "OFFERED_TO_DRIVER", "ASSIGNED"}
    BY <1>1, <1>2, <2>3
  <2>4. CASE n = "FAILED"
    <3>1. s = "SEARCHING_DRIVER" => "READY" \in R
      BY <1>2
    <3>2. s = "PICKED_UP" => "READY" \in R
      BY <1>2, <1>3
    <3>3. QED
      BY <1>1, <1>2, <2>4, <3>1, <3>2
  <2>5. CASE n = "DELIVERED"
    BY <1>1, <1>2, <2>5
  <2>6. QED
    BY <1>1, <2>1, <2>2, <2>3, <2>4, <2>5
<1>5. QED
  BY <1>1, <1>4

\* What a justified write does to the history of the order it writes.
LEMMA SetOrderHistory ==
    ASSUME orders \in [Order -> Row], reached \in [Order -> SUBSET Status],
           NEW o \in Order, NEW n \in Status, NEW d \in User \cup {NoDriver},
           SetOrder(o, n, d)
    PROVE  /\ orders'[o].status = n /\ orders'[o].driver = d
           /\ orders'[o].tenant = orders[o].tenant
           /\ reached'[o] = reached[o] \cup {n}
           /\ \A p \in Order \ {o} : orders'[p] = orders[p] /\ reached'[p] = reached[p]
BY DEF SetOrder, Row

\* Absent is not a status: an order that has one exists.
LEMMA StatusExists == Absent \notin Status
BY DEF Absent, Status

(***************************************************************************)
(* Histories only grow, and an order that exists goes on existing in the   *)
(* same tenant.                                                            *)
(***************************************************************************)
Grows ==
    \A o \in Order :
      /\ reached[o] \subseteq reached'[o]
      /\ Exists(o) => Exists(o)' /\ orders'[o].tenant = orders[o].tenant

\* Every step makes the histories grow.
LEMMA StepGrows ==
    ASSUME TypeOK, HistoryKept, StepKind
    PROVE  Grows
<1> USE DEF TypeOK, StoreTypeOK
<1>1. ASSUME NEW u \in User, NEW o \in Order, CreateOrder(u, o)
      PROVE  Grows
  <2>1. ~Exists(o) /\ reached[o] = {}
    BY <1>1 DEF CreateOrder, HistoryKept
  <2>2. \A p \in Order \ {o} : orders'[p] = orders[p] /\ reached'[p] = reached[p]
    BY <1>1 DEF CreateOrder
  <2>3. QED
    BY <2>1, <2>2 DEF Grows, Exists
<1>2. CASE JustifiedWrite
  <2>1. PICK o \in Order, n \in Status, d \in User \cup {NoDriver} : SetOrder(o, n, d)
    BY <1>2 DEF JustifiedWrite
  <2>2. /\ orders'[o].status = n /\ orders'[o].tenant = orders[o].tenant
        /\ reached'[o] = reached[o] \cup {n}
        /\ \A p \in Order \ {o} : orders'[p] = orders[p] /\ reached'[p] = reached[p]
    BY <2>1, SetOrderHistory
  <2>3. QED
    BY <2>2, StatusExists DEF Grows, Exists
<1>3. CASE UNCHANGED <<orders, reached>>
  BY <1>3 DEF Grows, Exists
<1>4. QED
  BY <1>1, <1>2, <1>3 DEF StepKind

\* HistoryKept and MilestonesInOrder, of one order.
GoodHistory(o) ==
    /\ IF Exists(o) THEN {"CREATED", orders[o].status} \subseteq reached[o]
       ELSE reached[o] = {} /\ orders[o].driver = NoDriver
    /\ \A m \in reached[o] : Needs[m] \in reached[o]
    /\ reached[o] \cap {"PENDING", "CONFIRMED"} = {}
    /\ orders[o].driver # NoDriver => "ASSIGNED" \in reached[o]

\* Every step keeps the histories and their milestones.
LEMMA StepKeepsHistory ==
    ASSUME TypeOK, HistoryKept, MilestonesInOrder, StepKind
    PROVE  HistoryKept' /\ MilestonesInOrder'
<1> USE DEF TypeOK, StoreTypeOK
<1>1. \A o \in Order : GoodHistory(o)
  BY DEF HistoryKept, MilestonesInOrder, GoodHistory
<1>2. \A o \in Order :
        orders'[o] = orders[o] /\ reached'[o] = reached[o] => GoodHistory(o)'
  BY <1>1 DEF GoodHistory, Exists
<1>3. ASSUME NEW u \in User, NEW o \in Order, CreateOrder(u, o)
      PROVE  \A p \in Order : GoodHistory(p)'
  <2>1. orders'[o].status = "CREATED" /\ orders'[o].driver = NoDriver
        /\ reached'[o] = {"CREATED"}
    BY <1>3 DEF CreateOrder
  <2>2. Needs["CREATED"] = "CREATED" /\ "CREATED" # Absent
    BY DEF Needs, Status, Absent
  <2>3. GoodHistory(o)'
    BY <2>1, <2>2 DEF GoodHistory, Exists
  <2>4. \A p \in Order \ {o} : orders'[p] = orders[p] /\ reached'[p] = reached[p]
    BY <1>3 DEF CreateOrder
  <2>5. QED
    BY <1>2, <2>3, <2>4
<1>4. ASSUME JustifiedWrite
      PROVE  \A p \in Order : GoodHistory(p)'
  <2>1. PICK o \in Order, n \in Status, d \in User \cup {NoDriver} :
          /\ Exists(o)
          /\ \E s \in reached[o] : <<s, n>> \in Flow
          /\ \/ d = orders[o].driver
             \/ n = "ASSIGNED" /\ d \in HasProfile /\ home[d] = orders[o].tenant
          /\ SetOrder(o, n, d)
    BY <1>4 DEF JustifiedWrite
  <2>2. /\ orders'[o].status = n /\ orders'[o].driver = d
        /\ reached'[o] = reached[o] \cup {n}
        /\ \A p \in Order \ {o} : orders'[p] = orders[p] /\ reached'[p] = reached[p]
    BY <2>1, SetOrderHistory
  <2>3. "CREATED" \in reached[o]
    BY <1>1, <2>1 DEF GoodHistory
  <2>4. /\ \A m \in reached[o] \cup {n} : Needs[m] \in reached[o] \cup {n}
        /\ (reached[o] \cup {n}) \cap {"PENDING", "CONFIRMED"} = {}
    BY <1>1, <2>1, <2>3, FollowingKeepsMilestones DEF GoodHistory
  <2>5. d # NoDriver => "ASSIGNED" \in reached[o] \cup {n}
    BY <1>1, <2>1 DEF GoodHistory
  <2>6. GoodHistory(o)'
    BY <2>2, <2>3, <2>4, <2>5, StatusExists DEF GoodHistory, Exists
  <2>7. QED
    BY <1>2, <2>2, <2>6
<1>5. ASSUME UNCHANGED <<orders, reached>>
      PROVE  \A p \in Order : GoodHistory(p)'
  BY <1>2, <1>5
<1>6. \A o \in Order : GoodHistory(o)'
  BY <1>3, <1>4, <1>5 DEF StepKind
<1>7. QED
  BY <1>6 DEF GoodHistory, HistoryKept, MilestonesInOrder

--------------------------------------------------------------------------------
(***************************************************************************)
(* A justification never expires: it only asks for what the history holds. *)
(***************************************************************************)

\* A request that a step leaves in flight stays justified.
LEMMA RequestStaysJustified ==
    ASSUME TypeOK, WritesJustified, Grows, NEW r \in Request, requests'[r] = requests[r]
    PROVE  Busy(r)' => RequestJustified(r)'
<1> SUFFICES ASSUME Busy(r) PROVE RequestJustified(r)'
  BY DEF Busy
<1>1. RequestJustified(r) /\ requests[r].order \in Order
  BY DEF WritesJustified, TypeOK, RequestsTypeOK, Busy, InFlight
<1>2. QED
  BY <1>1 DEF RequestJustified, Grows, Exists

\* So does a run of the dispatch.
LEMMA DispatchStaysJustified ==
    ASSUME TypeOK, WritesJustified, Grows, NEW k \in Dispatch,
           dispatches'[k] = dispatches[k]
    PROVE  Runs(k)' => DispatchJustified(k)'
<1> SUFFICES ASSUME Runs(k) PROVE DispatchJustified(k)'
  BY DEF Runs
<1>1. DispatchJustified(k) /\ dispatches[k].order \in Order
  BY DEF WritesJustified, TypeOK, DispatchesTypeOK, Runs, Dispatching
<1>2. QED
  BY <1>1 DEF DispatchJustified, Grows, Exists

\* A request that a handler puts in flight is justified by what it has read.
LEMMA ArrivalJustified ==
    ASSUME TypeOK, HistoryKept, WritesJustified, Grows, RequestArrives
    PROVE  \A r \in Request : Busy(r)' => RequestJustified(r)'
<1> USE DEF TypeOK, StoreTypeOK, RequestsTypeOK
<1>1. ASSUME NEW r \in Request, NEW op \in Op, NEW o \in Order, NEW n \in Status,
             NEW d \in User \cup {NoDriver}, Hold(r, op, o, n, d), UNCHANGED storeVars,
             Exists(o), n \in WritesOf(op), <<orders[o].status, n>> \in Flow,
             op \in {"assignDriver", "acceptOrder"} =>
               d \in User /\ home[d] = orders[o].tenant
      PROVE  \A p \in Request : Busy(p)' => RequestJustified(p)'
  <2>1. /\ requests'[r] = [step |-> "update", op |-> op, order |-> o, next |-> n,
                           driver |-> d]
        /\ \A p \in Request \ {r} : requests'[p] = requests[p]
    BY <1>1 DEF Hold
  <2>2. orders' = orders /\ reached' = reached
    BY <1>1 DEF storeVars
  <2>3. orders[o].status \in reached[o]
    BY <1>1 DEF HistoryKept
  <2>4. RequestJustified(r)'
    <3>1. /\ requests'[r].order = o /\ requests'[r].next = n /\ requests'[r].op = op
          /\ requests'[r].driver = d /\ requests'[r].step # "emit"
      BY <2>1
    <3>2. Exists(o)'
      BY <1>1, <2>2 DEF Exists
    <3>3. requests'[r].next \in WritesOf(requests'[r].op)
      BY <1>1, <3>1
    <3>4. \E s \in reached'[o] : <<s, requests'[r].next>> \in Flow
      BY <1>1, <2>2, <2>3, <3>1
    <3>5. requests'[r].op \in {"assignDriver", "acceptOrder"} =>
            /\ requests'[r].driver \in User
            /\ home[requests'[r].driver] = orders'[o].tenant
      BY <1>1, <2>2, <3>1
    <3>6. QED
      BY <3>1, <3>2, <3>3, <3>4, <3>5 DEF RequestJustified
  <2>5. QED
    BY <2>1, <2>4, RequestStaysJustified
<1>2. /\ {"changeStatus", "assignDriver", "completeOrder", "acceptOrder"} = Op
      /\ "ASSIGNED" \in Status /\ "DELIVERED" \in Status
      /\ validTransitions \subseteq Flow
      /\ \A s \in Assignable : <<s, "ASSIGNED">> \in Flow
      /\ <<"ASSIGNED", "DELIVERED">> \in Flow
      /\ WritesOf("changeStatus") = Status
      /\ WritesOf("assignDriver") = {"ASSIGNED"}
      /\ WritesOf("acceptOrder") = {"ASSIGNED"}
      /\ WritesOf("completeOrder") = {"DELIVERED"}
  <2>1. {"changeStatus", "assignDriver", "completeOrder", "acceptOrder"} = Op
        /\ "ASSIGNED" \in Status /\ "DELIVERED" \in Status
    BY DEF Op, Status
  <2>2. /\ validTransitions \subseteq Flow
        /\ \A s \in Assignable : <<s, "ASSIGNED">> \in Flow
        /\ <<"ASSIGNED", "DELIVERED">> \in Flow
    BY DEF Flow
  <2>3. /\ WritesOf("changeStatus") = Status
        /\ WritesOf("assignDriver") = {"ASSIGNED"}
        /\ WritesOf("acceptOrder") = {"ASSIGNED"}
        /\ WritesOf("completeOrder") = {"DELIVERED"}
    BY DEF WritesOf
  <2>4. QED
    BY <2>1, <2>2, <2>3
<1>3. ASSUME NEW u \in User, NEW o \in Order, CreateOrder(u, o)
      PROVE  \A r \in Request : Busy(r)' => RequestJustified(r)'
  BY <1>3, RequestStaysJustified DEF CreateOrder
<1>4. ASSUME NEW r \in Request, NEW u \in User, NEW o \in Order, NEW n \in Asked,
             ChangeStatusRead(r, u, o, n)
      PROVE  \A p \in Request : Busy(p)' => RequestJustified(p)'
  <2>1. n \in Status
    BY RequestAssumption
  <2>2. Exists(o) /\ <<orders[o].status, n>> \in Flow
    BY <1>2, <1>4 DEF ChangeStatusRead, Visible, CanChange
  <2>3. Hold(r, "changeStatus", o, n, NoDriver) /\ UNCHANGED storeVars
    BY <1>4 DEF ChangeStatusRead
  <2>4. QED
    BY <1>1, <1>2, <2>1, <2>2, <2>3
<1>5. ASSUME NEW r \in Request, NEW u \in User, NEW o \in Order, NEW d \in User,
             AssignDriverRead(r, u, o, d)
      PROVE  \A p \in Request : Busy(p)' => RequestJustified(p)'
  <2>1. Exists(o) /\ <<orders[o].status, "ASSIGNED">> \in Flow
    BY <1>2, <1>5 DEF AssignDriverRead, Visible, CanAssign
  <2>2. home[d] = orders[o].tenant
    BY <1>5 DEF AssignDriverRead, Visible, CanAssign
  <2>3. Hold(r, "assignDriver", o, "ASSIGNED", d) /\ UNCHANGED storeVars
    BY <1>5 DEF AssignDriverRead
  <2>4. QED
    BY <1>1, <1>2, <2>1, <2>2, <2>3
<1>6. ASSUME NEW r \in Request, NEW u \in User, NEW o \in Order,
             CompleteOrderRead(r, u, o)
      PROVE  \A p \in Request : Busy(p)' => RequestJustified(p)'
  <2>1. Exists(o) /\ <<orders[o].status, "DELIVERED">> \in Flow
    BY <1>2, <1>6 DEF CompleteOrderRead, Visible, CanComplete
  <2>2. Hold(r, "completeOrder", o, "DELIVERED", u) /\ UNCHANGED storeVars
    BY <1>6 DEF CompleteOrderRead
  <2>3. QED
    BY <1>1, <1>2, <2>1, <2>2
<1>7. ASSUME NEW r \in Request, NEW u \in User, NEW o \in Order,
             AcceptOrderRead(r, u, o)
      PROVE  \A p \in Request : Busy(p)' => RequestJustified(p)'
  <2>1. Exists(o) /\ <<orders[o].status, "ASSIGNED">> \in Flow
    BY <1>2, <1>7 DEF AcceptOrderRead, Visible, CanAccept
  <2>2. home[u] = orders[o].tenant
    BY <1>7 DEF AcceptOrderRead, Visible
  <2>3. Hold(r, "acceptOrder", o, "ASSIGNED", u) /\ UNCHANGED storeVars
    BY <1>7 DEF AcceptOrderRead
  <2>4. QED
    BY <1>1, <1>2, <2>1, <2>2, <2>3
<1>8. QED
  BY <1>3, <1>4, <1>5, <1>6, <1>7 DEF RequestArrives

\* A request goes on to its emit with what it has written, or ends.
LEMMA RequestStepJustified ==
    ASSUME TypeOK, WritesJustified, Grows, NEW r \in Request,
           RequestStep(r) \/ RequestFails(r)
    PROVE  \A p \in Request : Busy(p)' => RequestJustified(p)'
<1> USE DEF TypeOK, StoreTypeOK, RequestsTypeOK
<1> DEFINE q == requests[r]
<1>1. CASE Finish(r)
  <2>1. /\ requests'[r] = Idle
        /\ \A p \in Request \ {r} : requests'[p] = requests[p]
    BY <1>1 DEF Finish
  <2>2. QED
    BY <2>1, RequestStaysJustified DEF Busy
<1>2. CASE ChangeStatusUpdate(r) \/ AssignDriverUpdate(r) \/ CompleteOrderUpdate(r)
  <2>1. Busy(r) /\ ThenEmit(r)
    BY <1>2 DEF ChangeStatusUpdate, AssignDriverUpdate, CompleteOrderUpdate, At
  <2>2. q \in InFlight /\ RequestJustified(r)
    BY <2>1 DEF Busy, WritesJustified
  <2>3. q.order \in Order /\ q.next \in Status
    BY <2>2 DEF InFlight
  <2>4. /\ requests'[r].step = "emit" /\ requests'[r].order = q.order
        /\ requests'[r].next = q.next /\ requests'[r].op = q.op
        /\ requests'[r].driver = q.driver
        /\ \A p \in Request \ {r} : requests'[p] = requests[p]
    BY <2>1, <2>2 DEF ThenEmit, InFlight
  <2>5. reached'[q.order] = reached[q.order] \cup {q.next}
    <3>1. CASE ChangeStatusUpdate(r)
      BY <2>3, <3>1 DEF ChangeStatusUpdate, SetStatus, SetOrder
    <3>2. CASE AssignDriverUpdate(r)
      <4>1. q.next = "ASSIGNED"
        BY <2>2, <3>2 DEF AssignDriverUpdate, At, RequestJustified, WritesOf
      <4>2. QED
        BY <2>3, <3>2, <4>1 DEF AssignDriverUpdate, SetOrder
    <3>3. CASE CompleteOrderUpdate(r)
      <4>1. q.next = "DELIVERED"
        BY <2>2, <3>3 DEF CompleteOrderUpdate, At, RequestJustified, WritesOf
      <4>2. QED
        BY <2>3, <3>3, <4>1 DEF CompleteOrderUpdate, SetStatus, SetOrder
    <3>4. QED
      BY <1>2, <3>1, <3>2, <3>3
  <2>6. RequestJustified(r)'
    <3>1. /\ orders'[q.order].status # Absent
          /\ orders'[q.order].tenant = orders[q.order].tenant
      BY <2>2, <2>3 DEF RequestJustified, Grows, Exists
    <3>2. q.next \in WritesOf(q.op)
      BY <2>2 DEF RequestJustified
    <3>3. \E s \in reached'[q.order] : <<s, q.next>> \in Flow
      BY <2>2, <2>5 DEF RequestJustified
    <3>4. q.op \in {"assignDriver", "acceptOrder"} =>
            q.driver \in User /\ home[q.driver] = orders[q.order].tenant
      BY <2>2 DEF RequestJustified
    <3>5. requests'[r].next \in WritesOf(requests'[r].op)
      BY <2>4, <3>2
    <3>6. QED
      BY <2>4, <2>5, <3>1, <3>3, <3>4, <3>5 DEF RequestJustified, Exists
  <2>7. QED
    BY <2>4, <2>6, RequestStaysJustified
<1>3. QED
  BY <1>1, <1>2 DEF RequestStep, RequestFails, ChangeStatusEmit, AssignDriverEmit,
     CompleteOrderEmit, AcceptOrderUpdate, ForeignKeyRefuses

\* A run starts on an order that has been READY, and once it has looked for
\* drivers its order has been SEARCHING_DRIVER.
LEMMA DispatchStepJustified ==
    ASSUME TypeOK, WritesJustified, ReadyWasTrue, Grows, NEW k \in Dispatch,
           \/ HandleOrderReady(k) \/ DispatchStep(k) \/ DispatchFails(k)
           \/ \E d \in User : OfferFails(k, d)
    PROVE  \A p \in Dispatch : Runs(p)' => DispatchJustified(p)'
<1> USE DEF TypeOK, StoreTypeOK, DispatchesTypeOK
<1> DEFINE x == dispatches[k]
<1>1. Runs(k) => x \in Dispatching /\ x.order \in Order /\ DispatchJustified(k)
  BY DEF Runs, Dispatching, WritesJustified
<1>2. CASE EndRun(k)
  <2>1. /\ dispatches'[k] = Idle
        /\ \A p \in Dispatch \ {k} : dispatches'[p] = dispatches[p]
    BY <1>2 DEF EndRun
  <2>2. QED
    BY <2>1, DispatchStaysJustified DEF Runs
<1>3. CASE HandleOrderReady(k)
  <2>1. Head(events) \in ReadyEvent /\ NextEvent("order.ready")
    BY <1>3, HeadType DEF HandleOrderReady
  <2>2. 1 \in DOMAIN events /\ Head(events) = events[1]
    BY <2>1 DEF NextEvent
  <2>3. /\ Exists(Head(events).order) /\ "READY" \in reached[Head(events).order]
        /\ Head(events).order \in Order
    BY <2>1, <2>2 DEF ReadyWasTrue, ReadyEvent
  <2>4. /\ dispatches'[k] = [step |-> "search", order |-> Head(events).order,
                             found |-> {}, left |-> {}]
        /\ \A p \in Dispatch \ {k} : dispatches'[p] = dispatches[p]
    BY <1>3 DEF HandleOrderReady
  <2>5. dispatches'[k].step = "search" /\ dispatches'[k].order = Head(events).order
    BY <2>4
  <2>6. UNCHANGED <<orders, reached>>
    BY <1>3 DEF HandleOrderReady
  <2>7. DispatchJustified(k)'
    BY <2>3, <2>5, <2>6 DEF DispatchJustified, Exists
  <2>8. QED
    BY <2>4, <2>7, DispatchStaysJustified
<1>4. ASSUME Runs(k), dispatches'[k].order = x.order, dispatches'[k].step # "search",
             "SEARCHING_DRIVER" \in reached'[x.order],
             \A p \in Dispatch \ {k} : dispatches'[p] = dispatches[p]
      PROVE  \A p \in Dispatch : Runs(p)' => DispatchJustified(p)'
  <2>1. orders'[x.order].status # Absent
    BY <1>1, <1>4 DEF DispatchJustified, Grows, Exists
  <2>2. DispatchJustified(k)'
    BY <1>4, <2>1 DEF DispatchJustified, Exists
  <2>3. QED
    BY <1>4, <2>2, DispatchStaysJustified
<1>5. CASE MarkSearching(k)
  <2>1. Runs(k)
    BY <1>5 DEF MarkSearching, RunAt
  <2>2. "SEARCHING_DRIVER" \in reached'[x.order]
    BY <1>1, <1>5, <2>1 DEF MarkSearching, SetStatus, SetOrder
  <2>3. /\ dispatches'[k].order = x.order /\ dispatches'[k].step = "query"
        /\ \A p \in Dispatch \ {k} : dispatches'[p] = dispatches[p]
    BY <1>1, <1>5, <2>1 DEF MarkSearching, GoTo, Dispatching
  <2>4. QED
    BY <1>4, <2>1, <2>2, <2>3
<1>6. ASSUME Runs(k), x.step # "search", dispatches'[k].order = x.order,
             dispatches'[k].step # "search",
             \A p \in Dispatch \ {k} : dispatches'[p] = dispatches[p]
      PROVE  \A p \in Dispatch : Runs(p)' => DispatchJustified(p)'
  <2>1. "SEARCHING_DRIVER" \in reached'[x.order]
    BY <1>1, <1>6 DEF DispatchJustified, Grows
  <2>2. QED
    BY <1>4, <1>6, <2>1
<1>7. CASE FindDrivers(k) /\ ~EndRun(k)
  <2>1. Runs(k) /\ x.step # "search"
    BY <1>7 DEF FindDrivers, RunAt
  <2>2. PICK S : dispatches' = [dispatches EXCEPT ![k].step = "offer",
                                                  ![k].found = S, ![k].left = S]
    BY <1>7 DEF FindDrivers
  <2>3. /\ dispatches'[k].order = x.order /\ dispatches'[k].step = "offer"
        /\ \A p \in Dispatch \ {k} : dispatches'[p] = dispatches[p]
    BY <1>1, <2>1, <2>2 DEF Dispatching
  <2>4. QED
    BY <1>6, <2>1, <2>3
<1>8. CASE MarkOffered(k)
  <2>1. Runs(k) /\ x.step # "search"
    BY <1>8 DEF MarkOffered, RunAt
  <2>2. /\ dispatches'[k].order = x.order /\ dispatches'[k].step = "create"
        /\ \A p \in Dispatch \ {k} : dispatches'[p] = dispatches[p]
    BY <1>1, <1>8, <2>1 DEF MarkOffered, GoTo, Dispatching
  <2>3. QED
    BY <1>6, <2>1, <2>2
<1>9. ASSUME NEW d \in User, CreateOffer(k, d) \/ OfferFails(k, d)
      PROVE  \A p \in Dispatch : Runs(p)' => DispatchJustified(p)'
  <2>1. Runs(k) /\ x.step # "search"
    BY <1>9 DEF CreateOffer, OfferFails, RunAt
  <2>2. \/ dispatches' = [dispatches EXCEPT ![k].left = @ \ {d}]
        \/ dispatches' = [dispatches EXCEPT ![k].step = "drain", ![k].left = @ \ {d}]
    BY <1>9 DEF CreateOffer, OfferFails
  <2>3. /\ dispatches'[k].order = x.order /\ dispatches'[k].step \in {x.step, "drain"}
        /\ \A p \in Dispatch \ {k} : dispatches'[p] = dispatches[p]
    BY <1>1, <2>1, <2>2 DEF Dispatching
  <2>4. QED
    BY <1>6, <2>1, <2>3
<1>10. QED
  BY <1>2, <1>3, <1>5, <1>7, <1>8, <1>9
     DEF DispatchStep, DispatchFails, EmitOffered, Drained

--------------------------------------------------------------------------------
(***************************************************************************)
(* The truth of what is queued and of what the rooms are shown.            *)
(***************************************************************************)
TrueEvent(e) ==
    /\ e.kind = "order.status_changed" => e.status \in reached[e.order]
    /\ e.kind = "order.ready" => Exists(e.order) /\ "READY" \in reached[e.order]

TrueQueue == \A i \in DOMAIN events : TrueEvent(events[i])
TrueRooms == \A o \in Order : shown[o] \in reached[o] \cup {Absent}

\* The two are what the invariant says of events and rooms.
LEMMA TruthIsInvariant == TrueQueue /\ TrueRooms <=> ReadyWasTrue /\ AnnouncedWasTrue
BY DEF TrueQueue, TrueRooms, TrueEvent, ReadyWasTrue, AnnouncedWasTrue

\* What was true of an order stays true of it.
LEMMA TruthGrows ==
    ASSUME Grows, NEW e \in Event, TrueEvent(e)
    PROVE  TrueEvent(e)'
<1>1. e.order \in Order
  BY DEF Event, StatusEvent, ReadyEvent, OfferedEvent
<1>2. QED
  BY <1>1 DEF TrueEvent, Grows

\* A queue of true events stays one while nothing, or something true, joins it.
LEMMA QueueStaysTrue ==
    ASSUME Grows, events \in Seq(Event), TrueQueue, UNCHANGED events
    PROVE  TrueQueue'
<1>1. \A i \in DOMAIN events : events[i] \in Event
  OBVIOUS
<1>2. QED
  BY <1>1, TruthGrows DEF TrueQueue

\* Events that are true when they are emitted leave a queue of true events.
LEMMA EmitStaysTrue ==
    ASSUME Grows, events \in Seq(Event), TrueQueue, NEW es \in Seq(Event), Emit(es),
           \A i \in DOMAIN es : TrueEvent(es[i])
    PROVE  TrueQueue'
<1>1. events' = events \o es
  BY DEF Emit
<1>2. ASSUME NEW i \in DOMAIN events'
      PROVE  \E e \in Event : events'[i] = e /\ TrueEvent(e)'
  <2>1. \/ i \in DOMAIN events /\ events'[i] = events[i]
        \/ \E j \in DOMAIN es : events'[i] = es[j]
    <3>1. /\ i \in 1 .. Len(events) + Len(es)
          /\ i <= Len(events) => events'[i] = events[i]
          /\ i > Len(events) => events'[i] = es[i - Len(events)]
      BY <1>1, <1>2
    <3>2. /\ DOMAIN events = 1 .. Len(events) /\ DOMAIN es = 1 .. Len(es)
          /\ Len(events) \in Nat /\ Len(es) \in Nat
      OBVIOUS
    <3>3. CASE i <= Len(events)
      BY <3>1, <3>2, <3>3
    <3>4. CASE i > Len(events)
      <4>1. i - Len(events) \in DOMAIN es
        BY <3>1, <3>2, <3>4
      <4>2. QED
        BY <3>1, <3>4, <4>1
    <3>5. QED
      BY <3>1, <3>2, <3>3, <3>4
  <2>2. PICK e \in Event : events'[i] = e /\ TrueEvent(e)
    BY <2>1 DEF TrueQueue
  <2>3. QED
    BY <2>2, TruthGrows
<1>3. QED
  BY <1>2 DEF TrueQueue, TrueEvent, Exists

\* Delivering the oldest event leaves true events in the queue.
LEMMA DeliverStaysTrue ==
    ASSUME Grows, events \in Seq(Event), TrueQueue, events # << >>, Deliver
    PROVE  TrueQueue'
<1>1. ASSUME NEW i \in DOMAIN events'
      PROVE  \E e \in Event : events'[i] = e /\ TrueEvent(e)'
  <2>1. i + 1 \in DOMAIN events /\ events'[i] = events[i + 1]
    BY <1>1 DEF Deliver
  <2>2. PICK e \in Event : events'[i] = e /\ TrueEvent(e)
    BY <2>1 DEF TrueQueue
  <2>3. QED
    BY <2>2, TruthGrows
<1>2. QED
  BY <1>1 DEF TrueQueue, TrueEvent, Exists

\* A handler announces a status only after it has been written: each emit is
\* justified by the history.
LEMMA RequestStepTrue ==
    ASSUME TypeOK, WritesJustified, TrueQueue, Grows, NEW r \in Request,
           RequestStep(r) \/ RequestFails(r)
    PROVE  TrueQueue'
<1> USE DEF TypeOK, StoreTypeOK, RequestsTypeOK
<1> DEFINE q == requests[r]
<1>1. CASE ChangeStatusEmit(r) \/ AssignDriverEmit(r) \/ CompleteOrderEmit(r)
  <2>1. Busy(r) /\ q.step = "emit"
    BY <1>1 DEF ChangeStatusEmit, AssignDriverEmit, CompleteOrderEmit, At
  <2>2. /\ q.order \in Order /\ q.next \in Status
        /\ q.driver \in User \cup {NoDriver}
    BY <2>1 DEF Busy, InFlight
  <2>3. RequestJustified(r)
    BY <2>1 DEF WritesJustified
  <2>4. q.next \in reached[q.order] /\ Exists(q.order)
    BY <2>1, <2>3 DEF RequestJustified
  <2>5. ASSUME NEW d \in User \cup {NoDriver}
        PROVE  /\ StatusChanged(q.order, q.next, d) \in Event
               /\ TrueEvent(StatusChanged(q.order, q.next, d))
    BY <2>2, <2>4 DEF StatusChanged, Event, StatusEvent, TrueEvent
  <2>6. q.next = "READY" => Ready(q.order) \in Event /\ TrueEvent(Ready(q.order))
    BY <2>2, <2>4 DEF Ready, Event, ReadyEvent, TrueEvent
  <2>7. ASSUME NEW d \in User \cup {NoDriver}, Emit(<<StatusChanged(q.order, q.next, d)>>)
        PROVE  TrueQueue'
    <3>1. <<StatusChanged(q.order, q.next, d)>> \in Seq(Event)
      BY <2>5
    <3>2. \A i \in DOMAIN <<StatusChanged(q.order, q.next, d)>> :
            TrueEvent(<<StatusChanged(q.order, q.next, d)>>[i])
      BY <2>5
    <3>3. QED
      BY <2>7, <3>1, <3>2, EmitStaysTrue
  <2>8. CASE ChangeStatusEmit(r)
    <3>1. CASE q.next = "READY"
      <4> DEFINE es == <<Ready(q.order), StatusChanged(q.order, q.next, NoDriver)>>
      <4>1. es \in Seq(Event)
        BY <2>5, <2>6, <3>1
      <4>2. \A i \in DOMAIN es : TrueEvent(es[i])
        BY <2>5, <2>6, <3>1
      <4>3. Emit(es)
        BY <2>8, <3>1 DEF ChangeStatusEmit, ChangeStatusEvents, Emit
      <4>4. QED
        BY <4>1, <4>2, <4>3, EmitStaysTrue
    <3>2. CASE q.next # "READY"
      <4>1. Emit(<<StatusChanged(q.order, q.next, NoDriver)>>)
        BY <2>8, <3>2 DEF ChangeStatusEmit, ChangeStatusEvents, Emit
      <4>2. QED
        BY <2>7, <4>1
    <3>3. QED
      BY <3>1, <3>2
  <2>9. CASE AssignDriverEmit(r)
    <3>1. q.next = "ASSIGNED"
      BY <2>3, <2>9 DEF AssignDriverEmit, At, RequestJustified, WritesOf
    <3>2. QED
      BY <2>2, <2>7, <2>9, <3>1 DEF AssignDriverEmit
  <2>10. CASE CompleteOrderEmit(r)
    <3>1. q.next = "DELIVERED"
      BY <2>3, <2>10 DEF CompleteOrderEmit, At, RequestJustified, WritesOf
    <3>2. QED
      BY <2>7, <2>10, <3>1 DEF CompleteOrderEmit
  <2>11. QED
    BY <1>1, <2>8, <2>9, <2>10
<1>2. CASE UNCHANGED events
  BY <1>2, QueueStaysTrue
<1>3. QED
  BY <1>1, <1>2 DEF RequestStep, RequestFails, ChangeStatusUpdate, AssignDriverUpdate,
     CompleteOrderUpdate, AcceptOrderUpdate, ForeignKeyRefuses, storeVars

\* The dispatch takes events off the queue and adds offers to it.
LEMMA DispatchStepTrue ==
    ASSUME TypeOK, TrueQueue, Grows, NEW k \in Dispatch,
           \/ HandleOrderReady(k) \/ DispatchStep(k) \/ DispatchFails(k)
           \/ \E d \in User : OfferFails(k, d)
    PROVE  TrueQueue'
<1> USE DEF TypeOK, StoreTypeOK, DispatchesTypeOK
<1>1. CASE HandleOrderReady(k)
  BY <1>1, DeliverStaysTrue DEF HandleOrderReady, NextEvent
<1>2. CASE EmitOffered(k)
  <2> DEFINE e == Offered(dispatches[k].order, dispatches[k].found)
  <2>1. dispatches[k] \in Dispatching
    BY <1>2 DEF EmitOffered, RunAt, Runs
  <2>2. e \in Event /\ TrueEvent(e)
    BY <2>1 DEF Offered, Event, OfferedEvent, Dispatching, TrueEvent
  <2>3. <<e>> \in Seq(Event) /\ \A i \in DOMAIN <<e>> : TrueEvent(<<e>>[i])
    BY <2>2
  <2>4. QED
    BY <1>2, <2>3, EmitStaysTrue DEF EmitOffered
<1>3. CASE UNCHANGED events
  BY <1>3, QueueStaysTrue
<1>4. QED
  BY <1>1, <1>2, <1>3 DEF DispatchStep, DispatchFails, OfferFails, MarkSearching,
     FindDrivers, MarkOffered, CreateOffer, Drained, storeVars

\* A room is shown the oldest event, which is true.
LEMMA GatewayStepTrue ==
    ASSUME TypeOK, TrueQueue, TrueRooms, Grows,
           GatewayStep \/ \E o \in Order : TellingFails(o)
    PROVE  TrueQueue' /\ TrueRooms'
<1> USE DEF TypeOK, StoreTypeOK, GatewayTypeOK
<1>1. CASE HandleOrderStatusChanged
  <2>1. Head(events) \in StatusEvent /\ events # << >>
    BY <1>1, HeadType DEF HandleOrderStatusChanged, NextEvent
  <2>2. 1 \in DOMAIN events /\ Head(events) = events[1]
    BY <2>1
  <2>3. Head(events).status \in reached[Head(events).order]
    BY <2>1, <2>2 DEF TrueQueue, TrueEvent, StatusEvent
  <2>4. TrueQueue'
    BY <1>1, <2>1, DeliverStaysTrue DEF HandleOrderStatusChanged
  <2>5. TrueRooms'
    BY <1>1, <2>3 DEF HandleOrderStatusChanged, TrueRooms
  <2>6. QED
    BY <2>4, <2>5
<1>2. CASE HandleOrderOffered
  <2>1. TrueQueue'
    BY <1>2, DeliverStaysTrue DEF HandleOrderOffered, NextEvent
  <2>2. QED
    BY <1>2, <2>1 DEF HandleOrderOffered, TrueRooms
<1>3. CASE UNCHANGED <<events, reached, shown>>
  BY <1>3, QueueStaysTrue DEF TrueRooms
<1>4. QED
  BY <1>1, <1>2, <1>3 DEF GatewayStep, TellDriver, TellingFails, storeVars

--------------------------------------------------------------------------------
\* The initial state is good.
LEMMA InitIInv == Init => IInv
<1> SUFFICES ASSUME Init PROVE IInv
  OBVIOUS
<1>1. \A o \in Order : /\ orders[o].status = Absent /\ orders[o].driver = NoDriver
                       /\ reached[o] = {} /\ shown[o] = Absent
  BY DEF Init, StoreInit, GatewayInit
<1>2. events = << >>
  BY DEF Init, StoreInit
<1>3. HistoryKept /\ MilestonesInOrder
  BY <1>1 DEF HistoryKept, MilestonesInOrder, Exists
<1>4. WritesJustified
  BY DEF Init, RequestsInit, DispatchesInit, WritesJustified, Busy, Runs
<1>5. ReadyWasTrue /\ AnnouncedWasTrue
  BY <1>1, <1>2 DEF ReadyWasTrue, AnnouncedWasTrue
<1>6. QED
  BY <1>3, <1>4, <1>5, InitType DEF IInv

\* Every step keeps the invariant.
LEMMA NextIInv == IInv /\ [Next]_vars => IInv'
<1> SUFFICES ASSUME IInv, [Next]_vars PROVE IInv'
  OBVIOUS
<1>1. TypeOK /\ HistoryKept /\ MilestonesInOrder /\ WritesJustified /\ ReadyWasTrue
  BY DEF IInv
<1>2. TrueQueue /\ TrueRooms
  BY TruthIsInvariant DEF IInv
<1>3. TypeOK'
  BY <1>1, NextType
<1>4. StepKind
  BY <1>1, StepKinds
<1>5. Grows
  BY <1>1, <1>4, StepGrows
<1>6. HistoryKept' /\ MilestonesInOrder'
  BY <1>1, <1>4, StepKeepsHistory
<1>7. ASSUME UNCHANGED requests
      PROVE  \A r \in Request : Busy(r)' => RequestJustified(r)'
  BY <1>1, <1>5, <1>7, RequestStaysJustified
<1>8. ASSUME UNCHANGED dispatches
      PROVE  \A k \in Dispatch : Runs(k)' => DispatchJustified(k)'
  BY <1>1, <1>5, <1>8, DispatchStaysJustified
<1>9. ASSUME UNCHANGED shown
      PROVE  TrueRooms'
  BY <1>2, <1>5, <1>9 DEF TrueRooms, Grows
<1>10. events \in Seq(Event)
  BY <1>1 DEF TypeOK, StoreTypeOK
<1>11. CASE RequestArrives /\ UNCHANGED <<drivers, dispatches, gatewayVars>>
  <2>1. \A r \in Request : Busy(r)' => RequestJustified(r)'
    BY <1>1, <1>5, <1>11, ArrivalJustified
  <2>2. UNCHANGED events
    BY <1>11 DEF RequestArrives, CreateOrder, ChangeStatusRead, AssignDriverRead,
       CompleteOrderRead, AcceptOrderRead, storeVars
  <2>3. TrueQueue' /\ TrueRooms'
    BY <1>2, <1>5, <1>9, <1>10, <1>11, <2>2, QueueStaysTrue DEF gatewayVars
  <2>4. WritesJustified'
    BY <1>8, <1>11, <2>1 DEF WritesJustified
  <2>5. QED
    BY <1>3, <1>6, <2>3, <2>4, TruthIsInvariant, PTL DEF IInv
<1>12. CASE /\ \E r \in Request : RequestStep(r) \/ RequestFails(r)
            /\ UNCHANGED <<drivers, dispatches, gatewayVars>>
  <2>1. \A r \in Request : Busy(r)' => RequestJustified(r)'
    BY <1>1, <1>5, <1>12, RequestStepJustified
  <2>2. TrueQueue' /\ TrueRooms'
    BY <1>1, <1>2, <1>5, <1>9, <1>12, RequestStepTrue DEF gatewayVars
  <2>3. WritesJustified'
    BY <1>8, <1>12, <2>1 DEF WritesJustified
  <2>4. QED
    BY <1>3, <1>6, <2>2, <2>3, TruthIsInvariant, PTL DEF IInv
<1>13. CASE /\ \E k \in Dispatch :
                 \/ HandleOrderReady(k) \/ DispatchStep(k) \/ DispatchFails(k)
                 \/ \E d \in User : OfferFails(k, d)
            /\ UNCHANGED <<requests, gatewayVars>>
  <2>1. \A k \in Dispatch : Runs(k)' => DispatchJustified(k)'
    BY <1>1, <1>5, <1>13, DispatchStepJustified
  <2>2. TrueQueue' /\ TrueRooms'
    BY <1>1, <1>2, <1>5, <1>9, <1>13, DispatchStepTrue DEF gatewayVars
  <2>3. WritesJustified'
    BY <1>7, <1>13, <2>1 DEF WritesJustified
  <2>4. QED
    BY <1>3, <1>6, <2>2, <2>3, TruthIsInvariant, PTL DEF IInv
<1>14. CASE /\ GatewayStep \/ \E o \in Order : TellingFails(o)
            /\ UNCHANGED <<requests, drivers, dispatches>>
  <2>1. TrueQueue' /\ TrueRooms'
    BY <1>1, <1>2, <1>5, <1>14, GatewayStepTrue
  <2>2. WritesJustified'
    BY <1>7, <1>8, <1>14 DEF WritesJustified
  <2>3. QED
    BY <1>3, <1>6, <2>1, <2>2, TruthIsInvariant, PTL DEF IInv
<1>15. CASE UNCHANGED <<events, requests, dispatches, shown>>
  <2>1. TrueQueue' /\ TrueRooms'
    BY <1>2, <1>5, <1>9, <1>10, <1>15, QueueStaysTrue
  <2>2. WritesJustified'
    BY <1>7, <1>8, <1>15 DEF WritesJustified
  <2>3. QED
    BY <1>3, <1>6, <2>1, <2>2, TruthIsInvariant, PTL DEF IInv
<1>16. CASE Crash
  <2>1. WritesJustified'
    BY <1>16 DEF Crash, WritesJustified, Busy, Runs
  <2>2. TrueQueue' /\ TrueRooms'
    BY <1>9, <1>16 DEF Crash, TrueQueue
  <2>3. QED
    BY <1>3, <1>6, <2>1, <2>2, TruthIsInvariant, PTL DEF IInv
<1>17. QED
  BY <1>11, <1>12, <1>13, <1>14, <1>15, <1>16
     DEF Next, DirectoryStep, ChangeOnline, UpdateLocation, vars, storeVars, gatewayVars

(***************************************************************************)
(* The inductive invariant: at every moment, every order has a history,    *)
(* what any handler in flight is about to write follows from it, and what  *)
(* is queued or shown is part of it.                                       *)
(***************************************************************************)
THEOREM InvariantHolds == Spec => []IInv
BY InitIInv, NextIInv, PTL DEF Spec

(***************************************************************************)
(* No interleaving of handlers that write by id what they decided on an    *)
(* older read makes an order skip a milestone of its life.                 *)
(***************************************************************************)
THEOREM MilestonesKept == Spec => []MilestonesInOrder
<1>1. IInv => MilestonesInOrder
  BY DEF IInv
<1>2. QED
  BY <1>1, InvariantHolds, PTL

(***************************************************************************)
(* No room is ever shown, and no queued event ever names, a status that    *)
(* the order has not had: not after a failed update, nor after a crash.    *)
(***************************************************************************)
THEOREM AnnouncementsTrue == Spec => []AnnouncedWasTrue
<1>1. IInv => AnnouncedWasTrue
  BY DEF IInv
<1>2. QED
  BY <1>1, InvariantHolds, PTL

--------------------------------------------------------------------------------
\* The promise speaks of the same statuses and the same transitions.
LEMMA SameTables == Promise!Status = Status /\ Promise!Flow = Flow /\ Promise!Absent = Absent
BY DEF Promise!Status, Status, Promise!Flow, Flow, Promise!validTransitions,
   validTransitions, Promise!Assignable, Assignable, Promise!Absent, Absent

\* A creation is the promise's.
LEMMA CreationIsPromised ==
    ASSUME TypeOK, HistoryKept, NEW u \in User, NEW o \in Order, CreateOrder(u, o)
    PROVE  Promise!Create(o)
<1> USE DEF TypeOK, StoreTypeOK
<1>1. PICK t \in OrderTenants(u) :
        orders' = [orders EXCEPT ![o] =
                     [status |-> "CREATED", driver |-> NoDriver, tenant |-> t]]
  BY DEF CreateOrder
<1>2. t \in Tenant
  BY StoreAssumption DEF OrderTenants
<1>3. orders[o].status = Absent /\ orders[o].driver = NoDriver
  BY DEF CreateOrder, Exists, HistoryKept
<1>4. /\ orders'[o].status = "CREATED" /\ orders'[o].driver = NoDriver
      /\ orders'[o].tenant = t
      /\ \A p \in Order \ {o} : orders'[p] = orders[p]
  BY <1>1
<1>5. [p \in Order |-> orders'[p].status]
        = [[p \in Order |-> orders[p].status] EXCEPT ![o] = "CREATED"]
  BY <1>4
<1>6. [p \in Order |-> orders'[p].tenant]
        = [[p \in Order |-> orders[p].tenant] EXCEPT ![o] = t]
  BY <1>4
<1>7. [p \in Order |-> orders'[p].driver] = [p \in Order |-> orders[p].driver]
  BY <1>3, <1>4
<1>8. reached' = [reached EXCEPT ![o] = {"CREATED"}]
  BY DEF CreateOrder
<1>9. QED
  BY <1>2, <1>3, <1>5, <1>6, <1>7, <1>8, SameTables DEF Promise!Create

\* A justified write is a step of the promise: it advances the order, or
\* assigns it to a driver profile of its tenant.
LEMMA WriteIsPromised ==
    ASSUME TypeOK, JustifiedWrite
    PROVE  Promise!Next
<1> USE DEF TypeOK, StoreTypeOK
<1>1. PICK o \in Order, n \in Status, d \in User \cup {NoDriver} :
        /\ Exists(o)
        /\ \E s \in reached[o] : <<s, n>> \in Flow
        /\ \/ d = orders[o].driver
           \/ n = "ASSIGNED" /\ d \in HasProfile /\ home[d] = orders[o].tenant
        /\ SetOrder(o, n, d)
  BY DEF JustifiedWrite
<1>2. /\ orders'[o].status = n /\ orders'[o].driver = d
      /\ orders'[o].tenant = orders[o].tenant
      /\ \A p \in Order \ {o} : orders'[p] = orders[p]
  BY <1>1, SetOrderHistory
<1>3. reached' = [reached EXCEPT ![o] = @ \cup {n}]
  BY <1>1 DEF SetOrder
<1>4. [p \in Order |-> orders'[p].status]
        = [[p \in Order |-> orders[p].status] EXCEPT ![o] = n]
  BY <1>2
<1>5. [p \in Order |-> orders'[p].tenant] = [p \in Order |-> orders[p].tenant]
  BY <1>2
<1>6. [p \in Order |-> orders'[p].driver]
        = [[p \in Order |-> orders[p].driver] EXCEPT ![o] = d]
  BY <1>2
<1>7. Promise!Follows(o, n)
  BY <1>1, SameTables DEF Promise!Follows
<1>8. CASE d = orders[o].driver
  <2>1. [p \in Order |-> orders'[p].driver] = [p \in Order |-> orders[p].driver]
    BY <1>2, <1>8
  <2>2. Promise!Advance(o, n)
    BY <1>3, <1>4, <1>5, <1>7, <2>1 DEF Promise!Advance
  <2>3. QED
    BY <2>2, SameTables DEF Promise!Next
<1>9. CASE n = "ASSIGNED" /\ d \in HasProfile /\ home[d] = orders[o].tenant
  <2>1. Promise!Assign(o, d)
    BY <1>3, <1>4, <1>5, <1>6, <1>7, <1>9 DEF Promise!Assign
  <2>2. d \in User
    BY <1>9, StoreAssumption
  <2>3. QED
    BY <2>1, <2>2 DEF Promise!Next
<1>10. QED
  BY <1>1, <1>8, <1>9

\* Every step of the flow is a step of the promise, or leaves it alone.
LEMMA StepIsPromised ==
    IInv /\ [Next]_vars => [Promise!Next]_(Promise!promiseVars)
<1> SUFFICES ASSUME IInv, [Next]_vars PROVE [Promise!Next]_(Promise!promiseVars)
  OBVIOUS
<1>1. TypeOK /\ HistoryKept /\ WritesJustified
  BY DEF IInv
<1>2. CASE \E u \in User, o \in Order : CreateOrder(u, o)
  BY <1>1, <1>2, CreationIsPromised DEF Promise!Next
<1>3. CASE JustifiedWrite
  BY <1>1, <1>3, WriteIsPromised
<1>4. CASE UNCHANGED <<orders, reached>>
  BY <1>4 DEF Promise!promiseVars
<1>5. QED
  BY <1>1, <1>2, <1>3, <1>4, StepKinds DEF StepKind

\* The promise starts as the flow does.
LEMMA InitIsPromised == Init => Promise!Init
<1> SUFFICES ASSUME Init PROVE Promise!Init
  OBVIOUS
<1>1. /\ \A o \in Order : /\ orders[o].status = Absent /\ orders[o].driver = NoDriver
                          /\ orders[o].tenant = NoTenant
      /\ reached = [o \in Order |-> {}]
  BY DEF Init, StoreInit
<1>2. QED
  BY <1>1, SameTables DEF Promise!Init

(***************************************************************************)
(* The delivery flow implements the promise: however the handlers, the     *)
(* listener, failures and crashes interleave, every change of an order is  *)
(* one the promise allows.                                                 *)
(***************************************************************************)
THEOREM PromiseKept == Spec => KeepsPromise
BY InitIsPromised, StepIsPromised, InvariantHolds, PTL DEF Spec, KeepsPromise, Promise!Spec


--------------------------------------------------------------------------------
(***************************************************************************)
(* What the promise alone is good for: no step of the code is looked at    *)
(* from here on.                                                           *)
(***************************************************************************)

\* An order's history under the promise, and whom it may name.
Promised(o) ==
    /\ orders[o].status = Absent => reached[o] = {} /\ orders[o].driver = NoDriver
    /\ reached[o] # {} => "CREATED" \in reached[o] /\ orders[o].status # Absent
    /\ \A m \in reached[o] : Needs[m] \in reached[o]
    /\ reached[o] \cap {"PENDING", "CONFIRMED"} = {}
    /\ orders[o].driver # NoDriver => "ASSIGNED" \in reached[o]

PromisedHistory == reached \in [Order -> SUBSET Status] /\ \A o \in Order : Promised(o)

\* What a step of the promise does to the columns.
LEMMA PromiseColumns ==
    ASSUME NEW o \in Order, NEW n, NEW R, reached \in [Order -> SUBSET Status],
           [p \in Order |-> orders'[p].status]
             = [[p \in Order |-> orders[p].status] EXCEPT ![o] = n],
           reached' = [reached EXCEPT ![o] = R],
           \A p \in Order \ {o} : orders'[p].driver = orders[p].driver
    PROVE  /\ orders'[o].status = n /\ reached'[o] = R
           /\ \A p \in Order \ {o} : Promised(p) => Promised(p)'
<1>1. \A p \in Order : orders'[p].status = IF p = o THEN n ELSE orders[p].status
  OBVIOUS
<1>2. \A p \in Order : reached'[p] = IF p = o THEN R ELSE reached[p]
  OBVIOUS
<1>3. QED
  BY <1>1, <1>2 DEF Promised

\* A status that follows joins the history, and nobody is named before ASSIGNED.
LEMMA FollowingIsPromised ==
    ASSUME PromisedHistory, NEW o \in Order, NEW n \in Status, Promise!Follows(o, n),
           [p \in Order |-> orders'[p].status]
             = [[p \in Order |-> orders[p].status] EXCEPT ![o] = n],
           reached' = [reached EXCEPT ![o] = @ \cup {n}],
           \A p \in Order \ {o} : orders'[p].driver = orders[p].driver,
           orders'[o].driver = orders[o].driver \/ n = "ASSIGNED"
    PROVE  PromisedHistory'
<1>1. reached \in [Order -> SUBSET Status] /\ Promised(o)
  BY DEF PromisedHistory
<1>2. reached' = [reached EXCEPT ![o] = reached[o] \cup {n}]
  BY <1>1
<1>3. /\ orders'[o].status = n /\ reached'[o] = reached[o] \cup {n}
      /\ \A p \in Order \ {o} : Promised(p) => Promised(p)'
  BY <1>1, <1>2, PromiseColumns
<1>4. PICK s \in reached[o] : <<s, n>> \in Flow
  BY SameTables DEF Promise!Follows
<1>5. "CREATED" \in reached[o]
  BY <1>1, <1>4 DEF Promised
<1>6. /\ \A m \in reached[o] \cup {n} : Needs[m] \in reached[o] \cup {n}
      /\ (reached[o] \cup {n}) \cap {"PENDING", "CONFIRMED"} = {}
  BY <1>1, <1>4, <1>5, FollowingKeepsMilestones DEF Promised
<1>7. Promised(o)'
  BY <1>1, <1>3, <1>5, <1>6, StatusExists DEF Promised
<1>8. reached' \in [Order -> SUBSET Status]
  BY <1>1, <1>2
<1>9. QED
  BY <1>3, <1>7, <1>8 DEF PromisedHistory

\* Every step of the promise keeps the histories.
LEMMA PromiseKeepsHistory ==
    PromisedHistory /\ [Promise!Next]_(Promise!promiseVars) => PromisedHistory'
<1> SUFFICES ASSUME PromisedHistory, [Promise!Next]_(Promise!promiseVars)
             PROVE  PromisedHistory'
  OBVIOUS
<1>1. ASSUME NEW o \in Order, Promise!Create(o)
      PROVE  PromisedHistory'
  <2>1. /\ [p \in Order |-> orders[p].status][o] = Absent
        /\ [p \in Order |-> orders'[p].status]
             = [[p \in Order |-> orders[p].status] EXCEPT ![o] = "CREATED"]
        /\ reached' = [reached EXCEPT ![o] = {"CREATED"}]
        /\ [p \in Order |-> orders'[p].driver] = [p \in Order |-> orders[p].driver]
    BY <1>1, SameTables DEF Promise!Create
  <2>2. \A p \in Order : orders'[p].driver = orders[p].driver
    BY <2>1
  <2>3. /\ orders'[o].status = "CREATED" /\ reached'[o] = {"CREATED"}
        /\ \A p \in Order \ {o} : Promised(p) => Promised(p)'
    BY <2>1, <2>2, PromiseColumns DEF PromisedHistory
  <2>4. orders'[o].driver = NoDriver
    BY <2>1, <2>2 DEF PromisedHistory, Promised
  <2>5. "CREATED" \in Status /\ Needs["CREATED"] = "CREATED"
    BY DEF Needs, Status
  <2>6. Promised(o)'
    BY <2>3, <2>4, <2>5, StatusExists DEF Promised
  <2>7. QED
    BY <2>1, <2>3, <2>5, <2>6 DEF PromisedHistory
<1>2. ASSUME NEW o \in Order, NEW n \in Promise!Status, Promise!Advance(o, n)
      PROVE  PromisedHistory'
  <2>1. /\ Promise!Follows(o, n)
        /\ [p \in Order |-> orders'[p].status]
             = [[p \in Order |-> orders[p].status] EXCEPT ![o] = n]
        /\ reached' = [reached EXCEPT ![o] = @ \cup {n}]
        /\ [p \in Order |-> orders'[p].driver] = [p \in Order |-> orders[p].driver]
    BY <1>2 DEF Promise!Advance
  <2>2. \A p \in Order : orders'[p].driver = orders[p].driver
    BY <2>1
  <2>3. n \in Status
    BY SameTables
  <2>4. QED
    BY <2>1, <2>2, <2>3, FollowingIsPromised
<1>3. ASSUME NEW o \in Order, NEW d \in User, Promise!Assign(o, d)
      PROVE  PromisedHistory'
  <2>1. /\ Promise!Follows(o, "ASSIGNED")
        /\ [p \in Order |-> orders'[p].status]
             = [[p \in Order |-> orders[p].status] EXCEPT ![o] = "ASSIGNED"]
        /\ reached' = [reached EXCEPT ![o] = @ \cup {"ASSIGNED"}]
        /\ [p \in Order |-> orders'[p].driver]
             = [[p \in Order |-> orders[p].driver] EXCEPT ![o] = d]
    BY <1>3 DEF Promise!Assign
  <2>2. \A p \in Order \ {o} : orders'[p].driver = orders[p].driver
    BY <2>1
  <2>3. "ASSIGNED" \in Status
    BY DEF Status
  <2>4. QED
    BY <2>1, <2>2, <2>3, FollowingIsPromised
<1>4. CASE UNCHANGED Promise!promiseVars
  <2>1. /\ \A p \in Order : /\ orders'[p].status = orders[p].status
                            /\ orders'[p].driver = orders[p].driver
        /\ reached' = reached
    <3>1. /\ [p \in Order |-> orders'[p].status] = [p \in Order |-> orders[p].status]
          /\ [p \in Order |-> orders'[p].driver] = [p \in Order |-> orders[p].driver]
          /\ reached' = reached
      BY <1>4 DEF Promise!promiseVars
    <3>2. QED
      BY <3>1
  <2>2. QED
    BY <2>1 DEF PromisedHistory, Promised
<1>5. QED
  BY <1>1, <1>2, <1>3, <1>4 DEF Promise!Next

(***************************************************************************)
(* The promise, weak as it is, is enough for the milestones: whatever      *)
(* writes orders in steps of OrderPromise, this code or another, makes no  *)
(* order skip one.                                                         *)
(***************************************************************************)
THEOREM PromiseGivesMilestones == KeepsPromise => []MilestonesInOrder
<1>1. Promise!Init => PromisedHistory
  <2> SUFFICES ASSUME Promise!Init PROVE PromisedHistory
    OBVIOUS
  <2>1. /\ [p \in Order |-> orders[p].status] = [p \in Order |-> Absent]
        /\ [p \in Order |-> orders[p].driver] = [p \in Order |-> NoDriver]
        /\ reached = [p \in Order |-> {}]
    BY SameTables DEF Promise!Init
  <2>2. \A p \in Order : orders[p].status = Absent /\ orders[p].driver = NoDriver
    BY <2>1
  <2>3. QED
    BY <2>1, <2>2 DEF PromisedHistory, Promised
<1>2. PromisedHistory => MilestonesInOrder
  BY DEF PromisedHistory, Promised, MilestonesInOrder
<1>3. QED
  BY <1>1, <1>2, PromiseKeepsHistory, PTL DEF KeepsPromise, Promise!Spec
================================================================================
