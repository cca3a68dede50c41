--------------------------- MODULE DeliveryProperties ---------------------------
(***************************************************************************)
(* What the delivery flow should guarantee, stated over module Delivery.   *)
(***************************************************************************)
EXTENDS Delivery

\* Every variable has its type.
TypeOK ==
    /\ StoreTypeOK
    /\ RequestsTypeOK
    /\ DriversTypeOK
    /\ DispatchesTypeOK
    /\ GatewayTypeOK

--------------------------------------------------------------------------------
(***************************************************************************)
(* Whatever the interleaving of handlers that write by id what they        *)
(* decided on an older read, an order never has a status without having    *)
(* passed the milestone before it: it is not searched for, offered or      *)
(* assigned without having been READY, not READY without PREPARING, not    *)
(* picked up or delivered without ASSIGNED; a driver is named only on an   *)
(* order that has been ASSIGNED; PENDING and CONFIRMED are never used.     *)
(***************************************************************************)
MilestonesInOrder ==
    \A o \in Order :
      /\ \A n \in reached[o] : Needs[n] \in reached[o]
      /\ reached[o] \cap {"PENDING", "CONFIRMED"} = {}
      /\ orders[o].driver # NoDriver => "ASSIGNED" \in reached[o]

(***************************************************************************)
(* No tenant's order is assigned, offered or announced to a driver of      *)
(* another tenant, though updates and offers are written by id alone and   *)
(* only the earlier queries ask for the tenant.                            *)
(***************************************************************************)
TenantIsolation ==
    \A o \in Order, d \in User :
      orders[o].driver = d \/ offers[o][d] > 0 \/ toTell[o][d] > 0
        => home[d] = orders[o].tenant

(***************************************************************************)
(* While nothing fails, an order in READY has somebody about to look for a *)
(* driver: the request that made it READY has yet to emit, the event is    *)
(* queued, or a run of handleOrderReady has yet to write SEARCHING_DRIVER. *)
(* (Nobody looks at READY orders again, so a lost event leaves it there.)  *)
(***************************************************************************)
ReadyNeverForgotten ==
    faults = 0 =>
      \A o \in Order :
        orders[o].status = "READY" =>
          \/ \E r \in RequestsOf(o) :
               requests[r].step = "emit" /\ requests[r].next = "READY"
          \/ \E i \in DOMAIN events : events[i] = Ready(o)
          \/ \E k \in DispatchesOf(o) : dispatches[k].step = "search"

(***************************************************************************)
(* A driver gets at most one offer of an order each time the order was     *)
(* made READY: two requests that both make it READY give two offers, but   *)
(* nothing is dispatched twice for one event, before or after a failure.   *)
(***************************************************************************)
OffersPerRound == \A o \in Order, d \in User : offers[o][d] <= readied[o]

(***************************************************************************)
(* Every offer that was made, or that can still come of what is in flight, *)
(* answers one write of READY of its own: those of requests that have yet  *)
(* to emit, of events queued and of runs that may still create the offer   *)
(* never add up to more.                                                   *)
(***************************************************************************)
Announcing(o) ==
    {r \in RequestsOf(o) : requests[r].step = "emit" /\ requests[r].next = "READY"}
Queued(o) == {i \in DOMAIN events : events[i] = Ready(o)}
MayOffer(o, d) ==
    {k \in DispatchesOf(o) :
       dispatches[k].step \in {"search", "query"} \/ d \in dispatches[k].left}

RoundsAddUp ==
    \A o \in Order, d \in User :
      offers[o][d] + Cardinality(MayOffer(o, d)) + Cardinality(Queued(o))
        + Cardinality(Announcing(o)) <= readied[o]

(***************************************************************************)
(* An event still queued or the status a room was last shown names a       *)
(* status that the order has really had: an update that failed, or one not *)
(* written yet, is never announced.                                        *)
(***************************************************************************)
AnnouncedWasTrue ==
    /\ \A i \in DOMAIN events :
         events[i].kind = "order.status_changed" =>
           events[i].status \in reached[events[i].order]
    /\ \A o \in Order : shown[o] \in reached[o] \cup {Absent}

(***************************************************************************)
(* A driver who is told of an order, or about to be, has an offer of it in *)
(* the database: 'order.offered' leaves only when every create is done.    *)
(***************************************************************************)
OfferedMeansRecorded ==
    /\ \A i \in DOMAIN events :
         events[i].kind = "order.offered" =>
           \A d \in events[i].drivers : offers[events[i].order][d] > 0
    /\ \A o \in Order, d \in User :
         toTell[o][d] > 0 \/ d \in told[o] => offers[o][d] > 0

(***************************************************************************)
(* While nothing fails, no offer is forgotten: its driver has been told,   *)
(* or the run that creates the offers has yet to emit, or the event that   *)
(* names the driver is queued, or the gateway's loop has yet to come to    *)
(* the driver.  (Nobody looks at offers again, so whatever is lost on that *)
(* way is never told.)                                                     *)
(***************************************************************************)
AboutToTell(o, d) ==
    \/ \E k \in DispatchesOf(o) :
         dispatches[k].step = "create" /\ d \in dispatches[k].found
    \/ \E i \in DOMAIN events :
         /\ events[i].kind = "order.offered"
         /\ events[i].order = o /\ d \in events[i].drivers
    \/ toTell[o][d] > 0

OffersNeverForgotten ==
    faults = 0 =>
      \A o \in Order, d \in User :
        offers[o][d] > 0 => d \in told[o] \/ AboutToTell(o, d)

--------------------------------------------------------------------------------
(***************************************************************************)
(* Staleness is the only fault of a handler's decision: what it is about   *)
(* to write, it may write over a status that the order has really had, the *)
(* driver it is about to name belongs to the order's tenant, and what it   *)
(* is about to announce has been written.                                  *)
(***************************************************************************)
WritesOf(op) ==
    CASE op = "changeStatus" -> Status
      [] op = "completeOrder" -> {"DELIVERED"}
      [] OTHER -> {"ASSIGNED"}

RequestJustified(r) ==
    LET o == requests[r].order IN
      /\ Exists(o)
      /\ requests[r].next \in WritesOf(requests[r].op)
      /\ \E s \in reached[o] : <<s, requests[r].next>> \in Flow
      /\ requests[r].step = "emit" => requests[r].next \in reached[o]
      /\ requests[r].op \in {"assignDriver", "acceptOrder"} =>
           requests[r].driver \in User /\ home[requests[r].driver] = orders[o].tenant

DispatchJustified(k) ==
    LET o == dispatches[k].order IN
      /\ Exists(o)
      /\ IF dispatches[k].step = "search" THEN "READY" \in reached[o]
         ELSE "SEARCHING_DRIVER" \in reached[o]

WritesJustified ==
    /\ \A r \in Request : Busy(r) => RequestJustified(r)
    /\ \A k \in Dispatch : Runs(k) => DispatchJustified(k)

\* The history of an order: empty before it is created, and then it holds
\* CREATED and the current status.
HistoryKept ==
    \A o \in Order :
      IF Exists(o) THEN {"CREATED", orders[o].status} \subseteq reached[o]
      ELSE reached[o] = {} /\ orders[o].driver = NoDriver

\* The listener is only ever called for an order that has been READY.
ReadyWasTrue ==
    \A i \in DOMAIN events :
      events[i].kind = "order.ready" =>
        Exists(events[i].order) /\ "READY" \in reached[events[i].order]

(***************************************************************************)
(* The inductive invariant behind MilestonesInOrder, AnnouncedWasTrue and  *)
(* KeepsPromise.                                                           *)
(***************************************************************************)
IInv ==
    /\ TypeOK
    /\ HistoryKept
    /\ MilestonesInOrder
    /\ WritesJustified
    /\ ReadyWasTrue
    /\ AnnouncedWasTrue

--------------------------------------------------------------------------------
\* Nothing in flight can still write the order.
Quiet(o) ==
    /\ RequestsOf(o) = {}
    /\ DispatchesOf(o) = {}
    /\ \A i \in DOMAIN events : events[i] # Ready(o)

Settled(o) == Quiet(o) /\ orders[o].status \in Final

(***************************************************************************)
(* Once an order is delivered, cancelled or failed and nothing that read   *)
(* it earlier is in flight, no request, event or crash changes its row or  *)
(* starts anything that could.                                             *)
(***************************************************************************)
SettledIsFinal ==
    [][\A o \in Order : Settled(o) => Settled(o)' /\ orders'[o] = orders[o]]_vars

\* Every step of the delivery flow is a step of the promise, or leaves it alone.
Promise == INSTANCE OrderPromise WITH
    status <- [o \in Order |-> orders[o].status],
    tenant <- [o \in Order |-> orders[o].tenant],
    courier <- [o \in Order |-> orders[o].driver]
KeepsPromise == Promise!Spec

--------------------------------------------------------------------------------
(***************************************************************************)
(* Without failures, an order made READY does not stay READY: it is        *)
(* dispatched, cancelled or assigned.                                      *)
(***************************************************************************)
ReadyIsDispatched ==
    \A o \in Order : orders[o].status = "READY" ~> orders[o].status # "READY"

(***************************************************************************)
(* Without failures, a driver with an offer in the database is told of it. *)
(***************************************************************************)
OfferIsTold ==
    \A o \in Order, d \in User : offers[o][d] > 0 ~> d \in told[o]

(***************************************************************************)
(* Without failures, what changeStatus, assignDriver or completeOrder      *)
(* wrote is shown to the order's room after it is written, also when       *)
(* another request wrote the order in between: no change is lost, though   *)
(* two may be shown in the other order.                                    *)
(***************************************************************************)
ChangesAreShown ==
    \A r \in Request, o \in Order, n \in Asked \cup {"ASSIGNED", "DELIVERED"} :
      Busy(r) /\ requests[r].step = "emit" /\ requests[r].order = o /\ requests[r].next = n
        ~> shown[o] = n

(***************************************************************************)
(* Without failures, if from some moment on a driver near the restaurant   *)
(* stays online, an order that is READY then is offered to drivers, unless *)
(* somebody assigns or cancels it.                                         *)
(***************************************************************************)
ReadyIsOffered ==
    \A o \in Order :
      [](orders[o].status = "READY" /\ [](InReach(o) # {})
           => <>(reached[o] \cap {"OFFERED_TO_DRIVER", "ASSIGNED", "CANCELLED"} # {}))

--------------------------------------------------------------------------------
(* What messages and comments of the code say, and the code does not keep. *)

(***************************************************************************)
(* changeStatus refuses to change "una orden entregada o cancelada": a     *)
(* delivered or cancelled order keeps its status.                          *)
(***************************************************************************)
TerminalIsFinal ==
    [][\A o \in Order :
         orders[o].status \in {"DELIVERED", "CANCELLED"} =>
           orders'[o].status = orders[o].status]_vars

(***************************************************************************)
(* completeOrder answers "No puedes completar una orden que no te fue      *)
(* asignada": the driver whose request completes an order is the order's.  *)
(***************************************************************************)
CompletedByAssignee ==
    [][\A r \in Request :
         At(r, "update", "completeOrder") /\ At(r, "emit", "completeOrder")' =>
           orders[requests[r].order].driver = requests[r].driver]_vars

(***************************************************************************)
(* "Broadcast websocket change ... everything else goes": every status but *)
(* CREATED that an order takes is shown to its room at some time.  Here    *)
(* the claim is as weak as it can be of an order that a driver gets: of    *)
(* the three statuses it takes from READY on, one is.                      *)
(***************************************************************************)
DispatchIsBroadcast ==
    \A o \in Order :
      <>(orders[o].status = "ASSIGNED")
        => <>(shown[o] \in {"SEARCHING_DRIVER", "OFFERED_TO_DRIVER", "ASSIGNED"})
================================================================================
