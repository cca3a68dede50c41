--------------------------- MODULE LogisticsListener ---------------------------
(***************************************************************************)
(* LogisticsListener.handleOrderReady: on 'order.ready' it writes          *)
(* SEARCHING_DRIVER, looks for drivers near the restaurant, writes         *)
(* OFFERED_TO_DRIVER, creates one offer per driver found and emits         *)
(* 'order.offered'.  It never reads the order's status back: both updates  *)
(* overwrite whatever the order has become.  Any error is logged, and      *)
(* nobody tries again.                                                     *)
(***************************************************************************)
EXTENDS DriverDirectory

CONSTANT Dispatch       \* slots for runs of handleOrderReady

VARIABLE dispatches     \* [Dispatch -> a run between two awaits, or Idle]

\* step is the statement the run sends next; "drain" is a run that has already
\* thrown while some of its offers are still being created.
Dispatching == [step : {"search", "query", "offer", "create", "drain"},
                order : Order, found : SUBSET User, left : SUBSET User]

ASSUME DispatchAssumption == Idle \notin Dispatching

DispatchesTypeOK == dispatches \in [Dispatch -> Dispatching \cup {Idle}]

DispatchesInit == dispatches = [k \in Dispatch |-> Idle]

Runs(k) == dispatches[k] # Idle
DispatchesOf(o) == {k \in Dispatch : Runs(k) /\ dispatches[k].order = o}

RunAt(k, step) == Runs(k) /\ dispatches[k].step = step

GoTo(k, step) == dispatches' = [dispatches EXCEPT ![k].step = step]
EndRun(k) == dispatches' = [dispatches EXCEPT ![k] = Idle]

--------------------------------------------------------------------------------
\* Mutant: the event is delivered again.
HandleOrderReadyAgain(k) ==
    /\ ~Runs(k)
    /\ NextEvent("order.ready")
    /\ dispatches' = [dispatches EXCEPT ![k] =
                        [step |-> "search", order |-> Head(events).order,
                         found |-> {}, left |-> {}]]
    /\ UNCHANGED <<storeVars, drivers>>

HandleOrderReady(k) ==
    /\ ~Runs(k)
    /\ NextEvent("order.ready")
    /\ Deliver
    /\ dispatches' = [dispatches EXCEPT ![k] =
                        [step |-> "search", order |-> Head(events).order,
                         found |-> {}, left |-> {}]]
    /\ UNCHANGED <<orders, offers, reached, readied, faults, drivers>>

MarkSearching(k) ==
    /\ RunAt(k, "search")
    /\ SetStatus(dispatches[k].order, "SEARCHING_DRIVER")
    /\ GoTo(k, "query")
    /\ UNCHANGED <<offers, events, faults, drivers>>

\* Mutant: goes on to the offers without writing OFFERED_TO_DRIVER.
FindDriversNotMarking(k) ==
    /\ RunAt(k, "query")
    /\ \E S \in NearbyDrivers(dispatches[k].order) :
         IF S = {} THEN EndRun(k)
         ELSE dispatches' = [dispatches EXCEPT ![k].step = "create",
                                               ![k].found = S, ![k].left = S]
    /\ UNCHANGED <<storeVars, drivers>>

\* No driver near: a warning, and the order stays SEARCHING_DRIVER.
FindDrivers(k) ==
    /\ RunAt(k, "query")
    /\ \E S \in NearbyDrivers(dispatches[k].order) :
         IF S = {} THEN EndRun(k)
         ELSE dispatches' = [dispatches EXCEPT ![k].step = "offer",
                                               ![k].found = S, ![k].left = S]
    /\ UNCHANGED <<storeVars, drivers>>

\* Mutant: clears the driver as it offers the order.
MarkOfferedClearing(k) ==
    /\ RunAt(k, "offer")
    /\ SetOrder(dispatches[k].order, "OFFERED_TO_DRIVER", NoDriver)
    /\ GoTo(k, "create")
    /\ UNCHANGED <<offers, events, faults, drivers>>

MarkOffered(k) ==
    /\ RunAt(k, "offer")
    /\ SetStatus(dispatches[k].order, "OFFERED_TO_DRIVER")
    /\ GoTo(k, "create")
    /\ UNCHANGED <<offers, events, faults, drivers>>

\* The creates run concurrently (Promise.all): in any order.
CreateOffer(k, d) ==
    /\ RunAt(k, "create") \/ RunAt(k, "drain")
    /\ d \in dispatches[k].left
    /\ offers' = [offers EXCEPT ![dispatches[k].order][d] = @ + 1]
    /\ dispatches' = [dispatches EXCEPT ![k].left = @ \ {d}]
    /\ UNCHANGED <<orders, events, reached, readied, faults, drivers>>

\* Mutants: does not wait for the creates; emits the drivers still left.
EmitOfferedEarly(k) ==
    /\ RunAt(k, "create")
    /\ Emit(<<Offered(dispatches[k].order, dispatches[k].found)>>)
    /\ EndRun(k)
    /\ UNCHANGED <<orders, offers, reached, readied, faults, drivers>>

EmitOfferedLeft(k) ==
    /\ RunAt(k, "create")
    /\ dispatches[k].left = {}
    /\ Emit(<<Offered(dispatches[k].order, dispatches[k].left)>>)
    /\ EndRun(k)
    /\ UNCHANGED <<orders, offers, reached, readied, faults, drivers>>

EmitOffered(k) ==
    /\ RunAt(k, "create")
    /\ dispatches[k].left = {}
    /\ Emit(<<Offered(dispatches[k].order, dispatches[k].found)>>)
    /\ EndRun(k)
    /\ UNCHANGED <<orders, offers, reached, readied, faults, drivers>>

--------------------------------------------------------------------------------
\* One create fails, or only its answer is lost: Promise.all rejects and the run
\* ends in its catch, but the other creates were already sent.
OfferFails(k, d) ==
    /\ RunAt(k, "create") \/ RunAt(k, "drain")
    /\ d \in dispatches[k].left
    /\ Fault
    /\ \/ UNCHANGED offers
       \/ offers' = [offers EXCEPT ![dispatches[k].order][d] = @ + 1]
    /\ dispatches' = [dispatches EXCEPT ![k].step = "drain", ![k].left = @ \ {d}]
    /\ UNCHANGED <<orders, events, reached, readied, drivers>>

Drained(k) ==
    /\ RunAt(k, "drain")
    /\ dispatches[k].left = {}
    /\ EndRun(k)
    /\ UNCHANGED <<storeVars, drivers>>

\* A statement of the run throws, with or without its effect: an answer lost
\* after the row was written is the failure of the step that comes next.
DispatchFails(k) ==
    /\ \/ RunAt(k, "search") \/ RunAt(k, "query") \/ RunAt(k, "offer")
       \/ RunAt(k, "create") /\ dispatches[k].left = dispatches[k].found
    /\ Fault
    /\ EndRun(k)
    /\ UNCHANGED <<orders, offers, events, reached, readied, drivers>>

DispatchStep(k) ==
    \/ MarkSearching(k) \/ FindDrivers(k) \/ MarkOffered(k)
    \/ \E d \in User : CreateOffer(k, d)
    \/ EmitOffered(k)
    \/ Drained(k)
================================================================================
