---------------------------- MODULE TrackingGateway ----------------------------
(***************************************************************************)
(* The two event listeners of TrackingGateway, which turn events into      *)
(* socket messages: a status change goes to the room of the order, an      *)
(* offer to the room of each driver in the event.  Whether anybody sits in *)
(* a room is not part of this module.                                      *)
(***************************************************************************)
EXTENDS DeliveryStore

VARIABLES
    shown,      \* [Order -> the status last broadcast to its room]
    toTell,     \* [Order -> [User -> Nat]]: turns of handleOrderOffered's loop
                \* still to come, over all its runs in flight
    told        \* [Order -> the drivers whose turn has come]

gatewayVars == <<shown, toTell, told>>

GatewayTypeOK ==
    /\ shown \in [Order -> Status \cup {Absent}]
    /\ toTell \in [Order -> [User -> Nat]]
    /\ told \in [Order -> SUBSET User]

GatewayInit ==
    /\ shown = [o \in Order |-> Absent]
    /\ toTell = [o \in Order |-> [d \in User |-> 0]]
    /\ told = [o \in Order |-> {}]

\* Synchronous: the payload goes to the room as it is.
HandleOrderStatusChanged ==
    /\ NextEvent("order.status_changed")
    /\ Deliver
    /\ shown' = [shown EXCEPT ![Head(events).order] = Head(events).status]
    /\ UNCHANGED <<orders, offers, reached, readied, faults, toTell, told>>

HandleOrderOffered ==
    /\ NextEvent("order.offered")
    /\ Deliver
    /\ toTell' = [toTell EXCEPT ![Head(events).order] =
                    [d \in User |-> @[d] + (IF d \in Head(events).drivers THEN 1 ELSE 0)]]
    /\ UNCHANGED <<orders, offers, reached, readied, faults, shown, told>>

\* Mutant: a turn nobody queued.
TellDriverAnyway(o, d) ==
    /\ d \in told[o] \/ toTell[o][d] > 0
    /\ toTell' = [toTell EXCEPT ![o][d] = @ - 1]
    /\ told' = [told EXCEPT ![o] = @ \cup {d}]
    /\ UNCHANGED <<storeVars, shown>>

\* One turn of the loop: look the room's sockets up, send to them if any.
TellDriver(o, d) ==
    /\ toTell[o][d] > 0
    /\ toTell' = [toTell EXCEPT ![o][d] = @ - 1]
    /\ told' = [told EXCEPT ![o] = @ \cup {d}]
    /\ UNCHANGED <<storeVars, shown>>

\* fetchSockets throws in the middle of a run: its remaining drivers get no turn.
TellingFails(o) ==
    /\ Fault
    /\ \E S \in SUBSET {d \in User : toTell[o][d] > 0} \ {{}} :
         toTell' = [toTell EXCEPT ![o] =
                      [d \in User |-> @[d] - (IF d \in S THEN 1 ELSE 0)]]
    /\ UNCHANGED <<orders, offers, events, reached, readied, shown, told>>

GatewayStep ==
    \/ HandleOrderStatusChanged
    \/ HandleOrderOffered
    \/ \E o \in Order, d \in User : TellDriver(o, d)
================================================================================
