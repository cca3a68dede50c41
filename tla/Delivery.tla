-------------------------------- MODULE Delivery -------------------------------
(***************************************************************************)
(* The delivery flow: the HTTP handlers of OrdersService, the drivers'     *)
(* directory, the logistics listener that offers a ready order to drivers  *)
(* and the gateway that broadcasts, over one database and one Node         *)
(* process, which may crash.                                               *)
(***************************************************************************)
EXTENDS OrdersService, LogisticsListener, TrackingGateway

vars == <<storeVars, requests, drivers, dispatches, gatewayVars>>

Init ==
    /\ StoreInit
    /\ RequestsInit
    /\ DriversInit
    /\ DispatchesInit
    /\ GatewayInit

\* A crash loses what lives in the process: the handlers in flight and the
\* events queued.  The tables stay.
Crash ==
    /\ Fault
    /\ requests' = [r \in Request |-> Idle]
    /\ dispatches' = [k \in Dispatch |-> Idle]
    /\ events' = << >>
    /\ toTell' = [o \in Order |-> [d \in User |-> 0]]
    /\ UNCHANGED <<orders, offers, reached, readied, drivers, shown, told>>

Next ==
    \/ /\ \/ RequestArrives
          \/ \E r \in Request : RequestStep(r) \/ RequestFails(r)
       /\ UNCHANGED <<drivers, dispatches, gatewayVars>>
    \/ /\ DirectoryStep
       /\ UNCHANGED <<requests, dispatches, gatewayVars>>
    \/ /\ \E k \in Dispatch :
            \/ HandleOrderReady(k) \/ DispatchStep(k) \/ DispatchFails(k)
            \/ \E d \in User : OfferFails(k, d)
       /\ UNCHANGED <<requests, gatewayVars>>
    \/ /\ GatewayStep \/ \E o \in Order : TellingFails(o)
       /\ UNCHANGED <<requests, drivers, dispatches>>
    \/ Crash

Spec == Init /\ [][Next]_vars

(***************************************************************************)
(* The database answers every statement and the process's event loop comes *)
(* round, so a handler that has started goes on to its end and a queued    *)
(* event is delivered.  No client has to send anything, and no statement   *)
(* has to fail.                                                            *)
(***************************************************************************)
Fairness ==
    /\ \A r \in Request :
         WF_vars(RequestStep(r) /\ UNCHANGED <<drivers, dispatches, gatewayVars>>)
    /\ \A k \in Dispatch :
         WF_vars(DispatchStep(k) /\ UNCHANGED <<requests, gatewayVars>>)
    /\ WF_vars(/\ \E k \in Dispatch : HandleOrderReady(k)
               /\ UNCHANGED <<requests, gatewayVars>>)
    /\ WF_vars(/\ HandleOrderStatusChanged \/ HandleOrderOffered
               /\ UNCHANGED <<requests, drivers, dispatches>>)
    /\ \A o \in Order, d \in User :
         WF_vars(TellDriver(o, d) /\ UNCHANGED <<requests, drivers, dispatches>>)

FairSpec == Spec /\ Fairness
================================================================================
