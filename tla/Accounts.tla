-------------------------------- MODULE Accounts --------------------------------
(***************************************************************************)
(* Users and their sessions, over one database and one Node process, which *)
(* may crash.                                                              *)
(***************************************************************************)
EXTENDS AuthService

vars == <<usersVars, sessionVars>>

Init == UsersInit /\ SessionsInit

\* A crash loses the handlers in flight; the tables stay.  Devices keep the
\* token they hold.
Crash ==
    /\ Fault
    /\ requests' = [r \in Request |-> Idle]
    /\ edits' = [e \in Edit |-> Idle]
    /\ UNCHANGED <<users, rows, expired, held, everyOut>>

Next ==
    \/ RequestArrives
    \/ \E r \in Request : RequestStep(r) \/ RequestFails(r)
    \/ DeviceStep
    \/ Expire
    \/ /\ EditArrives \/ \E e \in Edit : EditStep(e)
       /\ UNCHANGED sessionVars
    \/ Crash

Spec == Init /\ [][Next]_vars
================================================================================
