------------------------------ MODULE OrderPromise ------------------------------
(***************************************************************************)
(* What the delivery flow promises about one order, whoever writes it and  *)
(* however stale what the writer read: it is created once, in one tenant   *)
(* for ever; every status it takes follows, in the flow of the code, some  *)
(* status it has really had; only a step to ASSIGNED names its driver, who *)
(* is a driver profile of the order's tenant, and nothing un-names it.     *)
(*                                                                         *)
(* This is weaker than "the status moves along the table": two handlers    *)
(* that read the same status may write one after the other, so an order    *)
(* may step from DELIVERED back to ASSIGNED.                               *)
(***************************************************************************)
EXTENDS OrderStatus

CONSTANTS Order, Tenant, NoTenant, User, NoDriver, home, HasProfile

VARIABLES
    status,     \* [Order -> Status \cup {Absent}]
    tenant,     \* [Order -> Tenant \cup {NoTenant}]
    courier,    \* [Order -> User \cup {NoDriver}]
    reached     \* [Order -> SUBSET Status]: the statuses it has had

promiseVars == <<status, tenant, courier, reached>>

Init ==
    /\ status = [o \in Order |-> Absent]
    /\ tenant = [o \in Order |-> NoTenant]
    /\ courier = [o \in Order |-> NoDriver]
    /\ reached = [o \in Order |-> {}]

Create(o) ==
    /\ status[o] = Absent
    /\ status' = [status EXCEPT ![o] = "CREATED"]
    /\ \E t \in Tenant : tenant' = [tenant EXCEPT ![o] = t]
    /\ reached' = [reached EXCEPT ![o] = {"CREATED"}]
    /\ UNCHANGED courier

Follows(o, n) == \E s \in reached[o] : <<s, n>> \in Flow

Advance(o, n) ==
    /\ Follows(o, n)
    /\ status' = [status EXCEPT ![o] = n]
    /\ reached' = [reached EXCEPT ![o] = @ \cup {n}]
    /\ UNCHANGED <<tenant, courier>>

Assign(o, d) ==
    /\ Follows(o, "ASSIGNED")
    /\ d \in HasProfile
    /\ home[d] = tenant[o]
    /\ status' = [status EXCEPT ![o] = "ASSIGNED"]
    /\ reached' = [reached EXCEPT ![o] = @ \cup {"ASSIGNED"}]
    /\ courier' = [courier EXCEPT ![o] = d]
    /\ UNCHANGED tenant

Next ==
    \E o \in Order :
      \/ Create(o)
      \/ \E n \in Status : Advance(o, n)
      \/ \E d \in User : Assign(o, d)

Spec == Init /\ [][Next]_promiseVars
================================================================================
