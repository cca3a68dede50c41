------------------------------- MODULE MCAccounts -------------------------------
(***************************************************************************)
(* Instances of users and sessions for TLC.                                *)
(***************************************************************************)
EXTENDS AccountsProperties, TLC

CONSTANTS boss, ana, luis, t1, t2

MCUser(t, r, driver) ==
    [tenant |-> t, role |-> r, isActive |-> TRUE, hasProfile |-> driver]

\* A restaurant's administrator, a driver of another tenant, and a newcomer.
MCSeed == [u \in User |-> CASE u = boss -> MCUser(t1, "RESTAURANT_ADMIN", FALSE)
                            [] u = luis -> MCUser(t2, "DRIVER", TRUE)
                            [] u = ana -> NoUser]

SlotSymmetry == Permutations(Request) \cup Permutations(Edit)
DeviceSymmetry == SlotSymmetry \cup Permutations(Device)
================================================================================
