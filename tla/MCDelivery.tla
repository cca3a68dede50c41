------------------------------- MODULE MCDelivery ------------------------------
(***************************************************************************)
(* Instances of the delivery flow for TLC.                                 *)
(***************************************************************************)
EXTENDS DeliveryProperties, TLC

CONSTANTS o1, admin, ana, luis, eva, t1, t2, near, far

MCRole == [u \in User |-> IF u = admin THEN "RESTAURANT_ADMIN" ELSE "DRIVER"]
MCHome == [u \in User |-> IF u = eva THEN t2 ELSE t1]
MCProfiles == User \ {admin}
\* Near is 3 km from the restaurant, far is out of the radius.
MCKm == [o \in Order |-> [p \in Place |-> IF p = near THEN 3 ELSE 80]]

\* What clients ask changeStatus for: what a restaurant's and a driver's screens
\* need, or a part of it, or ASSIGNED too, which makes an order nobody's.
UsualStatuses == {"PREPARING", "READY", "CANCELLED", "PICKED_UP", "DELIVERED"}
KitchenStatuses == {"PREPARING", "READY", "CANCELLED"}
HandStatuses == KitchenStatuses \cup {"ASSIGNED"}
CookedStatuses == {"PREPARING", "READY"}

\* Slots are interchangeable, and so are two drivers of one tenant.
SlotSymmetry == Permutations(Request) \cup Permutations(Dispatch)
DriverSymmetry == SlotSymmetry \cup Permutations({ana, luis})
================================================================================
