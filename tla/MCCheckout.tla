------------------------------- MODULE MCCheckout -------------------------------
(***************************************************************************)
(* Instances of the catalogue and the checkout for TLC.                    *)
(***************************************************************************)
EXTENDS CheckoutProperties, TLC

CONSTANTS r1, r2, t1, t2, q1, q2

\* A restaurant of each tenant.
MCTenantOf == [r \in Restaurant |-> IF r = r1 THEN t1 ELSE t2]

\* One or two of a product, and one of another.
MCLine == {[product |-> q1, quantity |-> 1], [product |-> q1, quantity |-> 2],
           [product |-> q2, quantity |-> 1]}

SlotSymmetry == Permutations(Slot)
================================================================================
