--------------------------- MODULE CheckoutProperties ---------------------------
(***************************************************************************)
(* What the catalogue and the orders' items should guarantee, stated over  *)
(* module Checkout.                                                        *)
(***************************************************************************)
EXTENDS Checkout

\* Every variable has its type (the amounts of an order: see OrdersAddUp).
TypeOK ==
    /\ products \in [Product -> Row \cup {NoProduct, Deleted}]
    /\ slots \in [Slot -> Edit \cup Cart \cup {Idle}]
    /\ priced \in [Product -> SUBSET Int]
    /\ orders \in Seq(ToSet(orders))
    /\ \A i \in DOMAIN orders : /\ orders[i].restaurant \in Restaurant
                               /\ orders[i].tenant \in Tenant
                               /\ orders[i].items \in Seq(Item)

\* What the items of an order cost.
Charge(o) == FoldLeft(LAMBDA sum, item : sum + item.quantity * item.priceAtPurchase,
                      0, o.items)

(***************************************************************************)
(* The subtotal of an order is what its items cost, line by line, at the   *)
(* prices written with them, and the total adds a tenth of it: also when   *)
(* prices change or products go while the order is being created.          *)
(***************************************************************************)
OrdersAddUp ==
    \A i \in DOMAIN orders :
      LET o == orders[i] IN o.subtotal = 10 * Charge(o) /\ o.total = 11 * Charge(o)

(***************************************************************************)
(* Every item of an order names a product that is still there, of the      *)
(* restaurant and the tenant of the order, at a price that it has had.     *)
(***************************************************************************)
ItemsStand ==
    \A i \in DOMAIN orders : \A j \in DOMAIN orders[i].items :
      LET o == orders[i]
          item == o.items[j]
      IN /\ Listed(item.product)
         /\ products[item.product].restaurant = o.restaurant
         /\ TenantOf(item.product) = o.tenant
         /\ item.priceAtPurchase \in priced[item.product]

\* The product that a request is about to write by id is of its caller's tenant.
EditStands(k) ==
    Doing(k, "update") \/ Doing(k, "delete") =>
      \/ products[slots[k].product] = Deleted
      \/ Listed(slots[k].product) /\ TenantOf(slots[k].product) = slots[k].tenant

(***************************************************************************)
(* A product that is about to be updated or deleted by id was found in the *)
(* caller's tenant, and belongs to it still, unless it was deleted.        *)
(***************************************************************************)
EditsStayInTenant == \A k \in Slot : EditStands(k)

--------------------------------------------------------------------------------
\* What a checkout has read is still so, but for the prices and deletions.
CartStands(k) ==
    Doing(k, "create") =>
      \A i \in DOMAIN slots[k].lines :
        LET p == slots[k].lines[i].product
            read == slots[k].products[p]
        IN /\ read \in Row
           /\ read.restaurant = slots[k].restaurant
           /\ tenantOf[slots[k].restaurant] = slots[k].tenant
           /\ read.price \in priced[p]
           /\ \/ products[p] = Deleted
              \/ Listed(p) /\ products[p].restaurant = slots[k].restaurant

\* A product on the menu is there at a price that it has had.
PricesKnown == \A p \in Product : Listed(p) => products[p].price \in priced[p]

\* The inductive invariant behind ItemsStand and EditsStayInTenant.
IInv == TypeOK /\ (\A k \in Slot : CartStands(k)) /\ PricesKnown /\ ItemsStand /\ EditsStayInTenant

================================================================================
