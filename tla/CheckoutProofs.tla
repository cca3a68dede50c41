------------------------------ MODULE CheckoutProofs -----------------------------
(***************************************************************************)
(* Proofs about the catalogue and the checkout, for any number of          *)
(* products, restaurants, tenants and requests in flight, any prices and   *)
(* any lines.                                                              *)
(*                                                                         *)
(* An item stands because the checkout that wrote it found the product in  *)
(* its restaurant (CartStands): no handler moves a product, the products   *)
(* are there when the items are written, and an ordered one is not         *)
(* deleted.                                                                *)
(*                                                                         *)
(* An order adds up because its subtotal and its items' cost are the same  *)
(* sum, over the same lines at the same prices.  The sums are folds, that  *)
(* is recursive functions: that they are numbers is an induction, written  *)
(* with least counterexamples.                                             *)
(***************************************************************************)
EXTENDS CheckoutProperties, SequenceTheorems, FiniteSetTheorems, TLAPS

\* What every step keeps of the products: a product stays in its restaurant
\* until it is deleted, and remembers its prices.
ProductsKept ==
    \A p \in Product :
      /\ priced[p] \subseteq priced'[p]
      /\ products[p] = Deleted => products'[p] = Deleted
      /\ Listed(p) => \/ products'[p] = Deleted
                      \/ Listed(p)' /\ products'[p].restaurant = products[p].restaurant

\* The rows and the prices stay typed, and the prices known.
ProductsTyped ==
    /\ PricesKnown'
    /\ products' \in [Product -> Row \cup {NoProduct, Deleted}]
    /\ priced' \in [Product -> SUBSET Int]

\* No product of an item goes.
OrderedStay ==
    \A i \in DOMAIN orders : \A j \in DOMAIN orders[i].items :
      products'[orders[i].items[j].product] # Deleted

--------------------------------------------------------------------------------
\* While the products are kept, a request keeps its justification.
LEMMA RequestKept ==
    ASSUME IInv, ProductsKept, NEW k \in Slot, slots'[k] = slots[k]
    PROVE  EditStands(k)' /\ CartStands(k)'
  <1> USE DEF IInv
  <1>1. ASSUME Doing(k, "update") \/ Doing(k, "delete")
        PROVE  \/ products'[slots[k].product] = Deleted
               \/ /\ Listed(slots[k].product)'
                  /\ tenantOf[products'[slots[k].product].restaurant] = slots[k].tenant
    <2>1. slots[k] \in Edit
      BY <1>1 DEF TypeOK, Doing, Edit, Cart
    <2>2. slots[k].product \in Product
      BY <2>1 DEF Edit
    <2> QED
      BY <1>1, <2>2 DEF EditsStayInTenant, EditStands, ProductsKept, TenantOf
  <1>2. ASSUME Doing(k, "create"), NEW i \in DOMAIN slots[k].lines
        PROVE  LET p == slots[k].lines[i].product
                   read == slots[k].products[p]
               IN /\ read \in Row
                  /\ read.restaurant = slots[k].restaurant
                  /\ tenantOf[slots[k].restaurant] = slots[k].tenant
                  /\ read.price \in priced'[p]
                  /\ \/ products'[p] = Deleted
                     \/ Listed(p)' /\ products'[p].restaurant = slots[k].restaurant
    <2>1. slots[k] \in Cart
      BY <1>2 DEF TypeOK, Doing, Edit, Cart
    <2>2. slots[k].lines \in Seq(OrderLine)
      BY <2>1 DEF Cart
    <2>3. slots[k].lines[i] \in OrderLine
      BY <1>2, <2>2
    <2>4. slots[k].lines[i].product \in Product
      BY <2>3 DEF OrderLine
    <2> QED
      BY <1>2, <2>4 DEF CartStands, ProductsKept
  <1>3. EditStands(k)'
    BY <1>1 DEF EditStands, Doing, TenantOf
  <1>4. CartStands(k)'
    BY <1>2 DEF CartStands, Doing
  <1> QED
    BY <1>3, <1>4

\* While the products are kept, so are the items written.
LEMMA OrdersKept ==
    ASSUME IInv, ProductsKept, OrderedStay, orders' = orders
    PROVE  ItemsStand'
  <1> SUFFICES ASSUME NEW i \in DOMAIN orders, NEW j \in DOMAIN orders[i].items
               PROVE  LET o == orders[i]
                          item == o.items[j]
                      IN /\ Listed(item.product)'
                         /\ products'[item.product].restaurant = o.restaurant
                         /\ tenantOf[products'[item.product].restaurant] = o.tenant
                         /\ item.priceAtPurchase \in priced'[item.product]
    BY DEF ItemsStand, TenantOf
  <1>1. orders[i].items \in Seq(Item)
    BY DEF IInv, TypeOK
  <1>2. orders[i].items[j] \in Item
    BY <1>1
  <1>3. orders[i].items[j].product \in Product
    BY <1>2 DEF Item
  <1> QED
    BY <1>3 DEF IInv, ItemsStand, ProductsKept, OrderedStay, TenantOf

\* A step that writes one slot keeps the types of the requests.
LEMMA SlotWritten ==
    ASSUME TypeOK, NEW k \in Slot, NEW v \in Edit \cup Cart \cup {Idle},
           slots' = [slots EXCEPT ![k] = v]
    PROVE  /\ slots' \in [Slot -> Edit \cup Cart \cup {Idle}]
           /\ slots'[k] = v
           /\ \A j \in Slot \ {k} : slots'[j] = slots[j]
  BY DEF TypeOK

\* The invariant after a step that writes no order and one slot at most.
LEMMA OrdersUnchanged ==
    ASSUME IInv, ProductsTyped, ProductsKept, OrderedStay, orders' = orders,
           NEW k \in Slot, NEW v \in Edit \cup Cart \cup {Idle},
           slots' = [slots EXCEPT ![k] = v],
           EditStands(k)', CartStands(k)'
    PROVE  IInv'
  <1>1. /\ slots' \in [Slot -> Edit \cup Cart \cup {Idle}]
        /\ \A j \in Slot \ {k} : slots'[j] = slots[j]
    BY SlotWritten DEF IInv
  <1>2. \A j \in Slot : EditStands(j)' /\ CartStands(j)'
    BY <1>1, RequestKept
  <1>3. ItemsStand'
    BY OrdersKept
  <1>4. TypeOK'
    BY <1>1 DEF IInv, TypeOK, ProductsTyped, ToSet
  <1> QED
    BY <1>2, <1>3, <1>4 DEF IInv, EditsStayInTenant, ProductsTyped

\* A request that ends leaves nothing to justify.
LEMMA Finished ==
    ASSUME IInv, ProductsTyped, ProductsKept, OrderedStay, orders' = orders,
           NEW k \in Slot, Finish(k)
    PROVE  IInv'
  <1>1. slots' = [slots EXCEPT ![k] = Idle]
    BY DEF Finish
  <1>2. slots'[k] = Idle
    BY <1>1 DEF IInv, TypeOK
  <1>3. EditStands(k)' /\ CartStands(k)'
    BY <1>2 DEF EditStands, CartStands, Doing
  <1> QED
    BY <1>1, <1>3, OrdersUnchanged

--------------------------------------------------------------------------------
\* Nothing is listed, ordered or in flight at first.
LEMMA InitIInv == Init => IInv
  <1> SUFFICES ASSUME Init PROVE IInv
    OBVIOUS
  <1>1. \A k \in Slot : slots[k] = Idle
    BY DEF Init
  <1>2. \A k \in Slot : EditStands(k) /\ CartStands(k)
    BY <1>1 DEF EditStands, CartStands, Doing
  <1>3. DOMAIN orders = {}
    BY DEF Init
  <1>4. orders \in Seq(ToSet(orders))
    BY DEF Init
  <1>5. TypeOK
    BY <1>3, <1>4 DEF Init, TypeOK
  <1>6. PricesKnown
    BY DEF Init, PricesKnown, Listed
  <1> QED
    BY <1>2, <1>3, <1>5, <1>6 DEF IInv, EditsStayInTenant, ItemsStand

\* While products and prices are as they were, so is what the lemmas ask of them.
LEMMA ProductsUnchanged ==
    ASSUME IInv, UNCHANGED <<products, priced>>
    PROVE  ProductsTyped /\ ProductsKept /\ OrderedStay
  <1>1. ProductsTyped /\ ProductsKept
    BY DEF IInv, TypeOK, ProductsTyped, ProductsKept, Listed, PricesKnown
  <1>2. OrderedStay
    BY DEF IInv, ItemsStand, OrderedStay, Listed
  <1> QED
    BY <1>1, <1>2

\* A product that gets its first price, or another one, stays what it is.
LEMMA PriceSet ==
    ASSUME IInv, NEW p \in Product, NEW row \in Row, SetPrice(p, row),
           Listed(p) \/ products[p] = NoProduct,
           Listed(p) => row.restaurant = products[p].restaurant
    PROVE  ProductsTyped /\ ProductsKept /\ OrderedStay
  <1>1. /\ products' = [products EXCEPT ![p] = row]
        /\ priced' = [priced EXCEPT ![p] = @ \cup {row.price}]
    BY DEF SetPrice
  <1>2. row.price \in Int
    BY DEF Row
  <1>3. /\ products' \in [Product -> Row \cup {NoProduct, Deleted}]
        /\ priced' \in [Product -> SUBSET Int]
    BY <1>1, <1>2 DEF IInv, TypeOK
  <1>4. /\ products'[p] = row /\ row.price \in priced'[p]
        /\ \A q \in Product \ {p} : products'[q] = products[q]
        /\ priced[p] \subseteq priced'[p]
        /\ \A q \in Product \ {p} : priced'[q] = priced[q]
    BY <1>1 DEF IInv, TypeOK
  <1>5. row \notin {NoProduct, Deleted} /\ NoProduct \notin Row /\ Deleted \notin Row
    BY CheckoutAssumption
  <1>6. products[p] # Deleted
    BY CheckoutAssumption DEF Listed
  <1>7. ProductsKept
    <2> SUFFICES ASSUME NEW q \in Product
                 PROVE  /\ priced[q] \subseteq priced'[q]
                        /\ products[q] = Deleted => products'[q] = Deleted
                        /\ Listed(q) => \/ products'[q] = Deleted
                                        \/ /\ Listed(q)'
                                           /\ products'[q].restaurant = products[q].restaurant
      BY DEF ProductsKept
    <2>1. CASE q = p
      BY <2>1, <1>4, <1>5, <1>6 DEF Listed
    <2>2. CASE q # p
      BY <2>2, <1>4 DEF Listed
    <2> QED
      BY <2>1, <2>2
  <1>8. OrderedStay
    <2> SUFFICES ASSUME NEW i \in DOMAIN orders, NEW j \in DOMAIN orders[i].items
                 PROVE  products'[orders[i].items[j].product] # Deleted
      BY DEF OrderedStay
    <2>1. Listed(orders[i].items[j].product)
      BY DEF IInv, ItemsStand
    <2>2. orders[i].items \in Seq(Item)
      BY DEF IInv, TypeOK
    <2>3. orders[i].items[j] \in Item
      BY <2>2
    <2>4. orders[i].items[j].product \in Product
      BY <2>3 DEF Item
    <2> QED
      BY <2>1, <2>4, <1>4, <1>5 DEF Listed
  <1>9. PricesKnown'
    <2> SUFFICES ASSUME NEW q \in Product, Listed(q)'
                 PROVE  products'[q].price \in priced'[q]
      BY DEF PricesKnown
    <2>1. CASE q = p
      BY <2>1, <1>4
    <2>2. CASE q # p
      BY <2>2, <1>4 DEF IInv, PricesKnown, Listed
    <2> QED
      BY <2>1, <2>2
  <1> QED
    BY <1>3, <1>7, <1>8, <1>9 DEF ProductsTyped

--------------------------------------------------------------------------------
\* create keeps the invariant.
LEMMA CreateProductIInv ==
    ASSUME IInv, NEW p \in Product, NEW r \in Restaurant, NEW price \in Price,
           CreateProduct(p, r, price)
    PROVE  IInv'
  <1> DEFINE row == [restaurant |-> r, price |-> price]
  <1>1. row \in Row
    BY CheckoutAssumption DEF Row
  <1>2. ProductsTyped /\ ProductsKept /\ OrderedStay
    <2>1. ~Listed(p) /\ products[p] = NoProduct
      BY DEF CreateProduct, Listed
    <2>2. SetPrice(p, row)
      BY DEF CreateProduct
    <2> QED
      BY <1>1, <2>1, <2>2, PriceSet
  <1>3. slots' = slots /\ orders' = orders
    BY DEF CreateProduct
  <1>4. \A k \in Slot : EditStands(k)' /\ CartStands(k)'
    BY <1>2, <1>3, RequestKept
  <1>5. ItemsStand'
    BY <1>2, <1>3, OrdersKept
  <1>6. TypeOK'
    BY <1>2, <1>3 DEF IInv, TypeOK, ProductsTyped, ToSet
  <1> QED
    BY <1>2, <1>4, <1>5, <1>6 DEF IInv, EditsStayInTenant, ProductsTyped

\* An update or a delete that was found in its caller's tenant keeps the invariant.
LEMMA EditFound ==
    ASSUME IInv, NEW k \in Slot, NEW edit \in Edit, findOne(edit.product, edit.tenant),
           Hold(k, edit), UNCHANGED <<products, orders, priced>>
    PROVE  IInv'
  <1>1. slots' = [slots EXCEPT ![k] = edit]
    BY DEF Hold
  <1>2. slots'[k] = edit
    BY <1>1 DEF IInv, TypeOK
  <1>3. EditStands(k)'
    BY <1>2 DEF EditStands, findOne, Listed, TenantOf
  <1>4. CartStands(k)'
    BY <1>2 DEF CartStands, Doing, Edit
  <1>5. ProductsTyped /\ ProductsKept /\ OrderedStay
    BY ProductsUnchanged
  <1> QED
    BY <1>1, <1>3, <1>4, <1>5, OrdersUnchanged

\* update writes the price of a product that is there: the invariant holds on.
LEMMA UpdateWriteIInv ==
    ASSUME IInv, NEW k \in Slot, UpdateWrite(k)
    PROVE  IInv'
  <1> DEFINE p == slots[k].product
             row == [products[p] EXCEPT !.price = slots[k].price]
  <1>1. slots[k] \in Edit
    BY DEF IInv, TypeOK, UpdateWrite, Doing, Edit, Cart
  <1>2. p \in Product /\ slots[k].price \in Int
    BY <1>1 DEF Edit
  <1>3. products[p] \in Row
    BY <1>2 DEF IInv, TypeOK, UpdateWrite, Listed
  <1>4. row \in Row /\ row.restaurant = products[p].restaurant
    BY <1>2, <1>3 DEF Row
  <1>5. SetPrice(p, row) /\ Listed(p)
    BY DEF UpdateWrite
  <1>6. ProductsTyped /\ ProductsKept /\ OrderedStay
    <2> HIDE DEF p, row
    <2> QED
      BY <1>2, <1>4, <1>5, PriceSet
  <1>7. Finish(k) /\ orders' = orders
    BY DEF UpdateWrite
  <1> QED
    BY <1>6, <1>7, Finished

\* delete takes a product that no item names: the invariant holds on.
LEMMA DeleteWriteIInv ==
    ASSUME IInv, NEW k \in Slot, DeleteWrite(k)
    PROVE  IInv'
  <1> DEFINE p == slots[k].product
  <1>1. slots[k] \in Edit
    BY DEF IInv, TypeOK, DeleteWrite, Doing, Edit, Cart
  <1>2. p \in Product
    BY <1>1 DEF Edit
  <1>3. /\ products' = [products EXCEPT ![p] = Deleted]
        /\ priced' = priced
        /\ Listed(p) /\ Unordered(p)
    BY DEF DeleteWrite
  <1>4. products'[p] = Deleted /\ \A q \in Product \ {p} : products'[q] = products[q]
    BY <1>2, <1>3 DEF IInv, TypeOK
  <1>5. ProductsTyped
    <2>1. PricesKnown'
      BY <1>3, <1>4 DEF IInv, PricesKnown, Listed
    <2> QED
      BY <2>1, <1>3 DEF IInv, TypeOK, ProductsTyped
  <1>6. ProductsKept
    BY <1>3, <1>4 DEF ProductsKept, Listed
  <1>7. OrderedStay
    <2> SUFFICES ASSUME NEW i \in DOMAIN orders, NEW j \in DOMAIN orders[i].items
                 PROVE  products'[orders[i].items[j].product] # Deleted
      BY DEF OrderedStay
    <2>1. Listed(orders[i].items[j].product) /\ orders[i].items[j].product # p
      BY <1>3 DEF IInv, ItemsStand, Unordered
    <2>2. orders[i].items \in Seq(Item)
      BY DEF IInv, TypeOK
    <2>3. orders[i].items[j] \in Item
      BY <2>2
    <2>4. orders[i].items[j].product \in Product
      BY <2>3 DEF Item
    <2> QED
      BY <2>1, <2>4, <1>4 DEF Listed
  <1>8. Finish(k) /\ orders' = orders
    BY DEF DeleteWrite
  <1> QED
    BY <1>5, <1>6, <1>7, <1>8, Finished

\* A request that fails keeps the invariant.
LEMMA RequestFailsIInv ==
    ASSUME IInv, NEW k \in Slot, RequestFails(k)
    PROVE  IInv'
  <1>1. ProductsTyped /\ ProductsKept /\ OrderedStay
    BY ProductsUnchanged DEF RequestFails
  <1> QED
    BY <1>1, Finished DEF RequestFails

\* A checkout that found its products keeps the invariant.
LEMMA CheckoutReadIInv ==
    ASSUME IInv, NEW k \in Slot, NEW r \in Restaurant, NEW t \in Tenant,
           NEW lines \in BoundedSeq(Line, MaxLines), CheckoutRead(k, r, t, lines)
    PROVE  IInv'
  <1> DEFINE found == [p \in Product |->
                         IF \E i \in DOMAIN lines : lines[i].product = p THEN products[p]
                         ELSE NoProduct]
             cart == [op |-> "create", restaurant |-> r, tenant |-> t, lines |-> lines,
                      products |-> found]
  <1>1. lines \in Seq(OrderLine)
    BY CheckoutAssumption DEF BoundedSeq, SeqOf
  <1>2. found \in [Product -> Row \cup {NoProduct, Deleted}]
    BY DEF IInv, TypeOK
  <1>3. cart \in Cart
    BY <1>1, <1>2 DEF Cart
  <1>4. slots' = [slots EXCEPT ![k] = cart]
    BY DEF CheckoutRead, Hold
  <1>5. slots'[k] = cart
    BY <1>4 DEF IInv, TypeOK
  <1>6. ProductsTyped /\ ProductsKept /\ OrderedStay
    BY ProductsUnchanged DEF CheckoutRead
  <1>7. EditStands(k)'
    BY <1>5 DEF EditStands, Doing
  <1>8. ASSUME NEW i \in DOMAIN lines
        PROVE  LET p == lines[i].product IN
                 /\ found[p] \in Row
                 /\ found[p].restaurant = r
                 /\ tenantOf[r] = t
                 /\ found[p].price \in priced'[p]
                 /\ Listed(p)' /\ products'[p].restaurant = r
    <2>0. lines[i] \in OrderLine
      BY <1>1, <1>8
    <2>1. lines[i].product \in Product
      BY <2>0 DEF OrderLine
    <2>2. found[lines[i].product] = products[lines[i].product]
      BY <2>1, <1>8
    <2>3. UNCHANGED <<products, priced>> /\ OnTheMenu(lines[i].product, r, t)
      BY <1>8 DEF CheckoutRead
    <2>4. products[lines[i].product] \in Row
      BY <2>1, <2>3 DEF IInv, TypeOK, OnTheMenu, Listed
    <2> QED
      BY <2>1, <2>2, <2>3, <2>4 DEF OnTheMenu, Listed, TenantOf, IInv, PricesKnown
  <1>9. CartStands(k)'
    <2>1. /\ slots'[k].lines = lines /\ slots'[k].products = found
          /\ slots'[k].restaurant = r /\ slots'[k].tenant = t
      BY <1>5
    <2> HIDE DEF found, cart
    <2> QED
      BY <1>8, <2>1 DEF CartStands
  <1>10. orders' = orders
    BY DEF CheckoutRead
  <1> QED
    BY <1>3, <1>4, <1>6, <1>7, <1>9, <1>10, OrdersUnchanged

\* An order written at the prices read, while its products are there, keeps the
\* invariant.
LEMMA CheckoutCommitIInv ==
    ASSUME IInv, NEW k \in Slot, CheckoutCommit(k)
    PROVE  IInv'
  <1> DEFINE c == slots[k]
             o == OrderOf(c)
             S == ToSet(orders) \cup {o}
  <1>1. c \in Cart /\ CartStands(k) /\ Doing(k, "create")
    BY DEF IInv, TypeOK, CheckoutCommit, Doing, Edit, Cart
  <1>2. c.lines \in Seq(OrderLine) /\ c.restaurant \in Restaurant /\ c.tenant \in Tenant
    BY <1>1 DEF Cart
  <1>3. /\ o.restaurant = c.restaurant /\ o.tenant = c.tenant
        /\ o.items = [i \in DOMAIN c.lines |->
                        [product |-> c.lines[i].product, quantity |-> c.lines[i].quantity,
                         priceAtPurchase |-> PriceRead(c, c.lines[i].product)]]
    BY DEF OrderOf
  <1>4. ASSUME NEW i \in DOMAIN c.lines
        PROVE  LET p == c.lines[i].product
                   item == o.items[i]
               IN /\ p \in Product /\ item \in Item /\ item.product = p
                  /\ Listed(p) /\ products[p].restaurant = o.restaurant
                  /\ TenantOf(p) = o.tenant
                  /\ item.priceAtPurchase \in priced[p]
    <2>1. c.lines[i] \in OrderLine
      BY <1>2, <1>4
    <2>2. c.lines[i].product \in Product /\ c.lines[i].quantity \in Int
      BY <2>1 DEF OrderLine
    <2>3. Listed(c.lines[i].product)
      BY <1>4 DEF CheckoutCommit
    <2>4. /\ c.products[c.lines[i].product] \in Row
          /\ tenantOf[c.restaurant] = c.tenant
          /\ c.products[c.lines[i].product].price \in priced[c.lines[i].product]
          /\ products[c.lines[i].product].restaurant = c.restaurant
      BY <1>1, <1>4, <2>3 DEF CartStands, Listed
    <2>5. o.items[i] = [product |-> c.lines[i].product, quantity |-> c.lines[i].quantity,
                        priceAtPurchase |-> c.products[c.lines[i].product].price]
      BY <1>3, <1>4 DEF PriceRead
    <2>6. c.products[c.lines[i].product].price \in Int
      BY <2>4 DEF Row
    <2> HIDE DEF c, o
    <2> QED
      BY <2>2, <2>3, <2>4, <2>5, <2>6, <1>3 DEF Item, TenantOf
  <1>5. DOMAIN o.items = DOMAIN c.lines /\ o.items \in Seq(Item)
    <2>1. DOMAIN c.lines = 1 .. Len(c.lines) /\ Len(c.lines) \in Nat
      BY <1>2
    <2>2. o.items = [i \in DOMAIN c.lines |-> o.items[i]]
      BY <1>3
    <2> HIDE DEF c, o
    <2>3. o.items \in [1 .. Len(c.lines) -> Item]
      BY <1>4, <2>1, <2>2
    <2> QED
      BY <2>1, <2>2, <2>3
  <1>6. orders' = Append(orders, o) /\ UNCHANGED <<products, priced>>
    BY DEF CheckoutCommit
  <1>7. orders \in Seq(S) /\ Len(orders) \in Nat /\ DOMAIN orders = 1 .. Len(orders)
    <2>1. orders \in Seq(ToSet(orders))
      BY DEF IInv, TypeOK
    <2> HIDE DEF o
    <2> QED
      BY <2>1, SeqMonotonic
  <1>8. /\ orders' \in Seq(S) /\ DOMAIN orders' = 1 .. Len(orders) + 1
        /\ \A i \in DOMAIN orders : orders'[i] = orders[i]
        /\ orders'[Len(orders) + 1] = o
    <2> HIDE DEF o
    <2> QED
      BY <1>6, <1>7, AppendProperties
  <1>9. ProductsTyped /\ ProductsKept /\ OrderedStay
    BY <1>6, ProductsUnchanged
  <1>10. slots' = [slots EXCEPT ![k] = Idle]
    BY DEF CheckoutCommit, Finish
  <1>11. /\ slots' \in [Slot -> Edit \cup Cart \cup {Idle}]
         /\ slots'[k] = Idle
         /\ \A j \in Slot \ {k} : slots'[j] = slots[j]
    BY <1>10, SlotWritten DEF IInv
  <1>12. \A j \in Slot : EditStands(j)' /\ CartStands(j)'
    <2>1. EditStands(k)' /\ CartStands(k)'
      BY <1>11 DEF EditStands, CartStands, Doing
    <2> QED
      BY <2>1, <1>9, <1>11, RequestKept
  <1>13. TypeOK'
    <2>1. orders' \in Seq(ToSet(orders'))
      BY <1>8 DEF ToSet
    <2>2. \A i \in DOMAIN orders' : /\ orders'[i].restaurant \in Restaurant
                                   /\ orders'[i].tenant \in Tenant
                                   /\ orders'[i].items \in Seq(Item)
      <3> HIDE DEF c, o
      <3> QED
        BY <1>2, <1>3, <1>5, <1>7, <1>8 DEF IInv, TypeOK
    <2> QED
      BY <2>1, <2>2, <1>9, <1>11 DEF TypeOK, ProductsTyped
  <1>14. ItemsStand'
    <2> SUFFICES ASSUME NEW i \in DOMAIN orders', NEW j \in DOMAIN orders'[i].items
                 PROVE  LET item == orders'[i].items[j] IN
                          /\ Listed(item.product)
                          /\ products[item.product].restaurant = orders'[i].restaurant
                          /\ TenantOf(item.product) = orders'[i].tenant
                          /\ item.priceAtPurchase \in priced[item.product]
      BY <1>6 DEF ItemsStand, Listed, TenantOf
    <2> HIDE DEF c, o
    <2>1. CASE i \in DOMAIN orders
      BY <2>1, <1>8 DEF IInv, ItemsStand
    <2>2. CASE i = Len(orders) + 1
      BY <2>2, <1>8, <1>4, <1>5
    <2> QED
      BY <2>1, <2>2, <1>7, <1>8
  <1> QED
    BY <1>9, <1>12, <1>13, <1>14 DEF IInv, EditsStayInTenant, ProductsTyped

\* Every step keeps the invariant.
LEMMA NextIInv == IInv /\ [Next]_vars => IInv'
  <1> SUFFICES ASSUME IInv, [Next]_vars PROVE IInv'
    OBVIOUS
  <1>1. ASSUME NEW p \in Product, NEW r \in Restaurant, NEW price \in Price,
               CreateProduct(p, r, price)
        PROVE  IInv'
    BY <1>1, CreateProductIInv
  <1>2. ASSUME NEW k \in Slot, NEW t \in Tenant, NEW p \in Product, DeleteFind(k, t, p)
        PROVE  IInv'
    <2> DEFINE e == [op |-> "delete", product |-> p, price |-> 0, tenant |-> t]
    <2>1. e \in Edit /\ findOne(e.product, e.tenant)
      BY <1>2 DEF DeleteFind, Edit
    <2>2. Hold(k, e) /\ UNCHANGED <<products, orders, priced>>
      BY <1>2 DEF DeleteFind
    <2> HIDE DEF e
    <2> QED
      BY <2>1, <2>2, EditFound
  <1>3. ASSUME NEW k \in Slot, NEW t \in Tenant, NEW p \in Product, NEW price \in Price,
               UpdateFind(k, t, p, price)
        PROVE  IInv'
    <2> DEFINE e == [op |-> "update", product |-> p, price |-> price, tenant |-> t]
    <2>1. e \in Edit /\ findOne(e.product, e.tenant)
      BY <1>3, CheckoutAssumption DEF UpdateFind, Edit
    <2>2. Hold(k, e) /\ UNCHANGED <<products, orders, priced>>
      BY <1>3 DEF UpdateFind
    <2> HIDE DEF e
    <2> QED
      BY <2>1, <2>2, EditFound
  <1>4. CASE UNCHANGED vars
    <2>1. ProductsTyped /\ ProductsKept /\ OrderedStay
      BY <1>4, ProductsUnchanged DEF vars
    <2>2. \A k \in Slot : EditStands(k)' /\ CartStands(k)'
      BY <1>4, <2>1, RequestKept DEF vars
    <2>3. ItemsStand'
      BY <1>4, <2>1, OrdersKept DEF vars
    <2>4. TypeOK'
      BY <1>4 DEF IInv, TypeOK, vars, ToSet
    <2> QED
      BY <2>1, <2>2, <2>3, <2>4 DEF IInv, EditsStayInTenant, ProductsTyped
  <1> QED
    BY <1>1, <1>2, <1>3, <1>4, UpdateWriteIInv, DeleteWriteIInv, CheckoutReadIInv,
       CheckoutCommitIInv, RequestFailsIInv DEF Next

--------------------------------------------------------------------------------
(***************************************************************************)
(* The inductive invariant: every variable is typed, every request in      *)
(* flight rests on what its read found, and every item stands.             *)
(***************************************************************************)
THEOREM InvariantHolds == Spec => []IInv
  BY InitIInv, NextIInv, PTL DEF Spec

(***************************************************************************)
(* Every item of every order names a product that is still there, of the   *)
(* order's restaurant and tenant, at a price that it has had: orders read  *)
(* and write in one transaction while products change and go.              *)
(***************************************************************************)
THEOREM ItemsAlwaysStand == Spec => []ItemsStand
  <1>1. IInv => ItemsStand
    BY DEF IInv
  <1> QED
    BY <1>1, InvariantHolds, PTL

(***************************************************************************)
(* No product is updated or deleted for a caller of another tenant, though *)
(* tenant and write are two statements.                                    *)
(***************************************************************************)
THEOREM EditsAlwaysStayInTenant == Spec => []EditsStayInTenant
  <1>1. IInv => EditsStayInTenant
    BY DEF IInv
  <1> QED
    BY <1>1, InvariantHolds, PTL

--------------------------------------------------------------------------------
\* A set of numbers that is not empty has a least one.
LEMMA LeastNumber ==
    ASSUME NEW S \in SUBSET Nat, S # {}
    PROVE  \E m \in S : \A n \in S : m <= n
  <1> DEFINE R == OpToRel(<, Nat)
  <1>1. IsWellFoundedOn(R, Nat)
    BY NatLessThanWellFounded
  <1>2. PICK m \in S : \A n \in S : ~(<<n, m>> \in R)
    <2> HIDE DEF R
    <2> QED
      BY <1>1, WFMin
  <1>3. ASSUME NEW n \in S PROVE m <= n
    <2>1. n \in Nat /\ m \in Nat
      OBVIOUS
    <2>2. CASE n < m
      <3>1. <<n, m>> \in R
        BY <2>1, <2>2 DEF OpToRel
      <3> QED
        BY <3>1, <1>2
    <2> QED
      BY <2>1, <2>2
  <1> QED
    BY <1>3

\* A set of indices that is not empty has a greatest one.
LEMMA GreatestIndex ==
    ASSUME NEW n \in Nat, NEW S \in SUBSET (1 .. n), S # {}
    PROVE  Max(S) \in S
  <1> DEFINE bounds == {b \in Nat : \A i \in S : i <= b}
  <1>1. bounds \in SUBSET Nat /\ n \in bounds
    OBVIOUS
  <1>2. PICK m \in bounds : \A b \in bounds : m <= b
    <2> HIDE DEF bounds
    <2> QED
      BY <1>1, LeastNumber
  <1>3. m \in S
    <2> SUFFICES ASSUME m \notin S PROVE FALSE
      OBVIOUS
    <2>1. PICK i \in S : TRUE
      OBVIOUS
    <2>2. \A j \in S : j \in Nat /\ j <= m /\ j # m
      BY <1>2
    <2>3. m - 1 \in bounds
      BY <2>1, <2>2, <1>2
    <2> QED
      BY <2>3, <1>2
  <1>4. \E x \in S : \A y \in S : x >= y
    BY <1>2, <1>3
  <1> QED
    BY <1>4 DEF Max

\* The sum of w over the indices s, as the folds compute it: from the greatest on.
NextSum(f, w, s) == IF s = {} THEN 0 ELSE f[s \ {Max(s)}] + w[Max(s)]
IsSum(f, D, w) == f = [s \in SUBSET D |-> NextSum(f, w, s)]
Sum(D, w) == (CHOOSE f : IsSum(f, D, w))[D]

\* Taking the greatest index out of a set leaves a smaller one.
LEMMA WithoutGreatest ==
    ASSUME NEW n \in Nat, NEW s \in SUBSET (1 .. n)
    PROVE  /\ Cardinality(s) \in Nat
           /\ Cardinality(s) = 0 <=> s = {}
           /\ s # {} => /\ Max(s) \in 1 .. n
                        /\ s \ {Max(s)} \in SUBSET (1 .. n)
                        /\ Cardinality(s \ {Max(s)}) = Cardinality(s) - 1
  <1>1. IsFiniteSet(s)
    <2>1. IsFiniteSet(1 .. n)
      BY FS_Interval
    <2> QED
      BY <2>1, FS_Subset
  <1>2. Cardinality(s) \in Nat /\ (Cardinality(s) = 0 <=> s = {})
    BY <1>1, FS_CardinalityType, FS_EmptySet
  <1>3. ASSUME s # {}
        PROVE  Max(s) \in s /\ Cardinality(s \ {Max(s)}) = Cardinality(s) - 1
    BY <1>1, <1>3, GreatestIndex, FS_RemoveElement
  <1> QED
    BY <1>2, <1>3

\* The sums exist: those of sets of up to k indices do, for every k.
LEMMA SumsExist ==
    ASSUME NEW n \in Nat, NEW w \in [1 .. n -> Int]
    PROVE  \E f \in [SUBSET (1 .. n) -> Int] : IsSum(f, 1 .. n, w)
  <1> DEFINE D == 1 .. n
             UpTo(k, f) == \A s \in SUBSET D : Cardinality(s) <= k => f[s] = NextSum(f, w, s)
             without == {k \in Nat : ~ \E f \in [SUBSET D -> Int] : UpTo(k, f)}
  <1>1. without = {}
    <2> SUFFICES ASSUME without # {} PROVE FALSE
      OBVIOUS
    <2>1. PICK k \in without : \A j \in without : k <= j
      <3>1. without \in SUBSET Nat
        OBVIOUS
      <3> HIDE DEF without
      <3> QED
        BY <3>1, LeastNumber
    <2>2. k # 0
      <3> DEFINE zero == [s \in SUBSET D |-> 0]
      <3>1. UpTo(0, zero)
        <4> SUFFICES ASSUME NEW s \in SUBSET D, Cardinality(s) <= 0
                     PROVE  zero[s] = NextSum(zero, w, s)
          OBVIOUS
        <4>1. Cardinality(s) \in Nat /\ (Cardinality(s) = 0 <=> s = {})
          BY WithoutGreatest
        <4>2. s = {}
          BY <4>1
        <4> QED
          BY <4>2 DEF NextSum
      <3>2. zero \in [SUBSET D -> Int]
        OBVIOUS
      <3> HIDE DEF zero, UpTo
      <3> QED
        BY <3>1, <3>2
    <2>3. PICK f \in [SUBSET D -> Int] : UpTo(k - 1, f)
      <3> HIDE DEF UpTo
      <3>1. k \in Nat
        OBVIOUS
      <3>2. k - 1 \in Nat /\ k - 1 \notin without
        <4> HIDE DEF without
        <4> QED
          BY <2>1, <2>2, <3>1
      <3> QED
        BY <3>2
    <2> DEFINE g == [s \in SUBSET D |-> IF Cardinality(s) = k THEN NextSum(f, w, s) ELSE f[s]]
    <2>4. ASSUME NEW s \in SUBSET D
          PROVE  NextSum(f, w, s) \in Int
      <3>1. CASE s = {}
        BY <3>1 DEF NextSum
      <3>2. CASE s # {}
        <4>1. Max(s) \in D /\ s \ {Max(s)} \in SUBSET D
          BY <3>2, WithoutGreatest
        <4>2. f[s \ {Max(s)}] \in Int /\ w[Max(s)] \in Int
          BY <4>1
        <4> QED
          BY <3>2, <4>2 DEF NextSum
      <3> QED
        BY <3>1, <3>2
    <2>5. g \in [SUBSET D -> Int]
      BY <2>4
    <2>6. k \in Nat
      OBVIOUS
    <2>7. UpTo(k, g)
      <3> SUFFICES ASSUME NEW s \in SUBSET D, Cardinality(s) <= k
                   PROVE  g[s] = NextSum(g, w, s)
        OBVIOUS
      <3>1. NextSum(g, w, s) = NextSum(f, w, s)
        <4>1. CASE s = {}
          BY <4>1 DEF NextSum
        <4>2. CASE s # {}
          <5>1. /\ s \ {Max(s)} \in SUBSET D
                /\ Cardinality(s \ {Max(s)}) = Cardinality(s) - 1 /\ Cardinality(s) \in Nat
            BY <4>2, WithoutGreatest
          <5>2. g[s \ {Max(s)}] = f[s \ {Max(s)}]
            BY <5>1, <2>6
          <5> QED
            BY <5>2 DEF NextSum
        <4> QED
          BY <4>1, <4>2
      <3>2. g[s] = NextSum(f, w, s)
        <4>1. CASE Cardinality(s) = k
          BY <4>1
        <4>2. CASE Cardinality(s) # k
          <5>1. Cardinality(s) \in Nat
            BY WithoutGreatest
          <5>2. Cardinality(s) <= k - 1
            BY <4>2, <5>1, <2>6
          <5> QED
            BY <5>2, <4>2, <2>3
        <4> QED
          BY <4>1, <4>2
      <3> QED
        BY <3>1, <3>2
    <2> HIDE DEF g, UpTo
    <2> QED
      BY <2>1, <2>5, <2>7
  <1>2. Cardinality(D) \in Nat /\ \A s \in SUBSET D : Cardinality(s) <= Cardinality(D)
    <2>1. IsFiniteSet(D) /\ D \in SUBSET D
      BY FS_Interval
    <2>2. \A s \in SUBSET D : Cardinality(s) <= Cardinality(D)
      BY <2>1, FS_Subset
    <2>3. Cardinality(D) \in Nat
      BY <2>1, FS_CardinalityType
    <2> QED
      BY <2>2, <2>3
  <1>3. PICK f \in [SUBSET D -> Int] : UpTo(Cardinality(D), f)
    <2> HIDE DEF UpTo
    <2> QED
      BY <1>1, <1>2
  <1>4. IsSum(f, D, w)
    BY <1>2, <1>3 DEF IsSum
  <1> QED
    BY <1>4

\* The sum of whole numbers is a whole number.
LEMMA SumIsInt ==
    ASSUME NEW n \in Nat, NEW w \in [1 .. n -> Int]
    PROVE  Sum(1 .. n, w) \in Int
  <1> DEFINE D == 1 .. n
             f == CHOOSE f : IsSum(f, D, w)
             without == {k \in Nat : \E s \in SUBSET D : Cardinality(s) = k /\ f[s] \notin Int}
  <1>1. \A s \in SUBSET D : f[s] = NextSum(f, w, s)
    <2>1. IsSum(f, D, w)
      BY SumsExist
    <2> HIDE DEF f
    <2> QED
      BY <2>1 DEF IsSum
  <1> HIDE DEF f
  <1>2. without = {}
    <2> SUFFICES ASSUME without # {} PROVE FALSE
      OBVIOUS
    <2>1. PICK k \in without : \A j \in without : k <= j
      <3>1. without \in SUBSET Nat
        OBVIOUS
      <3> HIDE DEF without
      <3> QED
        BY <3>1, LeastNumber
    <2>2. PICK s \in SUBSET D : Cardinality(s) = k /\ f[s] \notin Int
      BY <2>1
    <2>3. CASE s = {}
      <3>1. f[s] = 0
        BY <2>3, <1>1 DEF NextSum
      <3> QED
        BY <2>2, <3>1
    <2>4. CASE s # {}
      <3> DEFINE r == s \ {Max(s)}
      <3>1. r \in SUBSET D /\ Cardinality(r) = k - 1 /\ k - 1 \in Nat /\ w[Max(s)] \in Int
        BY <2>2, <2>4, WithoutGreatest
      <3>2. k - 1 \notin without
        BY <2>1, <3>1
      <3>3. f[r] \in Int
        BY <3>1, <3>2
      <3>4. f[s] = f[r] + w[Max(s)]
        BY <1>1, <2>4 DEF NextSum
      <3> QED
        BY <2>2, <3>1, <3>3, <3>4
    <2> QED
      BY <2>3, <2>4
  <1>3. D \in SUBSET D /\ Cardinality(D) \in Nat
    BY WithoutGreatest
  <1>4. f[D] \in Int
    BY <1>2, <1>3
  <1> QED
    BY <1>4 DEF f, Sum

--------------------------------------------------------------------------------
\* The subtotal of a cart is the sum over its lines.
LEMMA SubtotalIsSum ==
    ASSUME NEW c, c.lines \in Seq(OrderLine)
    PROVE  Subtotal(c) =
             Sum(DOMAIN c.lines, [i \in DOMAIN c.lines |->
                                    c.products[c.lines[i].product].price * c.lines[i].quantity])
  <1> DEFINE D == DOMAIN c.lines
             w == [i \in D |-> c.products[c.lines[i].product].price * c.lines[i].quantity]
  <1>1. Subtotal(c) =
          (CHOOSE f : f = [s \in SUBSET D |->
             IF s = {} THEN 0
             ELSE f[s \ {Max(s)}] +
                  c.products[c.lines[Max(s)].product].price * c.lines[Max(s)].quantity])[D]
    BY DEF Subtotal, FoldLeft, MapThenFoldSet
  <1>2. \A s \in SUBSET D : s # {} => Max(s) \in D
    <2>1. Len(c.lines) \in Nat /\ D = 1 .. Len(c.lines)
      OBVIOUS
    <2> QED
      BY <2>1, WithoutGreatest
  <1>3. \A f : [s \in SUBSET D |->
                  IF s = {} THEN 0
                  ELSE f[s \ {Max(s)}] +
                       c.products[c.lines[Max(s)].product].price * c.lines[Max(s)].quantity]
               = [s \in SUBSET D |-> NextSum(f, w, s)]
    BY <1>2 DEF NextSum
  <1>4. \A f : f = [s \in SUBSET D |->
                     IF s = {} THEN 0
                     ELSE f[s \ {Max(s)}] +
                          c.products[c.lines[Max(s)].product].price * c.lines[Max(s)].quantity]
               <=> IsSum(f, D, w)
    BY <1>3 DEF IsSum
  <1> HIDE DEF w, D
  <1> QED
    BY <1>1, <1>4 DEF Sum, D, w

\* What the items of an order cost is the sum over its items.
LEMMA ChargeIsSum ==
    ASSUME NEW o, o.items \in Seq(Item)
    PROVE  Charge(o) =
             Sum(DOMAIN o.items, [i \in DOMAIN o.items |->
                                    o.items[i].quantity * o.items[i].priceAtPurchase])
  <1> DEFINE D == DOMAIN o.items
             w == [i \in D |-> o.items[i].quantity * o.items[i].priceAtPurchase]
  <1>1. Charge(o) =
          (CHOOSE f : f = [s \in SUBSET D |->
             IF s = {} THEN 0
             ELSE f[s \ {Max(s)}] + o.items[Max(s)].quantity * o.items[Max(s)].priceAtPurchase])[D]
    BY DEF Charge, FoldLeft, MapThenFoldSet
  <1>2. \A s \in SUBSET D : s # {} => Max(s) \in D
    <2>1. Len(o.items) \in Nat /\ D = 1 .. Len(o.items)
      OBVIOUS
    <2> QED
      BY <2>1, WithoutGreatest
  <1>3. \A f : [s \in SUBSET D |->
                  IF s = {} THEN 0
                  ELSE f[s \ {Max(s)}] +
                       o.items[Max(s)].quantity * o.items[Max(s)].priceAtPurchase]
               = [s \in SUBSET D |-> NextSum(f, w, s)]
    BY <1>2 DEF NextSum
  <1>4. \A f : f = [s \in SUBSET D |->
                     IF s = {} THEN 0
                     ELSE f[s \ {Max(s)}] +
                          o.items[Max(s)].quantity * o.items[Max(s)].priceAtPurchase]
               <=> IsSum(f, D, w)
    BY <1>3 DEF IsSum
  <1> HIDE DEF w, D
  <1> QED
    BY <1>1, <1>4 DEF Sum, D, w

\* The order that a checkout writes adds up: it sums over the same lines, at the
\* same prices, as its items.
LEMMA OrderWrittenAddsUp ==
    ASSUME IInv, NEW k \in Slot, CheckoutCommit(k)
    PROVE  LET o == OrderOf(slots[k])
           IN  o.subtotal = 10 * Charge(o) /\ o.total = 11 * Charge(o)
  <1> DEFINE c == slots[k]
             o == OrderOf(c)
             D == DOMAIN c.lines
             cost == [i \in D |-> c.products[c.lines[i].product].price * c.lines[i].quantity]
  <1>1. c \in Cart /\ CartStands(k) /\ Doing(k, "create")
    BY DEF IInv, TypeOK, CheckoutCommit, Doing, Edit, Cart
  <1>2. c.lines \in Seq(OrderLine)
    BY <1>1 DEF Cart
  <1>3. Len(c.lines) \in Nat /\ D = 1 .. Len(c.lines)
    BY <1>2
  <1>4. /\ o.items = [i \in D |->
                       [product |-> c.lines[i].product, quantity |-> c.lines[i].quantity,
                        priceAtPurchase |-> c.products[c.lines[i].product].price]]
        /\ o.subtotal = 10 * Subtotal(c)
        /\ o.total = 10 * Subtotal(c) + (10 * Subtotal(c)) \div 10
    BY DEF OrderOf, PriceRead
  <1>5. ASSUME NEW i \in D
        PROVE  /\ c.lines[i].product \in Product
               /\ c.products[c.lines[i].product].price \in Int
               /\ c.lines[i].quantity \in Int
    <2>1. c.lines[i] \in OrderLine
      BY <1>2, <1>5
    <2>2. c.products[c.lines[i].product] \in Row
      BY <1>1, <1>5 DEF CartStands
    <2> QED
      BY <2>1, <2>2 DEF OrderLine, Row
  <1> HIDE DEF c, o
  <1>6. o.items \in Seq(Item) /\ DOMAIN o.items = D
    <2>1. o.items \in [1 .. Len(c.lines) -> Item]
      BY <1>3, <1>4, <1>5 DEF Item
    <2> QED
      BY <2>1, <1>3
  <1>7. cost \in [1 .. Len(c.lines) -> Int]
    <2>1. ASSUME NEW i \in D
          PROVE  c.products[c.lines[i].product].price * c.lines[i].quantity \in Int
      BY <1>5
    <2> QED
      BY <2>1, <1>3
  <1>8. [i \in D |-> o.items[i].quantity * o.items[i].priceAtPurchase] = cost
    <2>1. ASSUME NEW i \in D
          PROVE  o.items[i].quantity * o.items[i].priceAtPurchase
                   = c.products[c.lines[i].product].price * c.lines[i].quantity
      <3>1. /\ o.items[i].quantity = c.lines[i].quantity
            /\ o.items[i].priceAtPurchase = c.products[c.lines[i].product].price
        BY <1>4
      <3> QED
        BY <3>1, <1>5
    <2> QED
      BY <2>1
  <1>9. Subtotal(c) = Sum(D, cost) /\ Charge(o) = Sum(D, cost)
    BY <1>2, <1>6, <1>8, SubtotalIsSum, ChargeIsSum
  <1>10. Sum(D, cost) \in Int
    <2> HIDE DEF cost, D
    <2> QED
      BY <1>3, <1>7, SumIsInt
  <1>11. o.subtotal = 10 * Charge(o) /\ o.total = 11 * Charge(o)
    <2> HIDE DEF cost, D
    <2> QED
      BY <1>4, <1>9, <1>10
  <1> QED
    BY <1>11 DEF c, o

\* Every step keeps the orders adding up: only a checkout writes one.
LEMMA NextAddsUp == IInv /\ OrdersAddUp /\ [Next]_vars => OrdersAddUp'
  <1> SUFFICES ASSUME IInv, OrdersAddUp, [Next]_vars PROVE OrdersAddUp'
    OBVIOUS
  <1>1. CASE orders' = orders
    BY <1>1 DEF OrdersAddUp
  <1>2. ASSUME NEW k \in Slot, CheckoutCommit(k)
        PROVE  OrdersAddUp'
    <2> DEFINE o == OrderOf(slots[k])
               S == ToSet(orders) \cup {o}
    <2>1. o.subtotal = 10 * Charge(o) /\ o.total = 11 * Charge(o)
      BY <1>2, OrderWrittenAddsUp
    <2>2. orders' = Append(orders, o) /\ orders \in Seq(ToSet(orders))
      BY <1>2 DEF CheckoutCommit, IInv, TypeOK
    <2> HIDE DEF o
    <2>3. orders \in Seq(S) /\ Len(orders) \in Nat /\ DOMAIN orders = 1 .. Len(orders)
      BY <2>2, SeqMonotonic
    <2>4. /\ DOMAIN orders' = 1 .. Len(orders) + 1
          /\ \A i \in DOMAIN orders : orders'[i] = orders[i]
          /\ orders'[Len(orders) + 1] = o
      BY <2>2, <2>3, AppendProperties
    <2>5. ASSUME NEW i \in DOMAIN orders'
          PROVE  /\ orders'[i].subtotal = 10 * Charge(orders'[i])
                 /\ orders'[i].total = 11 * Charge(orders'[i])
      <3>1. CASE i \in DOMAIN orders
        BY <3>1, <2>4 DEF OrdersAddUp
      <3>2. CASE i = Len(orders) + 1
        BY <3>2, <2>1, <2>4
      <3> QED
        BY <3>1, <3>2, <2>3, <2>4
    <2> QED
      BY <2>5 DEF OrdersAddUp
  <1> QED
    BY <1>1, <1>2 DEF Next, vars, CreateProduct, DeleteFind, UpdateFind, UpdateWrite,
       DeleteWrite, CheckoutRead, RequestFails

(***************************************************************************)
(* Every order adds up, however many lines it has and whatever their       *)
(* products cost: its subtotal is what its items cost at the prices        *)
(* written with them, and its total adds a tenth.                          *)
(***************************************************************************)
THEOREM OrdersAlwaysAddUp == Spec => []OrdersAddUp
  <1>1. Init => OrdersAddUp
    <2> SUFFICES ASSUME Init PROVE OrdersAddUp
      OBVIOUS
    <2>1. DOMAIN orders = {}
      BY DEF Init
    <2> QED
      BY <2>1 DEF OrdersAddUp
  <1> QED
    BY <1>1, NextAddsUp, InvariantHolds, PTL DEF Spec
================================================================================
