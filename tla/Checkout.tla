--------------------------------- MODULE Checkout --------------------------------
(***************************************************************************)
(* The catalogue (ProductsService) and the part of OrdersService.create    *)
(* that delivery does not see: the items of an order, their prices and the *)
(* total.  An order reads the products and writes itself with its items in *)
(* one transaction, at PostgreSQL's default isolation; a product is        *)
(* updated or deleted by id after a query that looked at its tenant.       *)
(*                                                                         *)
(* Amounts are in tenths of the smallest coin, so that the commission of   *)
(* 10% is a whole number; the rounding of floats is not modelled.          *)
(***************************************************************************)
EXTENDS Integers, SequencesExt

CONSTANTS
    Restaurant, Tenant,
    tenantOf,       \* [Restaurant -> Tenant]
    Product,        \* ids, each given to one product at most
    NoProduct,      \* an id not given yet
    Deleted,        \* the id of a product that was deleted
    Slot, Idle,     \* slots for requests in flight, and an empty slot
    Price,          \* bound: the prices asked for
    Line,           \* bound: the lines that orders ask for
    MaxLines,       \* bound: lines of an order
    MaxOrders       \* bound: orders created

Row == [restaurant : Restaurant, price : Int]
\* CreateOrderDto asks no more of a line than that the items are an array.
OrderLine == [product : Product, quantity : Int]

\* What a request holds between its read and its write: of a checkout, the
\* products it read.
Edit == [op : {"update", "delete"}, product : Product, price : Int, tenant : Tenant]
Cart == [op : {"create"}, restaurant : Restaurant, tenant : Tenant,
         lines : Seq(OrderLine), products : [Product -> Row \cup {NoProduct, Deleted}]]

Item == [product : Product, quantity : Int, priceAtPurchase : Int]

ASSUME CheckoutAssumption ==
    /\ tenantOf \in [Restaurant -> Tenant]
    /\ Price \subseteq Nat
    /\ Line \subseteq OrderLine
    /\ MaxLines \in Nat /\ MaxOrders \in Nat
    /\ NoProduct \notin Row /\ Deleted \notin Row /\ NoProduct # Deleted
    /\ Idle \notin Edit \cup Cart

VARIABLES
    products,       \* [Product -> a row, NoProduct or Deleted]
    slots,          \* [Slot -> a request between two of its awaits, or Idle]
    orders,         \* the orders created, with their items
    priced          \* history: [Product -> the prices it has had]

vars == <<products, slots, orders, priced>>

Init ==
    /\ products = [p \in Product |-> NoProduct]
    /\ slots = [k \in Slot |-> Idle]
    /\ orders = << >>
    /\ priced = [p \in Product |-> {}]

Listed(p) == products[p] \notin {NoProduct, Deleted}
TenantOf(p) == tenantOf[products[p].restaurant]

Hold(k, request) == slots[k] = Idle /\ slots' = [slots EXCEPT ![k] = request]
Doing(k, op) == slots[k] # Idle /\ slots[k].op = op
Finish(k) == slots' = [slots EXCEPT ![k] = Idle]

SetPrice(p, row) ==
    /\ products' = [products EXCEPT ![p] = row]
    /\ priced' = [priced EXCEPT ![p] = @ \cup {row.price}]

--------------------------------------------------------------------------------
\* create: in the restaurant of the caller.
CreateProduct(p, r, price) ==
    /\ products[p] = NoProduct
    /\ SetPrice(p, [restaurant |-> r, price |-> price])
    /\ UNCHANGED <<slots, orders>>

\* Mutant: a product of any tenant.
FindOneOfAny(p, t) == Listed(p)

\* findOne: a product of the caller's tenant.
findOne(p, t) == Listed(p) /\ TenantOf(p) = t

UpdateFind(k, t, p, price) ==
    /\ findOne(p, t)
    /\ Hold(k, [op |-> "update", product |-> p, price |-> price, tenant |-> t])
    /\ UNCHANGED <<products, orders, priced>>

DeleteFind(k, t, p) ==
    /\ findOne(p, t)
    /\ Hold(k, [op |-> "delete", product |-> p, price |-> 0, tenant |-> t])
    /\ UNCHANGED <<products, orders, priced>>

UpdateWrite(k) ==
    LET p == slots[k].product IN
      /\ Doing(k, "update")
      /\ Listed(p)
      /\ SetPrice(p, [products[p] EXCEPT !.price = slots[k].price])
      /\ Finish(k)
      /\ UNCHANGED orders

\* Mutant: items lose their product.
NothingRefersTo(p) == TRUE

\* The foreign key of the items.
Unordered(p) ==
    \A i \in DOMAIN orders : \A j \in DOMAIN orders[i].items :
      orders[i].items[j].product # p

DeleteWrite(k) ==
    LET p == slots[k].product IN
      /\ Doing(k, "delete")
      /\ Listed(p)
      /\ Unordered(p)
      /\ products' = [products EXCEPT ![p] = Deleted]
      /\ Finish(k)
      /\ UNCHANGED <<orders, priced>>

--------------------------------------------------------------------------------
\* Mutant: any product of the restaurant, whatever tenant the order is for.
OnTheMenuOfAny(p, r, t) == Listed(p) /\ products[p].restaurant = r

\* What the transaction's first query finds: products of the restaurant, if the
\* restaurant is of the tenant.  Customers name both.
OnTheMenu(p, r, t) == Listed(p) /\ products[p].restaurant = r /\ TenantOf(p) = t

\* OrdersService.create up to its first write.  With a line whose product was
\* not found, the sum throws, the error is swallowed, and nothing is written.
CheckoutRead(k, r, t, lines) ==
    /\ \A i \in DOMAIN lines : OnTheMenu(lines[i].product, r, t)
    /\ Hold(k, [op |-> "create", restaurant |-> r, tenant |-> t, lines |-> lines,
                products |-> [p \in Product |->
                   IF \E i \in DOMAIN lines : lines[i].product = p THEN products[p]
                   ELSE NoProduct]])
    /\ UNCHANGED <<products, orders, priced>>

\* Mutant: a product that is named twice is charged once.
SubtotalOfDistinct(c) ==
    FoldSet(LAMBDA l, sum : sum + c.products[l.product].price * l.quantity,
            0, ToSet(c.lines))

Subtotal(c) ==
    FoldLeft(LAMBDA sum, l : sum + c.products[l.product].price * l.quantity,
             0, c.lines)

\* Mutant: the items are written at the prices of the moment.
PriceNow(c, p) == products[p].price

PriceRead(c, p) == c.products[p].price

\* The order and its items, at the prices read.
OrderOf(c) ==
    LET subtotal == 10 * Subtotal(c) IN
      [restaurant |-> c.restaurant, tenant |-> c.tenant,
       items |-> [i \in DOMAIN c.lines |->
                    [product |-> c.lines[i].product, quantity |-> c.lines[i].quantity,
                     priceAtPurchase |-> PriceRead(c, c.lines[i].product)]],
       subtotal |-> subtotal, total |-> subtotal + subtotal \div 10]

\* The rest of the transaction: the foreign key wants every product there.
CheckoutCommit(k) ==
    /\ Doing(k, "create")
    /\ Len(orders) < MaxOrders
    /\ \A i \in DOMAIN slots[k].lines : Listed(slots[k].lines[i].product)
    /\ orders' = Append(orders, OrderOf(slots[k]))
    /\ Finish(k)
    /\ UNCHANGED <<products, priced>>

\* A write is refused, or fails: nothing of it is left.
RequestFails(k) ==
    /\ slots[k] # Idle
    /\ Finish(k)
    /\ UNCHANGED <<products, orders, priced>>

Next ==
    \/ \E p \in Product, r \in Restaurant, price \in Price : CreateProduct(p, r, price)
    \/ \E k \in Slot :
         \/ \E t \in Tenant, p \in Product :
              DeleteFind(k, t, p) \/ \E price \in Price : UpdateFind(k, t, p, price)
         \/ UpdateWrite(k)
         \/ DeleteWrite(k)
         \/ \E r \in Restaurant, t \in Tenant, lines \in BoundedSeq(Line, MaxLines) :
              CheckoutRead(k, r, t, lines)
         \/ CheckoutCommit(k)
         \/ RequestFails(k)

Spec == Init /\ [][Next]_vars
================================================================================
