------------------------------ MODULE OrderStore ------------------------------
(***************************************************************************)
(* The MySQL tables products, seckill_activities and orders as dao/order.go *)
(* uses them.  Every operation below is one committed MySQL transaction;    *)
(* its conditional UPDATEs take row locks, so a transaction is one atomic   *)
(* step and a failed one changes nothing.                                   *)
(*                                                                         *)
(* Names, prices, order numbers and timestamps are left out: no statement   *)
(* of the transactions reads them.  An order is identified by its           *)
(* request_id, on which the table has a unique index, and order_type is     *)
(* SECKILL exactly when the order has an activity.                          *)
(***************************************************************************)
EXTENDS ShopDomain, Integers, FiniteSets

CONSTANTS
  Products,      \* products
  ProductOf,     \* the product an activity sells (seckill_activities.product_id)
  TotalStock,    \* seckill_activities.total_stock
  ProductStock,  \* products.stock before the first order
  NoActivity     \* the NULL activity_id of a normal order

ASSUME StoreAssumption ==
  /\ ProductOf \in [Activities -> Products]
  /\ TotalStock \in [Activities -> Nat]
  /\ ProductStock \in [Products -> Nat]
  /\ NoActivity \notin Activities
  /\ Products \cap Activities = {}

VARIABLES
  rows,       \* products and activities that have a row
  stock,      \* products.stock
  onSale,     \* products whose status is ON_SALE
  available,  \* seckill_activities.available_stock
  orders      \* rows of table orders

orderVars == <<rows, stock, onSale, available, orders>>

OrderStatus == {"PENDING", "PAID", "CANCELLED"}

Order == [request  : Requests,
          user     : Users,
          activity : Activities \cup {NoActivity},
          product  : Products,
          quantity : Nat \ {0},
          status   : OrderStatus]

OrdersTypeOK ==
  /\ rows \in SUBSET (Products \cup Activities)
  /\ stock \in [Products -> Nat]
  /\ onSale \in SUBSET Products
  /\ available \in [Activities -> Nat]
  /\ orders \in SUBSET Order
  /\ IsFiniteSet(orders)

OrdersInit ==
  /\ rows = Products \cup Activities
  /\ stock = ProductStock
  /\ onSale = Products
  /\ available = TotalStock
  /\ orders = {}

-----------------------------------------------------------------------------
(* Rows the services build *)

SeckillOrder(u, a, r) ==
  [request |-> r, user |-> u, activity |-> a, product |-> ProductOf[a],
   quantity |-> 1, status |-> "PENDING"]

ProductOrder(u, p, r, q) ==
  [request |-> r, user |-> u, activity |-> NoActivity, product |-> p,
   quantity |-> q, status |-> "PENDING"]

-----------------------------------------------------------------------------
(* Queries *)

OrderedBy(r) == \E o \in orders : o.request = r

BoughtBy(u, a) == \E o \in orders : o.user = u /\ o.activity = a

\* Faulty variant of Duplicate: no unique index on (user_id, activity_id)
DuplicateRequest(o) == OrderedBy(o.request)

\* The unique indexes an INSERT of o would violate: request_id, and
\* (user_id, activity_id), where MySQL lets any number of NULLs coexist.
Duplicate(o) ==
  \/ OrderedBy(o.request)
  \/ o.activity # NoActivity /\ BoughtBy(o.user, o.activity)

-----------------------------------------------------------------------------
(* Transactions *)

SeckillAffordable(o) ==
  /\ {o.activity, o.product} \subseteq rows
  /\ available[o.activity] > 0
  /\ stock[o.product] >= o.quantity

CreateSeckillOrder(o) ==
  /\ SeckillAffordable(o)
  /\ ~Duplicate(o)
  /\ available' = [available EXCEPT ![o.activity] = @ - 1]
  /\ stock' = [stock EXCEPT ![o.product] = @ - o.quantity]
  /\ orders' = orders \cup {o}
  /\ UNCHANGED <<rows, onSale>>

\* The transaction rolls back: a conditional UPDATE matched no row, or the
\* INSERT met a unique index.
SeckillOrderFails(o) ==
  /\ ~SeckillAffordable(o) \/ Duplicate(o)
  /\ UNCHANGED orderVars

\* Faulty variant of ProductAffordable: the UPDATE does not check the stock
ProductOnSale(o) == o.product \in rows \cap onSale

ProductAffordable(o) ==
  o.product \in rows \cap onSale /\ stock[o.product] >= o.quantity

CreateProductOrder(o) ==
  /\ ProductAffordable(o)
  /\ ~Duplicate(o)
  /\ stock' = [stock EXCEPT ![o.product] = @ - o.quantity]
  /\ orders' = orders \cup {o}
  /\ UNCHANGED <<rows, onSale, available>>

SetStatus(o, to) == orders' = (orders \ {o}) \cup {[o EXCEPT !.status = to]}

\* Faulty variant of UpdateOrderStatus: no WHERE status = from
SetAnyStatus(o, from, to) ==
  o \in orders /\ SetStatus(o, to) /\ UNCHANGED <<rows, stock, onSale, available>>

UpdateOrderStatus(o, from, to) ==
  /\ o \in orders
  /\ o.status = from
  /\ SetStatus(o, to)
  /\ UNCHANGED <<rows, stock, onSale, available>>

\* UPDATE ... SET f = f + n WHERE id = x, which may match no row
Returned(f, x, n) ==
  [y \in DOMAIN f |-> f[y] + IF y = x /\ y \in rows THEN n ELSE 0]

\* Faulty variant of CancelOrderAndRestoreStock: it cancels in any status
CancelAnyStatus(o) ==
  /\ o \in orders
  /\ SetStatus(o, "CANCELLED")
  /\ stock' = Returned(stock, o.product, o.quantity)
  /\ available' = Returned(available, o.activity, o.quantity)
  /\ UNCHANGED <<rows, onSale>>

CancelOrderAndRestoreStock(o) ==
  /\ o \in orders
  /\ o.status = "PENDING"
  /\ SetStatus(o, "CANCELLED")
  /\ stock' = Returned(stock, o.product, o.quantity)
  /\ available' = Returned(available, o.activity, o.quantity)
  /\ UNCHANGED <<rows, onSale>>

\* DELETE FROM seckill_activities: orders of the activity stay.
DeleteActivity(a) ==
  rows' = rows \ {a} /\ UNCHANGED <<stock, onSale, available, orders>>

-----------------------------------------------------------------------------
(* Every committed write of table orders, whoever issues it, and deletions *)

OrdersNext ==
  \/ \E u \in Users, r \in Requests :
       \/ \E a \in Activities : CreateSeckillOrder(SeckillOrder(u, a, r))
       \/ \E p \in Products, q \in Nat \ {0} :
            CreateProductOrder(ProductOrder(u, p, r, q))
  \/ \E o \in orders :
       UpdateOrderStatus(o, "PENDING", "PAID") \/ CancelOrderAndRestoreStock(o)
  \/ \E a \in Activities : DeleteActivity(a)

LiveOrders(a) == {o \in orders : o.activity = a /\ o.status # "CANCELLED"}

\* The activity stock in MySQL and the live orders of the activity add up to
\* its total stock, whatever fails, repeats or is redelivered: no path of the
\* worker, the synchronous endpoint or a cancellation oversells or leaks a unit
\* (dao.CreateSeckillOrder and dao.CancelOrderAndRestoreStock as the last guard).
StockConserved ==
  \A a \in Activities \cap rows :
    available[a] + Cardinality(LiveOrders(a)) = TotalStock[a]

\* Redelivery, a replayed request, an expired key or a wiped Redis never give
\* a buyer a second order of an activity, nor a request id a second order
\* (the unique indexes of model.Order).
OneOrder ==
  \A o, p \in orders :
    \/ o.request = p.request
    \/ o.activity # NoActivity /\ o.activity = p.activity /\ o.user = p.user
    => o = p

=============================================================================
