-------------------------------- MODULE Catalog --------------------------------
(***************************************************************************)
(* How administrators edit products and activities: service/product.go and  *)
(* service/activity.go over dao/product.go and dao/activity.go, next to the *)
(* transactions of orders.  Each edit is one one-shot call of an admin      *)
(* route; a step is one call of the Repository, so what a call read may be  *)
(* stale when it writes.                                                    *)
(*                                                                         *)
(* gorm's Save(&row) updates every column of the row.  When the row is gone *)
(* it inserts it again; and since the activity was read with                *)
(* Preload("Product"), it first inserts that product unless it has a row.   *)
(* AutoMigrate made seckill_activities.product_id a foreign key.            *)
(*                                                                         *)
(* Names, prices, times and the status of an activity are left out.  A call *)
(* that changes product_id, or enters a negative stock or an allocation of  *)
(* zero, is refused at once.                                                *)
(***************************************************************************)
EXTENDS StockUnits

CONSTANTS
  Editors,     \* calls of administrators, each handled by one goroutine
  Listed,      \* products and activities with a row in the beginning
  Stocks,      \* stock values that administrators enter for products
  Allocations, \* stock values that administrators enter for activities
  Quantities,  \* quantities of ordinary orders
  MaxErrors,   \* MySQL errors in a behaviour
  NoOp,        \* the operation of a call that has not arrived
  NoCopy       \* the call has not read an activity

ASSUME CatalogAssumption ==
  /\ Listed \subseteq Products \cup Activities
  /\ \A a \in Activities \cap Listed : ProductOf[a] \in Listed
  /\ Stocks \subseteq Nat
  /\ Allocations \subseteq Nat \ {0}
  /\ Quantities \subseteq Nat \ {0}
  /\ MaxErrors \in Nat

VARIABLES
  total,   \* seckill_activities.total_stock
  used,    \* ids that AUTO_INCREMENT has given out
  pc,      \* where a call is, or how it was answered
  op,      \* what a call under way asks for
  copy,    \* the activity row, with its product, that an update has read
  errors   \* MySQL errors so far

storeVars == <<orderVars, total, used>>
vars == <<storeVars, pc, op, copy, errors>>

CreateProductOp  == [kind : {"create_product"}, stock : Stocks, sale : BOOLEAN]
UpdateProductOp  == [kind : {"update_product"}, target : Products,
                     stock : Stocks, sale : BOOLEAN]
CreateActivityOp == [kind : {"create_activity"}, product : Products, stock : Allocations]
UpdateActivityOp == [kind : {"update_activity"}, target : Activities, stock : Allocations]
DeleteOp         == [kind : {"delete"}, target : Products \cup Activities]
Op == CreateProductOp \cup UpdateProductOp \cup CreateActivityOp
        \cup UpdateActivityOp \cup DeleteOp

ActivityCopy == [total : Nat, available : Nat, stock : Nat, sale : BOOLEAN]

InProgress == {"get", "check", "insert", "save", "delete"}
\* 200 or 201; 404 or 400; 500
Answers == {"ok", "rejected", "error"}

Init ==
  /\ rows = Listed
  /\ stock = ProductStock
  /\ onSale = Products
  /\ available = TotalStock
  /\ orders = {}
  /\ total = TotalStock
  /\ used = Listed
  /\ pc = [c \in Editors |-> "idle"]
  /\ op = [c \in Editors |-> NoOp]
  /\ copy = [c \in Editors |-> NoCopy]
  /\ errors = 0

Goto(c, l) == pc' = [pc EXCEPT ![c] = l]

\* The handler answers and its variables are gone.
Answer(c, l) ==
  Goto(c, l) /\ op' = [op EXCEPT ![c] = NoOp] /\ copy' = [copy EXCEPT ![c] = NoCopy]

\* The statement at hand fails and the call answers 500.
Fail(c) == errors < MaxErrors /\ errors' = errors + 1 /\ Answer(c, "error")

Arrive(c) ==
  /\ pc[c] = "idle"
  /\ \E e \in Op :
       /\ op' = [op EXCEPT ![c] = e]
       /\ Goto(c, CASE e.kind = "create_product" -> "insert"
                    [] e.kind = "create_activity" -> "check"
                    [] OTHER -> "get")
  /\ UNCHANGED <<storeVars, copy, errors>>

-----------------------------------------------------------------------------
(* What a call reads and decides *)

SellsProduct(e) ==
  IF e.kind = "create_activity" THEN e.product ELSE ProductOf[e.target]

RowOf(a) ==
  [total |-> total[a], available |-> available[a],
   stock |-> stock[ProductOf[a]], sale |-> ProductOf[a] \in onSale]

\* ProductService.Get or ActivityService.Get, which every update and deletion
\* of an existing row begins with
Get(c) ==
  LET e == op[c]
  IN
  /\ pc[c] = "get"
  /\ \/ e.target \notin rows /\ Answer(c, "rejected") /\ UNCHANGED errors
     \/ /\ e.target \in rows
        /\ e.kind = "update_activity"
        /\ copy' = [copy EXCEPT ![c] = RowOf(e.target)]
        /\ Goto(c, "check")
        /\ UNCHANGED <<op, errors>>
     \/ /\ e.target \in rows
        /\ e.kind # "update_activity"
        /\ Goto(c, IF e.kind = "delete" THEN "delete" ELSE "save")
        /\ UNCHANGED <<op, copy, errors>>
     \/ Fail(c)
  /\ UNCHANGED storeVars

\* soldStock
Sold(c) ==
  IF op[c].kind = "create_activity" THEN 0 ELSE copy[c].total - copy[c].available

\* Faulty variant of Allowed: units already sold may be taken away
AllowedUnsold(c) ==
  LET p == SellsProduct(op[c])
  IN  p \in onSale /\ op[c].stock <= stock[p] + Sold(c)

\* The stock entered for an activity against its sales and its product
Allowed(c) ==
  LET p == SellsProduct(op[c])
  IN  p \in onSale /\ op[c].stock \in Sold(c) .. stock[p] + Sold(c)

\* FindProductByID and what follows it, of both ActivityService.Create and Update
Check(c) ==
  LET found == SellsProduct(op[c]) \in rows
  IN
  /\ pc[c] = "check"
  /\ \/ ~found /\ Answer(c, "rejected") /\ UNCHANGED errors
     \/ found /\ ~Allowed(c) /\ Answer(c, "rejected") /\ UNCHANGED errors
     \/ /\ found /\ Allowed(c)
        /\ Goto(c, IF op[c].kind = "create_activity" THEN "insert" ELSE "save")
        /\ UNCHANGED <<op, copy, errors>>
     \/ Fail(c)
  /\ UNCHANGED storeVars

-----------------------------------------------------------------------------
(* What a call writes *)

PutOnSale(p, sale) == onSale' = IF sale THEN onSale \cup {p} ELSE onSale \ {p}

InsertProduct(e) ==
  \E p \in Products \ used :
    /\ rows' = rows \cup {p}
    /\ used' = used \cup {p}
    /\ stock' = [stock EXCEPT ![p] = e.stock]
    /\ PutOnSale(p, e.sale)
    /\ UNCHANGED <<available, orders, total>>

\* The foreign key refuses an activity whose product is gone.
InsertActivity(e) ==
  \E a \in Activities \ used :
    /\ ProductOf[a] = e.product
    /\ e.product \in rows
    /\ rows' = rows \cup {a}
    /\ used' = used \cup {a}
    /\ available' = [available EXCEPT ![a] = e.stock]
    /\ total' = [total EXCEPT ![a] = e.stock]
    /\ UNCHANGED <<stock, onSale, orders>>

SaveProduct(e) ==
  /\ rows' = rows \cup {e.target}
  /\ stock' = [stock EXCEPT ![e.target] = e.stock]
  /\ PutOnSale(e.target, e.sale)
  /\ UNCHANGED <<available, orders, total, used>>

\* Faulty variants of SaveActivity: sold units become available again, and the
\* preloaded product is written back whole
SaveUnsold(c) ==
  LET e == op[c]
  IN  /\ rows' = rows \cup {e.target}
      /\ total' = [total EXCEPT ![e.target] = e.stock]
      /\ available' = [available EXCEPT ![e.target] = e.stock]
      /\ UNCHANGED <<stock, onSale, orders, used>>

SaveWithProduct(c) ==
  LET e == op[c]
      p == ProductOf[e.target]
  IN  /\ rows' = rows \cup {e.target, p}
      /\ total' = [total EXCEPT ![e.target] = e.stock]
      /\ available' = [available EXCEPT ![e.target] = e.stock - Sold(c)]
      /\ stock' = [stock EXCEPT ![p] = copy[c].stock]
      /\ PutOnSale(p, copy[c].sale)
      /\ UNCHANGED <<orders, used>>

SaveActivity(c) ==
  LET e == op[c]
      p == ProductOf[e.target]
  IN  /\ rows' = rows \cup {e.target, p}
      /\ total' = [total EXCEPT ![e.target] = e.stock]
      /\ available' = [available EXCEPT ![e.target] = e.stock - Sold(c)]
      /\ IF p \in rows
           THEN UNCHANGED <<stock, onSale>>
           ELSE stock' = [stock EXCEPT ![p] = copy[c].stock] /\ PutOnSale(p, copy[c].sale)
      /\ UNCHANGED <<orders, used>>

\* Faulty variant of DeleteProduct: no foreign key
DeleteAnyProduct(p) ==
  rows' = rows \ {p} /\ UNCHANGED <<stock, onSale, available, orders>>

DeleteProduct(p) ==
  /\ \A a \in Activities \cap rows : ProductOf[a] # p
  /\ rows' = rows \ {p}
  /\ UNCHANGED <<stock, onSale, available, orders>>

Write(c) ==
  LET e == op[c]
  IN  \/ pc[c] = "insert" /\ e.kind = "create_product" /\ InsertProduct(e)
      \/ pc[c] = "insert" /\ e.kind = "create_activity" /\ InsertActivity(e)
      \/ pc[c] = "save" /\ e.kind = "update_product" /\ SaveProduct(e)
      \/ pc[c] = "save" /\ e.kind = "update_activity" /\ SaveActivity(c)
      \/ /\ pc[c] = "delete"
         /\ \/ e.target \in Products /\ DeleteProduct(e.target)
            \/ e.target \in Activities /\ DeleteActivity(e.target)
         /\ UNCHANGED <<total, used>>

\* A foreign key that MySQL would break: the statement fails.
Refused(c) ==
  LET e == op[c]
  IN  \/ pc[c] = "insert" /\ e.kind = "create_activity" /\ e.product \notin rows
      \/ /\ pc[c] = "delete" /\ e.target \in Products
         /\ \E a \in Activities \cap rows : ProductOf[a] = e.target

\* The last statement of a call commits, commits and loses its reply, or fails.
Finish(c) ==
  \/ Write(c) /\ Answer(c, "ok") /\ UNCHANGED errors
  \/ Write(c) /\ Fail(c)
  \/ Refused(c) /\ Answer(c, "error") /\ UNCHANGED <<storeVars, errors>>
  \/ pc[c] \in {"insert", "save", "delete"} /\ Fail(c) /\ UNCHANGED storeVars

-----------------------------------------------------------------------------
(* Orders that commit, are paid or are cancelled in the meantime; their     *)
(* calls have checked the product's status and the activity's times before. *)

OrderTraffic ==
  /\ \/ \E u \in Users, r \in Requests :
          \/ \E a \in Activities : CreateSeckillOrder(SeckillOrder(u, a, r))
          \/ \E p \in Products, q \in Quantities :
               CreateProductOrder(ProductOrder(u, p, r, q))
     \/ \E o \in orders : \/ UpdateOrderStatus(o, "PENDING", "PAID")
                         \/ CancelOrderAndRestoreStock(o)
  /\ UNCHANGED <<total, used, pc, op, copy, errors>>

Next ==
  \/ \E c \in Editors : Arrive(c) \/ Get(c) \/ Check(c) \/ Finish(c)
  \/ OrderTraffic

Spec == Init /\ [][Next]_vars

-----------------------------------------------------------------------------
(* Properties *)

TypeOK ==
  /\ OrdersTypeOK
  /\ total \in [Activities -> Nat]
  /\ used \in SUBSET (Products \cup Activities)
  /\ pc \in [Editors -> {"idle"} \cup InProgress \cup Answers]
  /\ op \in [Editors -> Op \cup {NoOp}]
  /\ copy \in [Editors -> ActivityCopy \cup {NoCopy}]
  /\ errors \in 0 .. MaxErrors

\* How far the two stock counters of an activity are from its live orders
Drift(a) == available[a] + Cardinality(LiveOrders(a)) - total[a]

Saves(c, x) ==
  pc[c] = "save" /\ op[c].target = x /\ pc'[c] \in {"ok", "error"}

\* The counters of an activity and its live orders part only through an update
\* that overwrites what an order, a cancellation, an edit or a deletion has
\* changed since it read the row; any other interleaving of edits and orders
\* keeps them together (soldStock in ActivityService.Update).
DriftNeedsStaleSave ==
  [][\A a \in Activities \cap rows' :
       \/ a \in rows /\ Drift(a)' = Drift(a)
       \/ a \notin used /\ Drift(a)' = 0
       \/ \E c \in Editors :
            /\ Saves(c, a)
            /\ \/ a \notin rows
               \/ copy[c].total # total[a]
               \/ copy[c].available # available[a]]_vars

\* What a product has in stock and in live orders changes only by an edit of
\* that product: no edit of an activity gives back or takes the product's units,
\* although each saves the product it had preloaded (Repository.UpdateActivity).
ProductStockIsTheProducts ==
  [][\A p \in Products \cap rows \cap rows' :
       \/ stock'[p] + LiveUnits(p)' = stock[p] + LiveUnits(p)
       \/ \E c \in Editors : Saves(c, p)]_vars

\* Whatever administrators delete and save again, an activity that buyers see
\* has its product (FindActivityByID preloads it, and the order transactions
\* take a unit of it).
ActivitiesHaveProducts ==
  \A a \in Activities \cap rows : ProductOf[a] \in rows

=============================================================================
