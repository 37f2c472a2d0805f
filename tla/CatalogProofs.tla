----------------------------- MODULE CatalogProofs -----------------------------
(***************************************************************************)
(* What edits of the catalogue and orders keep between them, for any number *)
(* of administrators, rows, orders and MySQL errors.                        *)
(***************************************************************************)
EXTENDS Catalog, StockUnitsProofs

\* Every statement belongs to an operation that issues it.
StepsOK ==
  \A c \in Editors :
    /\ pc[c] = "get" => op[c] \in UpdateProductOp \cup UpdateActivityOp \cup DeleteOp
    /\ pc[c] = "check" => op[c] \in CreateActivityOp \cup UpdateActivityOp
    /\ pc[c] = "insert" => op[c] \in CreateProductOp \cup CreateActivityOp
    /\ pc[c] = "save" => op[c] \in UpdateProductOp \cup UpdateActivityOp
    /\ pc[c] = "delete" => op[c] \in DeleteOp

\* An update has read the row it saves, which had an id; what it enters covers
\* the sales of the row it read.
CopiesOK ==
  \A c \in Editors :
    /\ pc[c] \in {"check", "save"} /\ op[c] \in UpdateActivityOp =>
         copy[c] \in ActivityCopy /\ op[c].target \in used
    /\ pc[c] = "save" => op[c].target \in used
    /\ pc[c] = "save" /\ op[c] \in UpdateActivityOp => Sold(c) <= op[c].stock

\* Ids stay used: of rows, of the products of activities and of activities with
\* orders, whether or not they still have a row.
UsedOK ==
  /\ rows \subseteq used
  /\ \A a \in Activities \cap used : ProductOf[a] \in used
  /\ \A o \in orders : o.activity # NoActivity => o.activity \in used

StoreTypeOK ==
  /\ OrdersTypeOK
  /\ total \in [Activities -> Nat]
  /\ used \in SUBSET (Products \cup Activities)

CallsTypeOK ==
  /\ pc \in [Editors -> {"idle"} \cup InProgress \cup Answers]
  /\ op \in [Editors -> Op \cup {NoOp}]
  /\ copy \in [Editors -> ActivityCopy \cup {NoCopy}]
  /\ errors \in 0 .. MaxErrors

CallsOK == CallsTypeOK /\ StepsOK /\ CopiesOK

StoreOK == StoreTypeOK /\ TablesInv /\ UsedOK /\ ActivitiesHaveProducts

CatalogInv == CallsOK /\ StoreOK

-----------------------------------------------------------------------------
(* Steps *)

LEMMA OpKinds ==
  /\ \A e \in CreateProductOp : e.kind = "create_product" /\ e.stock \in Nat /\ e.sale \in BOOLEAN
  /\ \A e \in UpdateProductOp : /\ e.kind = "update_product" /\ e.target \in Products
                                /\ e.stock \in Nat /\ e.sale \in BOOLEAN
  /\ \A e \in CreateActivityOp : /\ e.kind = "create_activity" /\ e.product \in Products
                                 /\ e.stock \in Nat
  /\ \A e \in UpdateActivityOp : /\ e.kind = "update_activity" /\ e.target \in Activities
                                 /\ e.stock \in Nat
  /\ \A e \in DeleteOp : e.kind = "delete" /\ e.target \in Products \cup Activities
BY CatalogAssumption
   DEF CreateProductOp, UpdateProductOp, CreateActivityOp, UpdateActivityOp, DeleteOp

\* A call writes once, and is answered.
Writes(c) == pc[c] \in InProgress /\ Write(c) /\ \E l \in {"ok", "error"} : Answer(c, l)
Reads(c) == (Get(c) \/ Check(c)) /\ UNCHANGED storeVars
Answered(c) ==
  pc[c] \in InProgress /\ Answer(c, "error") /\ UNCHANGED storeVars

LEMMA NextSteps ==
  ASSUME CallsTypeOK, [Next]_vars
  PROVE  /\ errors' \in 0 .. MaxErrors
         /\ \/ \E c \in Editors : Arrive(c) \/ Reads(c) \/ Writes(c) \/ Answered(c)
            \/ OrderTraffic
            \/ UNCHANGED vars
<1>0. errors \in 0 .. MaxErrors /\ MaxErrors \in Nat
  BY CatalogAssumption DEF CallsTypeOK
<1>1. ASSUME NEW c \in Editors, Finish(c)
      PROVE  /\ Writes(c) \/ Answered(c)
             /\ errors' = errors \/ (errors < MaxErrors /\ errors' = errors + 1)
  <2>1. Write(c) \/ Refused(c) \/ pc[c] \in {"insert", "save", "delete"} => pc[c] \in InProgress
    BY DEF Write, Refused, InProgress
  <2> QED
    BY <1>1, <2>1 DEF Finish, Writes, Answered, Fail
<1>2. ASSUME NEW c \in Editors, Get(c) \/ Check(c)
      PROVE  /\ Reads(c)
             /\ errors' = errors \/ (errors < MaxErrors /\ errors' = errors + 1)
  BY <1>2 DEF Get, Check, Reads, Fail
<1>3. errors' = errors \/ (errors < MaxErrors /\ errors' = errors + 1)
  BY <1>1, <1>2 DEF Next, Arrive, OrderTraffic, vars
<1>4. errors' \in 0 .. MaxErrors
  BY <1>0, <1>3
<1> QED
  BY <1>1, <1>2, <1>4 DEF Next

\* The five ways to write
LEMMA WriteSteps ==
  ASSUME StepsOK, NEW c \in Editors, Writes(c)
  PROVE  \/ op[c] \in CreateProductOp /\ InsertProduct(op[c])
         \/ op[c] \in CreateActivityOp /\ InsertActivity(op[c])
         \/ pc[c] = "save" /\ op[c] \in UpdateProductOp /\ SaveProduct(op[c])
         \/ pc[c] = "save" /\ op[c] \in UpdateActivityOp /\ SaveActivity(c)
         \/ /\ \/ op[c].target \in Products /\ DeleteProduct(op[c].target)
               \/ op[c].target \in Activities /\ DeleteActivity(op[c].target)
            /\ UNCHANGED <<total, used>>
<1>1. Write(c)
  BY DEF Writes
<1>2. CASE pc[c] = "insert"
  <2>1. op[c] \in CreateProductOp \cup CreateActivityOp
    BY <1>2 DEF StepsOK
  <2> QED
    BY <1>1, <1>2, <2>1, OpKinds DEF Write
<1>3. CASE pc[c] = "save"
  <2>1. op[c] \in UpdateProductOp \cup UpdateActivityOp
    BY <1>3 DEF StepsOK
  <2> QED
    BY <1>1, <1>3, <2>1, OpKinds DEF Write
<1>4. CASE pc[c] = "delete"
  BY <1>1, <1>4 DEF Write
<1> QED
  BY <1>1, <1>2, <1>3, <1>4 DEF Write

\* What a call leaves to the others
LEMMA AnswerIs ==
  ASSUME CallsTypeOK, NEW c \in Editors, NEW l, Answer(c, l)
  PROVE  /\ pc' = [pc EXCEPT ![c] = l] /\ op' = [op EXCEPT ![c] = NoOp]
         /\ copy' = [copy EXCEPT ![c] = NoCopy]
         /\ pc'[c] = l
         /\ \A d \in Editors : d # c => pc'[d] = pc[d] /\ op'[d] = op[d] /\ copy'[d] = copy[d]
BY DEF CallsTypeOK, Answer, Goto

-----------------------------------------------------------------------------
(* The tables *)

LEMMA InsertProductKeeps ==
  ASSUME StoreOK, NEW e \in CreateProductOp, InsertProduct(e)
  PROVE  StoreOK' /\ used \subseteq used'
<1>1. PICK p \in Products \ used :
        /\ rows' = rows \cup {p} /\ used' = used \cup {p}
        /\ stock' = [stock EXCEPT ![p] = e.stock] /\ PutOnSale(p, e.sale)
        /\ UNCHANGED <<available, orders, total>>
  BY DEF InsertProduct
<1>2. StoreTypeOK'
  BY <1>1, OpKinds DEF StoreOK, StoreTypeOK, OrdersTypeOK, PutOnSale
<1>3. OneUnitEach' /\ OneOrder'
  BY <1>1 DEF StoreOK, TablesInv, OneUnitEach, OneOrder
<1>4. UsedOK' /\ ActivitiesHaveProducts'
  BY <1>1, StoreAssumption DEF StoreOK, UsedOK, ActivitiesHaveProducts
<1> QED
  BY <1>1, <1>2, <1>3, <1>4 DEF StoreOK, StoreTypeOK, TablesInv

LEMMA InsertActivityKeeps ==
  ASSUME StoreOK, NEW e \in CreateActivityOp, InsertActivity(e)
  PROVE  StoreOK' /\ used \subseteq used'
<1>1. PICK a \in Activities \ used :
        /\ ProductOf[a] = e.product /\ e.product \in rows
        /\ rows' = rows \cup {a} /\ used' = used \cup {a}
        /\ available' = [available EXCEPT ![a] = e.stock]
        /\ total' = [total EXCEPT ![a] = e.stock]
        /\ UNCHANGED <<stock, onSale, orders>>
  BY DEF InsertActivity
<1>2. StoreTypeOK'
  BY <1>1, OpKinds DEF StoreOK, StoreTypeOK, OrdersTypeOK
<1>3. OneUnitEach' /\ OneOrder'
  BY <1>1 DEF StoreOK, TablesInv, OneUnitEach, OneOrder
<1>4. UsedOK' /\ ActivitiesHaveProducts'
  BY <1>1, StoreAssumption DEF StoreOK, UsedOK, ActivitiesHaveProducts
<1> QED
  BY <1>1, <1>2, <1>3, <1>4 DEF StoreOK, StoreTypeOK, TablesInv

LEMMA SaveProductKeeps ==
  ASSUME StoreOK, NEW e \in UpdateProductOp, e.target \in used, SaveProduct(e)
  PROVE  StoreOK' /\ used \subseteq used'
<1>1. /\ rows' = rows \cup {e.target}
      /\ stock' = [stock EXCEPT ![e.target] = e.stock]
      /\ PutOnSale(e.target, e.sale)
      /\ UNCHANGED <<available, orders, total, used>>
  BY DEF SaveProduct
<1>2. StoreTypeOK'
  BY <1>1, OpKinds DEF StoreOK, StoreTypeOK, OrdersTypeOK, PutOnSale
<1>3. OneUnitEach' /\ OneOrder'
  BY <1>1 DEF StoreOK, TablesInv, OneUnitEach, OneOrder
<1>4. UsedOK' /\ ActivitiesHaveProducts'
  BY <1>1, OpKinds, StoreAssumption DEF StoreOK, UsedOK, ActivitiesHaveProducts
<1> QED
  BY <1>1, <1>2, <1>3, <1>4 DEF StoreOK, StoreTypeOK, TablesInv

\* An update gives its activity the stock entered, less the sales of the row it
\* had read.
SavedAs(c, a) ==
  /\ a \in Activities /\ ProductOf[a] \in Products
  /\ op[c].stock \in Nat /\ Sold(c) \in Int
  /\ Sold(c) = copy[c].total - copy[c].available
  /\ op[c].stock - Sold(c) \in Nat
  /\ rows' = rows \cup {a, ProductOf[a]}
  /\ total' = [total EXCEPT ![a] = op[c].stock]
  /\ available' = [available EXCEPT ![a] = op[c].stock - Sold(c)]
  /\ stock' \in [Products -> Nat] /\ onSale' \in SUBSET Products
  /\ \A p \in Products \cap rows : stock'[p] = stock[p]
  /\ UNCHANGED <<orders, used>>

LEMMA SaveActivityIs ==
  ASSUME StoreOK, CallsOK, NEW c \in Editors, pc[c] = "save", op[c] \in UpdateActivityOp,
         SaveActivity(c)
  PROVE  SavedAs(c, op[c].target) /\ op[c].target \in used
<1> DEFINE e == op[c]
           p == ProductOf[e.target]
<1>1. /\ e.target \in Activities /\ e.stock \in Nat /\ p \in Products
      /\ e.kind = "update_activity"
  BY OpKinds, StoreAssumption
<1>2. /\ copy[c].total \in Nat /\ copy[c].available \in Nat /\ copy[c].stock \in Nat
      /\ copy[c].sale \in BOOLEAN /\ e.target \in used /\ Sold(c) <= e.stock
  BY DEF CallsOK, CopiesOK, ActivityCopy
<1>3. Sold(c) = copy[c].total - copy[c].available
  BY <1>1 DEF Sold
<1>4. Sold(c) \in Int /\ e.stock - Sold(c) \in Nat
  BY <1>1, <1>2, <1>3
<1>5. /\ rows' = rows \cup {e.target, p}
      /\ total' = [total EXCEPT ![e.target] = e.stock]
      /\ available' = [available EXCEPT ![e.target] = e.stock - Sold(c)]
      /\ \/ p \in rows /\ UNCHANGED <<stock, onSale>>
         \/ /\ p \notin rows
            /\ stock' = [stock EXCEPT ![p] = copy[c].stock] /\ PutOnSale(p, copy[c].sale)
      /\ UNCHANGED <<orders, used>>
  BY DEF SaveActivity
<1>6. /\ stock' \in [Products -> Nat] /\ onSale' \in SUBSET Products
      /\ \A x \in Products \cap rows : stock'[x] = stock[x]
  BY <1>1, <1>2, <1>5 DEF StoreOK, StoreTypeOK, OrdersTypeOK, PutOnSale
<1> QED
  BY <1>1, <1>2, <1>3, <1>4, <1>5, <1>6 DEF SavedAs

LEMMA SaveActivityKeeps ==
  ASSUME StoreOK, NEW c \in Editors, NEW a \in used, SavedAs(c, a)
  PROVE  StoreOK' /\ used \subseteq used'
<1>1. StoreTypeOK'
  BY DEF StoreOK, StoreTypeOK, OrdersTypeOK, SavedAs
<1>2. OneUnitEach' /\ OneOrder'
  BY DEF SavedAs, StoreOK, TablesInv, OneUnitEach, OneOrder
<1>3. UsedOK' /\ ActivitiesHaveProducts'
  BY StoreAssumption DEF SavedAs, StoreOK, UsedOK, ActivitiesHaveProducts
<1> QED
  BY <1>1, <1>2, <1>3 DEF StoreOK, StoreTypeOK, TablesInv, SavedAs

LEMMA DeleteKeeps ==
  ASSUME StoreOK, NEW x,
         \/ x \in Products /\ DeleteProduct(x)
         \/ x \in Activities /\ DeleteActivity(x),
         UNCHANGED <<total, used>>
  PROVE  StoreOK' /\ used \subseteq used'
<1>1. /\ rows' = rows \ {x} /\ UNCHANGED <<stock, onSale, available, orders, total, used>>
      /\ \A a \in Activities \cap rows' : ProductOf[a] # x
  BY StoreAssumption DEF DeleteProduct, DeleteActivity
<1>2. StoreTypeOK'
  BY <1>1 DEF StoreOK, StoreTypeOK, OrdersTypeOK
<1>3. OneUnitEach' /\ OneOrder'
  BY <1>1 DEF StoreOK, TablesInv, OneUnitEach, OneOrder
<1>4. UsedOK' /\ ActivitiesHaveProducts'
  BY <1>1 DEF StoreOK, UsedOK, ActivitiesHaveProducts
<1> QED
  BY <1>1, <1>2, <1>3, <1>4 DEF StoreOK, StoreTypeOK, TablesInv

\* Orders commit for activities that have a row, and touch no other column.
LEMMA TrafficIs ==
  ASSUME StoreOK, OrderTraffic
  PROVE  /\ OrdersNext /\ UNCHANGED <<rows, total, used, pc, op, copy, errors>>
         /\ \A o \in orders' : o.activity = NoActivity \/ o.activity \in used
<1>1. OrdersNext /\ UNCHANGED <<rows, total, used, pc, op, copy, errors>>
  BY CatalogAssumption
     DEF OrderTraffic, OrdersNext, CreateSeckillOrder, CreateProductOrder,
         UpdateOrderStatus, CancelOrderAndRestoreStock
<1>2. \/ \E o : orders' = orders \cup {o} /\ (o.activity = NoActivity \/ o.activity \in rows)
      \/ \E o \in orders, to \in {"PAID", "CANCELLED"} :
           orders' = (orders \ {o}) \cup {[o EXCEPT !.status = to]}
  <2>1. ASSUME NEW u \in Users, NEW r \in Requests, NEW a \in Activities,
               CreateSeckillOrder(SeckillOrder(u, a, r))
        PROVE  orders' = orders \cup {SeckillOrder(u, a, r)} /\ a \in rows
               /\ SeckillOrder(u, a, r).activity = a
    BY <2>1 DEF CreateSeckillOrder, SeckillAffordable, SeckillOrder
  <2>2. ASSUME NEW u \in Users, NEW r \in Requests, NEW p \in Products,
               NEW q \in Quantities, CreateProductOrder(ProductOrder(u, p, r, q))
        PROVE  orders' = orders \cup {ProductOrder(u, p, r, q)}
               /\ ProductOrder(u, p, r, q).activity = NoActivity
    BY <2>2 DEF CreateProductOrder, ProductOrder
  <2>3. ASSUME NEW o \in orders,
               UpdateOrderStatus(o, "PENDING", "PAID") \/ CancelOrderAndRestoreStock(o)
        PROVE  \E to \in {"PAID", "CANCELLED"} :
                 orders' = (orders \ {o}) \cup {[o EXCEPT !.status = to]}
    BY <2>3 DEF UpdateOrderStatus, CancelOrderAndRestoreStock, SetStatus
  <2> QED
    BY <2>1, <2>2, <2>3 DEF OrderTraffic
<1>3. \A o \in orders, to \in {"PAID", "CANCELLED"} :
        [o EXCEPT !.status = to].activity = o.activity
  BY DEF StoreOK, StoreTypeOK, OrdersTypeOK, Order
<1> QED
  BY <1>1, <1>2, <1>3 DEF StoreOK, UsedOK

LEMMA TrafficKeeps ==
  ASSUME StoreOK, OrderTraffic
  PROVE  StoreOK' /\ used' = used
<1>1. TablesInv' /\ UNCHANGED <<rows, total, used>>
  BY TrafficIs, TablesNextKeep DEF StoreOK
<1>2. UsedOK' /\ ActivitiesHaveProducts'
  BY <1>1, TrafficIs DEF StoreOK, UsedOK, ActivitiesHaveProducts
<1> QED
  BY <1>1, <1>2 DEF StoreOK, StoreTypeOK, TablesInv

LEMMA StoreStep ==
  ASSUME CallsOK, StoreOK, [Next]_vars
  PROVE  StoreOK' /\ used \subseteq used'
<1>1. ASSUME NEW c \in Editors, Writes(c)
      PROVE  StoreOK' /\ used \subseteq used'
  <2>1. CASE op[c] \in CreateProductOp /\ InsertProduct(op[c])
    BY <2>1, InsertProductKeeps
  <2>2. CASE op[c] \in CreateActivityOp /\ InsertActivity(op[c])
    BY <2>2, InsertActivityKeeps
  <2>3. CASE pc[c] = "save" /\ op[c] \in UpdateProductOp /\ SaveProduct(op[c])
    BY <2>3, SaveProductKeeps DEF CallsOK, CopiesOK
  <2>4. CASE pc[c] = "save" /\ op[c] \in UpdateActivityOp /\ SaveActivity(c)
    BY <2>4, SaveActivityIs, SaveActivityKeeps
  <2>5. CASE /\ \/ op[c].target \in Products /\ DeleteProduct(op[c].target)
                \/ op[c].target \in Activities /\ DeleteActivity(op[c].target)
             /\ UNCHANGED <<total, used>>
    BY <2>5, DeleteKeeps
  <2> QED
    BY <1>1, <2>1, <2>2, <2>3, <2>4, <2>5, WriteSteps DEF CallsOK
<1>2. ASSUME UNCHANGED storeVars
      PROVE  StoreOK' /\ used \subseteq used'
  BY <1>2 DEF storeVars, orderVars, StoreOK, StoreTypeOK, TablesInv, OrdersTypeOK, OneUnitEach,
     OneOrder, UsedOK, ActivitiesHaveProducts
<1>3. ASSUME NEW c \in Editors, Arrive(c) \/ Reads(c) \/ Answered(c)
      PROVE  UNCHANGED storeVars
  BY <1>3 DEF Arrive, Reads, Answered
<1>4. UNCHANGED vars => UNCHANGED storeVars
  BY DEF vars, storeVars
<1> QED
  BY <1>1, <1>2, <1>3, <1>4, NextSteps, TrafficKeeps DEF CallsOK

-----------------------------------------------------------------------------
(* The calls *)

\* A call that is answered owes nothing.
LEMMA AnswerKeeps ==
  ASSUME CallsOK, NEW c \in Editors, NEW l \in Answers, Answer(c, l),
         errors' \in 0 .. MaxErrors, used \subseteq used'
  PROVE  CallsOK'
<1>1. /\ pc' = [pc EXCEPT ![c] = l] /\ op' = [op EXCEPT ![c] = NoOp]
      /\ copy' = [copy EXCEPT ![c] = NoCopy] /\ pc'[c] = l
      /\ \A d \in Editors : d # c => pc'[d] = pc[d] /\ op'[d] = op[d] /\ copy'[d] = copy[d]
  BY AnswerIs DEF CallsOK
<1>2. CallsTypeOK'
  BY <1>1 DEF CallsOK, CallsTypeOK
<1>3. l \notin InProgress
  BY DEF Answers, InProgress
<1>4. StepsOK'
  BY <1>1, <1>3 DEF CallsOK, StepsOK, InProgress
<1>5. \A d \in Editors : d # c => Sold(d)' = Sold(d)
  BY <1>1 DEF Sold
<1>6. CopiesOK'
  BY <1>1, <1>3, <1>5 DEF CallsOK, CopiesOK, InProgress
<1> QED
  BY <1>2, <1>4, <1>6 DEF CallsOK

LEMMA ArriveKeeps ==
  ASSUME CallsOK, NEW c \in Editors, Arrive(c)
  PROVE  CallsOK'
<1>1. PICK e \in Op, l \in {"insert", "check", "get"} :
        /\ op' = [op EXCEPT ![c] = e] /\ pc' = [pc EXCEPT ![c] = l]
        /\ l = "insert" <=> e.kind = "create_product"
        /\ l = "check" <=> e.kind = "create_activity"
  BY DEF Arrive, Goto
<1>2. /\ op'[c] = e /\ pc'[c] = l /\ UNCHANGED <<copy, used, errors>>
      /\ \A d \in Editors : d # c => pc'[d] = pc[d] /\ op'[d] = op[d]
  BY <1>1 DEF Arrive, storeVars, CallsOK, CallsTypeOK
<1>3. CallsTypeOK'
  BY <1>1, <1>2 DEF CallsOK, CallsTypeOK, InProgress
<1>4. StepsOK'
  <2>1. /\ l = "insert" => e \in CreateProductOp
        /\ l = "check" => e \in CreateActivityOp
        /\ l = "get" => e \in UpdateProductOp \cup UpdateActivityOp \cup DeleteOp
    BY <1>1, OpKinds DEF Op
  <2> QED
    BY <1>2, <2>1 DEF CallsOK, StepsOK
<1>5. \A d \in Editors : d # c => Sold(d)' = Sold(d)
  BY <1>2 DEF Sold
<1>6. l = "check" => e \notin UpdateActivityOp
  BY <1>1, OpKinds
<1>7. CopiesOK'
  BY <1>2, <1>5, <1>6 DEF CallsOK, CopiesOK
<1> QED
  BY <1>3, <1>4, <1>7 DEF CallsOK

LEMMA ReadsKeep ==
  ASSUME CallsOK, StoreOK, NEW c \in Editors, Reads(c), errors' \in 0 .. MaxErrors
  PROVE  CallsOK'
<1>0. used' = used
  BY DEF Reads, storeVars
<1>1. CASE \E l \in Answers : Answer(c, l)
  BY <1>0, <1>1, AnswerKeeps
<1>2. CASE /\ pc[c] = "get" /\ op[c].target \in rows /\ op[c].kind = "update_activity"
           /\ copy' = [copy EXCEPT ![c] = RowOf(op[c].target)]
           /\ Goto(c, "check") /\ UNCHANGED op
  <2>1. op[c] \in UpdateActivityOp
    BY <1>2, OpKinds DEF CallsOK, StepsOK
  <2>2. op[c].target \in Activities /\ op[c].target \in used
    BY <1>2, <2>1, OpKinds DEF StoreOK, UsedOK
  <2>3. RowOf(op[c].target) \in ActivityCopy
    BY <2>2, StoreAssumption DEF RowOf, ActivityCopy, StoreOK, StoreTypeOK, OrdersTypeOK
  <2>4. /\ pc'[c] = "check" /\ copy'[c] = RowOf(op[c].target) /\ op' = op
        /\ \A d \in Editors : d # c => pc'[d] = pc[d] /\ copy'[d] = copy[d]
    BY <1>2 DEF Goto, CallsOK, CallsTypeOK
  <2>5. CallsTypeOK'
    BY <1>2, <2>3 DEF Goto, CallsOK, CallsTypeOK, InProgress
  <2>6. StepsOK'
    BY <2>1, <2>4 DEF CallsOK, StepsOK
  <2>7. \A d \in Editors : d # c => Sold(d)' = Sold(d)
    BY <2>4 DEF Sold
  <2>8. CopiesOK'
    BY <1>0, <2>2, <2>3, <2>4, <2>7 DEF CallsOK, CopiesOK
  <2> QED
    BY <2>5, <2>6, <2>8 DEF CallsOK
<1>3. CASE \E l \in {"delete", "save", "insert"} :
             /\ Goto(c, l) /\ UNCHANGED <<op, copy>>
             /\ l = "delete" => op[c] \in DeleteOp
             /\ l = "insert" => op[c] \in CreateActivityOp
             /\ l = "save" => /\ op[c] \in UpdateProductOp \cup UpdateActivityOp
                              /\ op[c].target \in used
                              /\ op[c] \in UpdateActivityOp =>
                                   copy[c] \in ActivityCopy /\ Sold(c) <= op[c].stock
  <2>1. PICK l \in {"delete", "save", "insert"} :
             /\ Goto(c, l) /\ UNCHANGED <<op, copy>>
             /\ l = "delete" => op[c] \in DeleteOp
             /\ l = "insert" => op[c] \in CreateActivityOp
             /\ l = "save" => /\ op[c] \in UpdateProductOp \cup UpdateActivityOp
                              /\ op[c].target \in used
                              /\ op[c] \in UpdateActivityOp =>
                                   copy[c] \in ActivityCopy /\ Sold(c) <= op[c].stock
    BY <1>3
  <2>2. pc'[c] = l /\ \A d \in Editors : d # c => pc'[d] = pc[d]
    BY <2>1 DEF Goto, CallsOK, CallsTypeOK
  <2>3. CallsTypeOK'
    BY <2>1 DEF Goto, CallsOK, CallsTypeOK, InProgress
  <2>4. StepsOK'
    BY <2>1, <2>2 DEF CallsOK, StepsOK
  <2>5. \A d \in Editors : Sold(d)' = Sold(d)
    BY <2>1 DEF Sold
  <2>6. CopiesOK'
    BY <1>0, <2>1, <2>2, <2>5 DEF CallsOK, CopiesOK
  <2> QED
    BY <2>3, <2>4, <2>6 DEF CallsOK
<1>4. CASE Get(c)
  <2>1. /\ pc[c] = "get"
        /\ op[c] \in UpdateProductOp \cup UpdateActivityOp \cup DeleteOp
    BY <1>4 DEF Get, CallsOK, StepsOK
  <2>2. op[c].target \in rows => op[c].target \in used
    BY DEF StoreOK, UsedOK
  <2>3. CASE op[c] \in UpdateActivityOp
    <3>1. op[c].kind = "update_activity"
      BY <2>3, OpKinds
    <3> QED
      BY <1>1, <1>2, <1>4, <2>1, <3>1 DEF Get, Fail, Answers
  <2>4. CASE op[c] \in UpdateProductOp
    <3>1. op[c].kind = "update_product" /\ op[c] \notin UpdateActivityOp
      BY <2>4, OpKinds
    <3> QED
      BY <1>1, <1>3, <1>4, <2>2, <2>4, <3>1 DEF Get, Fail, Answers
  <2>5. CASE op[c] \in DeleteOp
    <3>1. op[c].kind = "delete"
      BY <2>5, OpKinds
    <3> QED
      BY <1>1, <1>3, <1>4, <2>5, <3>1 DEF Get, Fail, Answers
  <2> QED
    BY <2>1, <2>3, <2>4, <2>5
<1>5. CASE Check(c)
  <2>1. pc[c] = "check" /\ op[c] \in CreateActivityOp \cup UpdateActivityOp
    BY <1>5 DEF Check, CallsOK, StepsOK
  <2>2. CASE op[c] \in CreateActivityOp
    <3>1. op[c].kind = "create_activity"
      BY <2>2, OpKinds
    <3> QED
      BY <1>1, <1>3, <1>5, <2>2, <3>1 DEF Check, Fail, Answers
  <2>3. CASE op[c] \in UpdateActivityOp
    <3>1. op[c].kind = "update_activity" /\ op[c].target \in used /\ copy[c] \in ActivityCopy
      BY <2>1, <2>3, OpKinds DEF CallsOK, CopiesOK
    <3>2. Allowed(c) => Sold(c) <= op[c].stock
      BY DEF Allowed
    <3> QED
      BY <1>1, <1>3, <1>5, <2>3, <3>1, <3>2 DEF Check, Fail, Answers
  <2> QED
    BY <2>1, <2>2, <2>3
<1> QED
  BY <1>4, <1>5 DEF Reads

LEMMA CallsStep ==
  ASSUME CallsOK, StoreOK, [Next]_vars
  PROVE  CallsOK'
<1>1. errors' \in 0 .. MaxErrors /\ used \subseteq used'
  BY NextSteps, StoreStep DEF CallsOK
<1>2. ASSUME NEW c \in Editors, Writes(c) \/ Answered(c)
      PROVE  CallsOK'
  <2>1. PICK l \in {"ok", "error"} : Answer(c, l)
    BY <1>2 DEF Writes, Answered
  <2> QED
    BY <1>1, <2>1, AnswerKeeps DEF Answers
<1>3. ASSUME UNCHANGED <<pc, op, copy, errors, used>>
      PROVE  CallsOK'
  BY <1>3 DEF CallsOK, CallsTypeOK, StepsOK, CopiesOK, Sold
<1>4. OrderTraffic => UNCHANGED <<pc, op, copy, errors, used>>
  BY DEF OrderTraffic
<1>5. UNCHANGED vars => UNCHANGED <<pc, op, copy, errors, used>>
  BY DEF vars, storeVars
<1> QED
  BY <1>1, <1>2, <1>3, <1>4, <1>5, NextSteps, ArriveKeeps, ReadsKeep DEF CallsOK

-----------------------------------------------------------------------------
(* What a step does to the counters of an activity and the units of a product *)

\* A call that writes is answered.
LEMMA SaveAnswers ==
  ASSUME CallsTypeOK, NEW c \in Editors, Writes(c), pc[c] = "save"
  PROVE  Saves(c, op[c].target)
BY AnswerIs DEF Writes, Saves

LEMMA DriftIs ==
  ASSUME StoreOK, NEW a \in Activities
  PROVE  /\ Cardinality(LiveOrders(a)) \in Nat /\ available[a] \in Nat /\ total[a] \in Nat
         /\ Drift(a) = Allotted(a) - total[a]
BY LiveOrdersFinite DEF StoreOK, StoreTypeOK, OrdersTypeOK, Drift, Allotted

DriftsOK == \A a \in Activities : Drift(a) = Allotted(a) - total[a]

LEMMA DriftsAre == StoreOK => DriftsOK
BY DriftIs DEF DriftsOK

LEMMA SaveDrifts ==
  ASSUME StoreOK, NEW c \in Editors, NEW x, SavedAs(c, x), Saves(c, x),
         NEW a \in Activities \cap rows'
  PROVE  \/ a \in rows /\ Drift(a)' = Drift(a)
         \/ /\ Saves(c, a)
            /\ \/ a \notin rows
               \/ copy[c].total # total[a]
               \/ copy[c].available # available[a]
<1>1. /\ Cardinality(LiveOrders(a)) \in Nat /\ available[a] \in Nat /\ total[a] \in Nat
      /\ Drift(a) = available[a] + Cardinality(LiveOrders(a)) - total[a]
  BY DriftIs DEF Drift
<1>2. LiveOrders(a)' = LiveOrders(a)
  BY DEF SavedAs, LiveOrders
<1>3. Drift(a)' = available'[a] + Cardinality(LiveOrders(a)) - total'[a]
  BY <1>2 DEF Drift
<1>4. available \in [Activities -> Nat] /\ total \in [Activities -> Nat]
  BY DEF StoreOK, StoreTypeOK, OrdersTypeOK
<1>5. CASE a # x
  <2>1. a \in rows /\ available'[a] = available[a] /\ total'[a] = total[a]
    BY <1>4, <1>5, StoreAssumption DEF SavedAs
  <2> QED
    BY <1>1, <1>3, <2>1
<1>6. CASE a = x /\ a \in rows /\ copy[c].total = total[a] /\ copy[c].available = available[a]
  <2>1. /\ available'[a] = op[c].stock - (total[a] - available[a])
        /\ total'[a] = op[c].stock /\ op[c].stock \in Nat
    BY <1>4, <1>6 DEF SavedAs
  <2> QED
    BY <1>1, <1>3, <1>6, <2>1
<1> QED
  BY <1>5, <1>6

LEMMA InsertDrifts ==
  ASSUME StoreOK, NEW e \in CreateActivityOp, InsertActivity(e),
         NEW a \in Activities \cap rows'
  PROVE  \/ a \in rows /\ Drift(a)' = Drift(a)
         \/ a \notin used /\ Drift(a)' = 0
<1>1. PICK x \in Activities \ used :
        /\ rows' = rows \cup {x}
        /\ available' = [available EXCEPT ![x] = e.stock]
        /\ total' = [total EXCEPT ![x] = e.stock]
        /\ orders' = orders
  BY DEF InsertActivity
<1>2. LiveOrders(a)' = LiveOrders(a)
  BY <1>1 DEF LiveOrders
<1>3. Drift(a)' = available'[a] + Cardinality(LiveOrders(a)) - total'[a]
  BY <1>2 DEF Drift
<1>4. /\ available \in [Activities -> Nat] /\ total \in [Activities -> Nat]
      /\ e.stock \in Nat
  BY OpKinds DEF StoreOK, StoreTypeOK, OrdersTypeOK
<1>5. CASE a # x
  BY <1>1, <1>3, <1>4, <1>5 DEF Drift
<1>6. CASE a = x
  <2>1. LiveOrders(a) = {}
    BY <1>1, <1>6, StoreAssumption DEF LiveOrders, StoreOK, UsedOK
  <2>2. Cardinality(LiveOrders(a)) = 0
    BY <2>1, FS_EmptySet
  <2> QED
    BY <1>1, <1>3, <1>4, <1>6, <2>2
<1> QED
  BY <1>5, <1>6

LEMMA StepDrifts ==
  ASSUME CatalogInv, [Next]_vars, NEW a \in Activities \cap rows'
  PROVE  \/ a \in rows /\ Drift(a)' = Drift(a)
         \/ a \notin used /\ Drift(a)' = 0
         \/ \E c \in Editors :
              /\ Saves(c, a)
              /\ \/ a \notin rows
                 \/ copy[c].total # total[a]
                 \/ copy[c].available # available[a]
<1>1. CallsOK /\ CallsTypeOK /\ StepsOK /\ StoreOK
  BY DEF CatalogInv, CallsOK
<1>2. ASSUME UNCHANGED <<available, orders, total>>,
             Activities \cap rows' \subseteq Activities \cap rows
      PROVE  a \in rows /\ Drift(a)' = Drift(a)
  BY <1>2 DEF Drift, LiveOrders
<1>3. ASSUME NEW c \in Editors, Writes(c)
      PROVE  \/ a \in rows /\ Drift(a)' = Drift(a)
             \/ a \notin used /\ Drift(a)' = 0
             \/ /\ Saves(c, a)
                /\ \/ a \notin rows
                   \/ copy[c].total # total[a]
                   \/ copy[c].available # available[a]
  <2>1. CASE op[c] \in CreateProductOp /\ InsertProduct(op[c])
    BY <1>2, <2>1, StoreAssumption DEF InsertProduct
  <2>2. CASE op[c] \in CreateActivityOp /\ InsertActivity(op[c])
    BY <1>1, <2>2, InsertDrifts
  <2>3. CASE pc[c] = "save" /\ op[c] \in UpdateProductOp /\ SaveProduct(op[c])
    BY <1>2, <2>3, OpKinds, StoreAssumption DEF SaveProduct
  <2>4. CASE pc[c] = "save" /\ op[c] \in UpdateActivityOp /\ SaveActivity(c)
    BY <1>1, <1>3, <2>4, SaveActivityIs, SaveAnswers, SaveDrifts
  <2>5. CASE /\ \/ op[c].target \in Products /\ DeleteProduct(op[c].target)
                \/ op[c].target \in Activities /\ DeleteActivity(op[c].target)
             /\ UNCHANGED <<total, used>>
    BY <1>2, <2>5 DEF DeleteProduct, DeleteActivity
  <2> QED
    BY <1>1, <1>3, <2>1, <2>2, <2>3, <2>4, <2>5, WriteSteps
<1>4. CASE OrderTraffic
  <2>1. OrdersNext /\ UNCHANGED <<rows, total>>
    BY <1>1, <1>4, TrafficIs
  <2>2. Allotted(a)' = Allotted(a)
    BY <1>1, <2>1, TablesNextKeep DEF StoreOK
  <2>3. StoreOK'
    BY <1>1, <1>4, TrafficKeeps
  <2>4. DriftsOK'
    BY <2>3, DriftsAre, PTL
  <2>5. Drift(a)' = Allotted(a)' - total'[a]
    BY <2>4 DEF DriftsOK
  <2> QED
    BY <1>1, <2>1, <2>2, <2>5, DriftIs
<1>5. ASSUME NEW c \in Editors, Arrive(c) \/ Reads(c) \/ Answered(c)
      PROVE  a \in rows /\ Drift(a)' = Drift(a)
  BY <1>2, <1>5 DEF Arrive, Reads, Answered, storeVars, orderVars
<1>6. CASE UNCHANGED vars
  BY <1>2, <1>6 DEF vars, storeVars, orderVars
<1> QED
  BY <1>1, <1>3, <1>4, <1>5, <1>6, NextSteps

LEMMA StepKeepsUnits ==
  ASSUME CatalogInv, [Next]_vars, NEW p \in Products \cap rows \cap rows'
  PROVE  \/ stock'[p] + LiveUnits(p)' = stock[p] + LiveUnits(p)
         \/ \E c \in Editors : Saves(c, p)
<1>1. CallsOK /\ CallsTypeOK /\ StepsOK /\ StoreOK
  BY DEF CatalogInv, CallsOK
<1>2. ASSUME stock'[p] = stock[p], orders' = orders
      PROVE  stock'[p] + LiveUnits(p)' = stock[p] + LiveUnits(p)
  <2>1. OrdersOf(p)' = OrdersOf(p)
    BY <1>2 DEF OrdersOf
  <2> QED
    BY <1>2, <2>1 DEF LiveUnits
<1>3. ASSUME NEW c \in Editors, Writes(c)
      PROVE  \/ stock'[p] = stock[p] /\ orders' = orders
             \/ Saves(c, p)
  <2>0. stock \in [Products -> Nat] /\ rows \subseteq used
    BY <1>1 DEF StoreOK, StoreTypeOK, OrdersTypeOK, UsedOK
  <2>1. CASE op[c] \in CreateProductOp /\ InsertProduct(op[c])
    BY <2>0, <2>1 DEF InsertProduct
  <2>2. CASE op[c] \in CreateActivityOp /\ InsertActivity(op[c])
    BY <2>2 DEF InsertActivity
  <2>3. CASE pc[c] = "save" /\ op[c] \in UpdateProductOp /\ SaveProduct(op[c])
    <3>1. Saves(c, op[c].target)
      BY <1>1, <1>3, <2>3, SaveAnswers
    <3> QED
      BY <2>0, <2>3, <3>1 DEF SaveProduct
  <2>4. CASE pc[c] = "save" /\ op[c] \in UpdateActivityOp /\ SaveActivity(c)
    BY <1>1, <2>4, SaveActivityIs DEF SavedAs
  <2>5. CASE /\ \/ op[c].target \in Products /\ DeleteProduct(op[c].target)
                \/ op[c].target \in Activities /\ DeleteActivity(op[c].target)
             /\ UNCHANGED <<total, used>>
    BY <2>5 DEF DeleteProduct, DeleteActivity
  <2> QED
    BY <1>1, <1>3, <2>1, <2>2, <2>3, <2>4, <2>5, WriteSteps
<1>4. CASE OrderTraffic
  BY <1>1, <1>4, TrafficIs, WritesKeepUnits DEF StoreOK
<1>5. ASSUME NEW c \in Editors, Arrive(c) \/ Reads(c) \/ Answered(c)
      PROVE  stock'[p] = stock[p] /\ orders' = orders
  BY <1>5 DEF Arrive, Reads, Answered, storeVars, orderVars
<1>6. CASE UNCHANGED vars
  BY <1>2, <1>6 DEF vars, storeVars, orderVars
<1> QED
  BY <1>1, <1>2, <1>3, <1>4, <1>5, <1>6, NextSteps

-----------------------------------------------------------------------------
(* What holds in every behaviour *)

LEMMA InitCatalog == ASSUME Init PROVE CatalogInv
<1>1. orders = {} /\ IsFiniteSet(orders)
  BY FS_EmptySet DEF Init
<1>2. StoreTypeOK
  BY <1>1, StoreAssumption, CatalogAssumption DEF Init, StoreTypeOK, OrdersTypeOK
<1>3. OneUnitEach /\ OneOrder
  BY <1>1 DEF OneUnitEach, OneOrder
<1>4. UsedOK /\ ActivitiesHaveProducts
  BY <1>1, CatalogAssumption DEF Init, UsedOK, ActivitiesHaveProducts
<1>5. CallsOK
  BY CatalogAssumption DEF Init, CallsOK, CallsTypeOK, StepsOK, CopiesOK
<1> QED
  BY <1>2, <1>3, <1>4, <1>5 DEF CatalogInv, StoreOK, StoreTypeOK, TablesInv

\* The inductive invariant that the theorems below rest on
THEOREM CatalogInvariant == Spec => []CatalogInv
<1>1. Init => CatalogInv
  BY InitCatalog
<1>2. CatalogInv /\ [Next]_vars => CatalogInv'
  BY CallsStep, StoreStep DEF CatalogInv
<1> QED
  BY <1>1, <1>2, PTL DEF Spec

\* Rows, calls and what they read keep their types: no stale save makes a stock
\* counter negative.
THEOREM CatalogTypes == Spec => []TypeOK
<1>1. CatalogInv => TypeOK
  BY DEF CatalogInv, CallsOK, CallsTypeOK, StoreOK, StoreTypeOK, TypeOK
<1> QED
  BY <1>1, CatalogInvariant, PTL

\* An activity that buyers see has its product, whatever administrators delete
\* and save again.
THEOREM OffersHaveProducts == Spec => []ActivitiesHaveProducts
<1>1. CatalogInv => ActivitiesHaveProducts
  BY DEF CatalogInv, StoreOK
<1> QED
  BY <1>1, CatalogInvariant, PTL

\* The counters of an activity and its live orders part only through an update
\* that saves over what it has not read (soldStock in ActivityService.Update).
THEOREM OnlyStaleSavesDrift == Spec => DriftNeedsStaleSave
<1>1. CatalogInv /\ [Next]_vars =>
        \A a \in Activities \cap rows' :
          \/ a \in rows /\ Drift(a)' = Drift(a)
          \/ a \notin used /\ Drift(a)' = 0
          \/ \E c \in Editors :
               /\ Saves(c, a)
               /\ \/ a \notin rows
                  \/ copy[c].total # total[a]
                  \/ copy[c].available # available[a]
  BY StepDrifts
<1> QED
  BY <1>1, CatalogInvariant, PTL DEF Spec, DriftNeedsStaleSave

\* Only an edit of a product changes what it has in stock and in live orders; an
\* edit of its activity does not, although gorm saves both.
THEOREM OnlyProductEditsMoveStock == Spec => ProductStockIsTheProducts
<1>1. CatalogInv /\ [Next]_vars =>
        \A p \in Products \cap rows \cap rows' :
          \/ stock'[p] + LiveUnits(p)' = stock[p] + LiveUnits(p)
          \/ \E c \in Editors : Saves(c, p)
  BY StepKeepsUnits
<1> QED
  BY <1>1, CatalogInvariant, PTL DEF Spec, ProductStockIsTheProducts
=============================================================================
