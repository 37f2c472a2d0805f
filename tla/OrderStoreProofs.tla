---------------------------- MODULE OrderStoreProofs ----------------------------
(***************************************************************************)
(* What every committed write of the order tables preserves, for any number *)
(* of users, requests, activities and products.                             *)
(***************************************************************************)
EXTENDS OrderStore, FiniteSetTheorems, TLAPS

\* An order of an activity takes one unit of it.
OneUnitEach == \A o \in orders : o.activity # NoActivity => o.quantity = 1

\* What holds of the tables whatever stock values the activities are given
TablesInv == OrdersTypeOK /\ OneUnitEach /\ OneOrder

OrdersInv == OrdersTypeOK /\ OneUnitEach /\ OneOrder /\ StockConserved

\* The units of an activity: available, or taken by a live order
Allotted(a) == available[a] + Cardinality(LiveOrders(a))

-----------------------------------------------------------------------------

LEMMA InitOrders == ASSUME OrdersInit PROVE OrdersInv
<1>1. OrdersTypeOK
  BY StoreAssumption, FS_EmptySet DEF OrdersInit, OrdersTypeOK
<1>2. StockConserved
  <2> SUFFICES ASSUME NEW a \in Activities \cap rows
               PROVE  available[a] + Cardinality(LiveOrders(a)) = TotalStock[a]
    BY DEF StockConserved
  <2>1. LiveOrders(a) = {}
    BY DEF OrdersInit, LiveOrders
  <2>2. Cardinality(LiveOrders(a)) = 0
    BY <2>1, FS_EmptySet
  <2> QED
    BY <2>2, StoreAssumption DEF OrdersInit
<1> QED
  BY <1>1, <1>2 DEF OrdersInv, OrdersInit, OneUnitEach, OneOrder

\* The live orders of an activity are a finite set, so that they can be counted.
LEMMA LiveOrdersFinite ==
  ASSUME OrdersTypeOK, NEW a
  PROVE  IsFiniteSet(LiveOrders(a)) /\ Cardinality(LiveOrders(a)) \in Nat
<1>1. LiveOrders(a) \in SUBSET orders
  BY DEF LiveOrders
<1> QED
  BY <1>1, FS_Subset, FS_CardinalityType DEF OrdersTypeOK

LEMMA SeckillOrderType ==
  ASSUME NEW u \in Users, NEW a \in Activities, NEW r \in Requests
  PROVE  SeckillOrder(u, a, r) \in Order
BY StoreAssumption DEF SeckillOrder, Order, OrderStatus

\* A seckill transaction takes one unit for one new live order.
LEMMA CreateSeckillOrderKeeps ==
  ASSUME TablesInv,
         NEW u \in Users, NEW a \in Activities, NEW r \in Requests,
         CreateSeckillOrder(SeckillOrder(u, a, r))
  PROVE  TablesInv' /\ \A b \in Activities \cap rows : Allotted(b)' = Allotted(b)
<1> DEFINE o == SeckillOrder(u, a, r)
<1>1. /\ o \in Order
      /\ o.activity = a /\ o.quantity = 1 /\ o.status = "PENDING"
      /\ o.product \in Products /\ o.request = r /\ o.user = u
  BY SeckillOrderType, StoreAssumption DEF SeckillOrder
<1>2. /\ available[a] > 0 /\ stock[o.product] >= 1
      /\ ~Duplicate(o)
      /\ available' = [available EXCEPT ![a] = @ - 1]
      /\ stock' = [stock EXCEPT ![o.product] = @ - 1]
      /\ orders' = orders \cup {o}
      /\ onSale' = onSale /\ rows' = rows
  BY <1>1 DEF CreateSeckillOrder, SeckillAffordable
<1> HIDE DEF o
<1>3. OrdersTypeOK'
  BY <1>1, <1>2, FS_AddElement DEF TablesInv, OrdersTypeOK
<1>4. OneUnitEach'
  BY <1>1, <1>2 DEF TablesInv, OneUnitEach
<1>5. OneOrder'
  BY <1>1, <1>2 DEF TablesInv, OneOrder, Duplicate, OrderedBy, BoughtBy
<1>6. \A b \in Activities \cap rows : Allotted(b)' = Allotted(b)
  <2> SUFFICES ASSUME NEW b \in Activities \cap rows
               PROVE  available'[b] + Cardinality(LiveOrders(b)') =
                        available[b] + Cardinality(LiveOrders(b))
    BY DEF Allotted
  <2>1. /\ available[b] \in Nat
        /\ IsFiniteSet(LiveOrders(b)) /\ Cardinality(LiveOrders(b)) \in Nat
    BY LiveOrdersFinite DEF TablesInv, OrdersTypeOK
  <2>2. CASE b = a
    <3>1. LiveOrders(b)' = LiveOrders(b) \cup {o}
      BY <1>1, <1>2, <2>2 DEF LiveOrders
    <3>2. o \notin LiveOrders(b)
      BY <1>2 DEF LiveOrders, Duplicate, OrderedBy
    <3>3. Cardinality(LiveOrders(b)') = Cardinality(LiveOrders(b)) + 1
      BY <3>1, <3>2, <2>1, FS_AddElement
    <3>4. available'[b] = available[b] - 1
      BY <1>2, <2>2 DEF TablesInv, OrdersTypeOK
    <3> QED
      BY <3>3, <3>4, <2>1
  <2>3. CASE b # a
    <3>1. LiveOrders(b)' = LiveOrders(b)
      BY <1>1, <1>2, <2>3 DEF LiveOrders
    <3>2. available'[b] = available[b]
      BY <1>2, <2>3 DEF TablesInv, OrdersTypeOK
    <3> QED
      BY <3>1, <3>2, <2>1
  <2> QED
    BY <2>2, <2>3
<1> QED
  BY <1>3, <1>4, <1>5, <1>6 DEF TablesInv

\* A normal order touches no activity.
LEMMA CreateProductOrderKeeps ==
  ASSUME TablesInv,
         NEW u \in Users, NEW p \in Products, NEW r \in Requests, NEW q \in Nat \ {0},
         CreateProductOrder(ProductOrder(u, p, r, q))
  PROVE  TablesInv' /\ \A b \in Activities \cap rows : Allotted(b)' = Allotted(b)
<1> DEFINE o == ProductOrder(u, p, r, q)
<1>1. /\ o \in Order
      /\ o.activity = NoActivity /\ o.quantity = q /\ o.product = p /\ o.request = r
  BY DEF ProductOrder, Order, OrderStatus
<1>2. /\ stock[p] >= q
      /\ ~Duplicate(o)
      /\ stock' = [stock EXCEPT ![p] = @ - q]
      /\ orders' = orders \cup {o}
      /\ onSale' = onSale /\ available' = available /\ rows' = rows
  BY <1>1 DEF CreateProductOrder, ProductAffordable
<1> HIDE DEF o
<1>3. OrdersTypeOK'
  BY <1>1, <1>2, FS_AddElement DEF TablesInv, OrdersTypeOK
<1>4. OneUnitEach'
  BY <1>1, <1>2 DEF TablesInv, OneUnitEach
<1>5. OneOrder'
  BY <1>1, <1>2 DEF TablesInv, OneOrder, Duplicate, OrderedBy
<1>6. \A b \in Activities : LiveOrders(b)' = LiveOrders(b)
  BY <1>1, <1>2, StoreAssumption DEF LiveOrders
<1>7. \A b \in Activities \cap rows : Allotted(b)' = Allotted(b)
  BY <1>2, <1>6 DEF Allotted
<1> QED
  BY <1>3, <1>4, <1>5, <1>7 DEF TablesInv

\* Replacing an order by itself with another status keeps the identities.
LEMMA SetStatusKeeps ==
  ASSUME TablesInv, NEW o \in orders, NEW to \in OrderStatus,
         SetStatus(o, to)
  PROVE  /\ orders' \in SUBSET Order
         /\ IsFiniteSet(orders')
         /\ OneUnitEach'
         /\ OneOrder'
<1> DEFINE n == [o EXCEPT !.status = to]
<1>1. /\ n \in Order
      /\ n.request = o.request /\ n.user = o.user /\ n.activity = o.activity
      /\ n.quantity = o.quantity
  BY DEF TablesInv, OrdersTypeOK, Order
<1>2. orders' = (orders \ {o}) \cup {n}
  BY DEF SetStatus
<1> HIDE DEF n
<1>3. orders' \in SUBSET Order
  BY <1>1, <1>2 DEF TablesInv, OrdersTypeOK
<1>4. IsFiniteSet(orders')
  BY <1>2, FS_RemoveElement, FS_AddElement DEF TablesInv, OrdersTypeOK
<1>5. OneUnitEach'
  BY <1>1, <1>2 DEF TablesInv, OneUnitEach
<1>6. OneOrder'
  BY <1>1, <1>2 DEF TablesInv, OneOrder
<1> QED
  BY <1>3, <1>4, <1>5, <1>6

\* A payment keeps an order alive.
LEMMA PayKeeps ==
  ASSUME TablesInv, NEW o \in orders, UpdateOrderStatus(o, "PENDING", "PAID")
  PROVE  TablesInv' /\ \A b \in Activities \cap rows : Allotted(b)' = Allotted(b)
<1> DEFINE n == [o EXCEPT !.status = "PAID"]
<1>1. /\ SetStatus(o, "PAID") /\ o.status = "PENDING"
      /\ stock' = stock /\ onSale' = onSale /\ available' = available /\ rows' = rows
  BY DEF UpdateOrderStatus
<1>2. /\ orders' \in SUBSET Order /\ IsFiniteSet(orders')
      /\ OneUnitEach' /\ OneOrder'
  BY <1>1, SetStatusKeeps DEF OrderStatus
<1>3. /\ orders' = (orders \ {o}) \cup {n}
      /\ n.activity = o.activity /\ n.status = "PAID" /\ n.request = o.request
      /\ n \in Order
  BY <1>1 DEF SetStatus, TablesInv, OrdersTypeOK, Order, OrderStatus
<1>4. n \notin orders
  BY <1>1, <1>3 DEF TablesInv, OneOrder
<1> HIDE DEF n
<1>5. \A b \in Activities \cap rows : Allotted(b)' = Allotted(b)
  <2> SUFFICES ASSUME NEW b \in Activities \cap rows
               PROVE  available'[b] + Cardinality(LiveOrders(b)') =
                        available[b] + Cardinality(LiveOrders(b))
    BY DEF Allotted
  <2>1. /\ available[b] \in Nat
        /\ IsFiniteSet(LiveOrders(b)) /\ Cardinality(LiveOrders(b)) \in Nat
    BY LiveOrdersFinite DEF TablesInv, OrdersTypeOK
  <2>2. CASE b = o.activity
    <3>1. LiveOrders(b)' = (LiveOrders(b) \ {o}) \cup {n}
      BY <1>1, <1>3, <2>2 DEF LiveOrders
    <3>2. o \in LiveOrders(b) /\ n \notin LiveOrders(b) \ {o}
      BY <1>1, <1>4, <2>2 DEF LiveOrders
    <3>3. /\ IsFiniteSet(LiveOrders(b) \ {o})
          /\ Cardinality(LiveOrders(b) \ {o}) = Cardinality(LiveOrders(b)) - 1
      BY <3>2, <2>1, FS_RemoveElement
    <3>4. Cardinality(LiveOrders(b)') = Cardinality(LiveOrders(b) \ {o}) + 1
      BY <3>1, <3>2, <3>3, FS_AddElement
    <3> QED
      BY <1>1, <3>3, <3>4, <2>1
  <2>3. CASE b # o.activity
    <3>1. LiveOrders(b)' = LiveOrders(b)
      BY <1>1, <1>3, <2>3 DEF LiveOrders
    <3> QED
      BY <1>1, <3>1, <2>1
  <2> QED
    BY <2>2, <2>3
<1> QED
  BY <1>1, <1>2, <1>5 DEF TablesInv, OrdersTypeOK

\* A cancellation gives back the unit of the order it closes.
LEMMA CancelKeeps ==
  ASSUME TablesInv, NEW o \in orders, CancelOrderAndRestoreStock(o)
  PROVE  TablesInv' /\ \A b \in Activities \cap rows : Allotted(b)' = Allotted(b)
<1> DEFINE n == [o EXCEPT !.status = "CANCELLED"]
<1>1. /\ SetStatus(o, "CANCELLED") /\ o.status = "PENDING" /\ o \in Order
      /\ stock' = [p \in Products |->
                     stock[p] + IF p = o.product /\ p \in rows THEN o.quantity ELSE 0]
      /\ available' = [a \in Activities |-> available[a] +
                         IF a = o.activity /\ a \in rows THEN o.quantity ELSE 0]
      /\ onSale' = onSale /\ rows' = rows
  BY DEF CancelOrderAndRestoreStock, Returned, TablesInv, OrdersTypeOK
<1>2. /\ orders' \in SUBSET Order /\ IsFiniteSet(orders')
      /\ OneUnitEach' /\ OneOrder'
  BY <1>1, SetStatusKeeps DEF OrderStatus
<1>3. o.quantity \in Nat /\ o.product \in Products
  BY <1>1 DEF Order
<1>4. OrdersTypeOK'
  BY <1>1, <1>2, <1>3 DEF TablesInv, OrdersTypeOK
<1>5. /\ orders' = (orders \ {o}) \cup {n}
      /\ n.status = "CANCELLED"
  BY <1>1 DEF SetStatus, Order
<1> HIDE DEF n
<1>6. \A b \in Activities \cap rows : Allotted(b)' = Allotted(b)
  <2> SUFFICES ASSUME NEW b \in Activities \cap rows
               PROVE  available'[b] + Cardinality(LiveOrders(b)') =
                        available[b] + Cardinality(LiveOrders(b))
    BY DEF Allotted
  <2>1. /\ available[b] \in Nat
        /\ IsFiniteSet(LiveOrders(b)) /\ Cardinality(LiveOrders(b)) \in Nat
    BY LiveOrdersFinite DEF TablesInv, OrdersTypeOK
  <2>2. LiveOrders(b)' = LiveOrders(b) \ {o}
    BY <1>5 DEF LiveOrders
  <2>3. CASE b = o.activity
    <3>1. o \in LiveOrders(b)
      BY <1>1, <2>3 DEF LiveOrders
    <3>2. Cardinality(LiveOrders(b)') = Cardinality(LiveOrders(b)) - 1
      BY <2>2, <3>1, <2>1, FS_RemoveElement
    <3>3. available'[b] = available[b] + 1
      BY <1>1, <2>3, StoreAssumption DEF TablesInv, OneUnitEach
    <3> QED
      BY <3>2, <3>3, <2>1
  <2>4. CASE b # o.activity
    <3>1. LiveOrders(b)' = LiveOrders(b)
      BY <2>2, <2>4 DEF LiveOrders
    <3>2. available'[b] = available[b]
      BY <1>1, <2>1, <2>4
    <3> QED
      BY <3>1, <3>2, <2>1
  <2> QED
    BY <2>3, <2>4
<1> QED
  BY <1>2, <1>4, <1>6 DEF TablesInv

\* Every write of the order tables keeps orders unique and units accounted for,
\* also while administrators give the activities other stock values.
THEOREM TablesNextKeep ==
  ASSUME TablesInv, [OrdersNext]_orderVars
  PROVE  /\ TablesInv' /\ rows' \subseteq rows
         /\ \A b \in Activities \cap rows : Allotted(b)' = Allotted(b)
<1>1. CASE \E u \in Users, r \in Requests, a \in Activities :
             CreateSeckillOrder(SeckillOrder(u, a, r))
  <2>1. PICK u \in Users, r \in Requests, a \in Activities :
          CreateSeckillOrder(SeckillOrder(u, a, r))
    BY <1>1
  <2>2. rows' = rows
    BY <2>1 DEF CreateSeckillOrder
  <2> QED
    BY <2>1, <2>2, CreateSeckillOrderKeeps
<1>2. CASE \E u \in Users, r \in Requests, p \in Products, q \in Nat \ {0} :
             CreateProductOrder(ProductOrder(u, p, r, q))
  <2>1. PICK u \in Users, r \in Requests, p \in Products, q \in Nat \ {0} :
          CreateProductOrder(ProductOrder(u, p, r, q))
    BY <1>2
  <2>2. rows' = rows
    BY <2>1 DEF CreateProductOrder
  <2> QED
    BY <2>1, <2>2, CreateProductOrderKeeps
<1>3. CASE \E o \in orders : UpdateOrderStatus(o, "PENDING", "PAID")
  BY <1>3, PayKeeps DEF UpdateOrderStatus
<1>4. CASE \E o \in orders : CancelOrderAndRestoreStock(o)
  BY <1>4, CancelKeeps DEF CancelOrderAndRestoreStock
<1>5. CASE (\E a \in Activities : DeleteActivity(a)) \/ UNCHANGED orderVars
  <2>1. rows' \subseteq rows /\ UNCHANGED <<stock, onSale, available, orders>>
    BY <1>5 DEF DeleteActivity, orderVars
  <2> QED
    BY <2>1 DEF TablesInv, OrdersTypeOK, OneUnitEach, OneOrder, Allotted, LiveOrders
<1> QED
  BY <1>1, <1>2, <1>3, <1>4, <1>5 DEF OrdersNext

\* Every write of the order tables keeps the stock conserved and orders unique.
THEOREM OrdersNextKeeps ==
  ASSUME OrdersInv, [OrdersNext]_orderVars
  PROVE  OrdersInv'
<1>1. TablesInv
  BY DEF OrdersInv, TablesInv
<1>2. /\ TablesInv' /\ rows' \subseteq rows
      /\ \A b \in Activities \cap rows : Allotted(b)' = Allotted(b)
  BY <1>1, TablesNextKeep
<1>3. StockConserved'
  BY <1>2 DEF OrdersInv, StockConserved, Allotted
<1> QED
  BY <1>2, <1>3 DEF OrdersInv, TablesInv

=============================================================================
