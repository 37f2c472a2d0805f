--------------------------- MODULE StockUnitsProofs ---------------------------
(***************************************************************************)
(* Sums over sets of orders, and what every committed write of the order    *)
(* tables does to them.                                                     *)
(***************************************************************************)
EXTENDS StockUnits, OrderStoreProofs, WellFoundedInduction

-----------------------------------------------------------------------------
(* Least elements: what the proofs by induction on the size of a set use *)

LEMMA LeastNat ==
  ASSUME NEW T, T \subseteq Nat, T # {}
  PROVE  \E n \in T : \A m \in T : n <= m
<1>1. PICK n \in T : \A m \in T : ~(<<m, n>> \in OpToRel(<, Nat))
  BY WFMin, NatLessThanWellFounded
<1>2. \A m \in T : ~(m < n)
  <2> SUFFICES ASSUME NEW m \in T, m < n
               PROVE  <<m, n>> \in OpToRel(<, Nat)
    BY <1>1
  <2>1. <<m, n>> \in Nat \X Nat /\ <<m, n>>[1] = m /\ <<m, n>>[2] = n
    OBVIOUS
  <2> QED
    BY <2>1 DEF OpToRel
<1> QED
  BY <1>2

LEMMA LeastSet ==
  ASSUME NEW F, F # {}, \A s \in F : IsFiniteSet(s)
  PROVE  \E s \in F : \A t \in F : Cardinality(s) <= Cardinality(t)
<1> DEFINE T == {Cardinality(s) : s \in F}
<1>1. T \subseteq Nat /\ T # {}
  BY FS_CardinalityType
<1>2. PICK n \in T : \A m \in T : n <= m
  BY <1>1, LeastNat
<1> QED
  BY <1>2

LEMMA SmallerSet ==
  ASSUME NEW s, IsFiniteSet(s), NEW x \in s
  PROVE  /\ IsFiniteSet(s \ {x})
         /\ ~(Cardinality(s) <= Cardinality(s \ {x}))
<1>1. /\ IsFiniteSet(s \ {x}) /\ Cardinality(s \ {x}) = Cardinality(s) - 1
  BY FS_RemoveElement
<1>2. Cardinality(s) \in Nat
  BY FS_CardinalityType
<1> QED
  BY <1>1, <1>2

-----------------------------------------------------------------------------
(* Sums *)

\* Units counts a set by taking out one member after another.
Some(s) == CHOOSE x \in s : TRUE

IsTally(h, D) ==
  h = [s \in SUBSET D |-> IF s = {} THEN 0 ELSE Some(s).quantity + h[s \ {Some(s)}]]

Tally(D) == CHOOSE h : IsTally(h, D)

Counted(D) == IsFiniteSet(D) /\ \A o \in D : o.quantity \in Nat

LEMMA UnitsTally == ASSUME NEW S PROVE Units(S) = Tally(S)[S]
BY Zenon DEF Units, MapThenSumSet, MapThenFoldSet, Tally, IsTally, Some

LEMMA SomeMember == ASSUME NEW s, s # {} PROVE Some(s) \in s
BY DEF Some

LEMMA TallyAt ==
  ASSUME NEW h, NEW D, IsTally(h, D), NEW s \in SUBSET D
  PROVE  /\ s = {} => h[s] = 0
         /\ s # {} => h[s] = Some(s).quantity + h[s \ {Some(s)}]
BY Zenon DEF IsTally

\* Two tallies count a set alike.
LEMMA TalliesAgree ==
  ASSUME NEW h, NEW D, IsTally(h, D), NEW g, NEW E, IsTally(g, E),
         NEW S, S \subseteq D, S \subseteq E, IsFiniteSet(S)
  PROVE  h[S] = g[S]
<1> DEFINE F == {s \in SUBSET S : h[s] # g[s]}
<1> SUFFICES ASSUME F # {} PROVE FALSE
  OBVIOUS
<1>1. \A s \in F : IsFiniteSet(s)
  BY FS_Subset
<1>2. PICK s \in F : \A t \in F : Cardinality(s) <= Cardinality(t)
  BY <1>1, LeastSet
<1>3. s \in SUBSET D /\ s \in SUBSET E /\ IsFiniteSet(s)
  BY <1>1
<1>4. CASE s = {}
  BY <1>3, <1>4, TallyAt
<1>5. CASE s # {}
  <2>1. Some(s) \in s
    BY <1>5, SomeMember
  <2>2. s \ {Some(s)} \notin F
    BY <1>2, <1>3, <2>1, SmallerSet
  <2>3. h[s \ {Some(s)}] = g[s \ {Some(s)}]
    BY <2>2
  <2> QED
    BY <1>3, <1>5, <2>3, TallyAt
<1> QED
  BY <1>4, <1>5

\* Every finite set can be tallied.
LEMMA TallyExists ==
  ASSUME NEW D, IsFiniteSet(D)
  PROVE  IsTally(Tally(D), D)
<1> DEFINE F == {s \in SUBSET D : ~IsTally(Tally(s), s)}
<1> SUFFICES ASSUME F # {} PROVE FALSE
  OBVIOUS
<1>1. \A s \in F : IsFiniteSet(s)
  BY FS_Subset
<1>2. PICK d \in F : \A t \in F : Cardinality(d) <= Cardinality(t)
  BY <1>1, LeastSet
<1>3. IsFiniteSet(d) /\ d \in SUBSET D
  BY <1>1
<1>4. \A s \in SUBSET d : s # d => IsTally(Tally(s), s) /\ IsFiniteSet(s)
  <2> SUFFICES ASSUME NEW s \in SUBSET d, s # d
               PROVE  s \notin F /\ IsFiniteSet(s) /\ s \in SUBSET D
    OBVIOUS
  <2>1. IsFiniteSet(s) /\ Cardinality(s) < Cardinality(d)
    BY <1>3, FS_Subset, FS_CardinalityType
  <2> QED
    BY <1>2, <1>3, <2>1, FS_CardinalityType
<1> DEFINE value(s) == Tally(s)[s]
           whole == IF d = {} THEN 0 ELSE Some(d).quantity + value(d \ {Some(d)})
           h == [s \in SUBSET d |-> IF s = d THEN whole ELSE value(s)]
<1>5. ASSUME NEW s \in SUBSET d
      PROVE  h[s] = IF s = {} THEN 0 ELSE Some(s).quantity + h[s \ {Some(s)}]
  <2>1. s # {} => /\ Some(s) \in s /\ s \ {Some(s)} # d
                  /\ s \ {Some(s)} \in SUBSET d /\ s \ {Some(s)} \in SUBSET s
    BY SomeMember
  <2>2. s # {} => h[s \ {Some(s)}] = value(s \ {Some(s)})
    BY <2>1
  <2>3. CASE s = d
    BY <2>2, <2>3
  <2>4. CASE s # d
    <3>1. IsTally(Tally(s), s) /\ h[s] = Tally(s)[s]
      BY <1>4, <2>4
    <3>2. CASE s = {}
      BY <3>1, <3>2, TallyAt
    <3>3. CASE s # {}
      <4> DEFINE r == s \ {Some(s)}
      <4>1. Tally(s)[s] = Some(s).quantity + Tally(s)[r]
        BY <3>1, <3>3, TallyAt
      <4>2. IsTally(Tally(r), r) /\ IsFiniteSet(r)
        BY <1>4, <2>1, <3>3
      <4>3. Tally(s)[r] = Tally(r)[r]
        BY <3>1, <4>2, <2>1, <3>3, TalliesAgree
      <4> QED
        BY <2>2, <3>1, <3>3, <4>1, <4>3
    <3> QED
      BY <3>2, <3>3
  <2> QED
    BY <2>3, <2>4
<1>6. IsTally(h, d)
  <2> DEFINE body(s) == IF s = {} THEN 0 ELSE Some(s).quantity + h[s \ {Some(s)}]
  <2>1. \A s \in SUBSET d : h[s] = body(s)
    BY <1>5
  <2>2. h = [s \in SUBSET d |-> h[s]]
    OBVIOUS
  <2> HIDE DEF h
  <2>3. h = [s \in SUBSET d |-> body(s)]
    BY <2>1, <2>2
  <2> QED
    BY <2>3 DEF IsTally
<1> HIDE DEF h
<1>7. IsTally(Tally(d), d)
  BY <1>6 DEF Tally
<1> QED
  BY <1>7, <1>2

\* Sums are sums: of nothing, of one more and of one less.
LEMMA UnitsEmpty == Units({}) = 0
BY UnitsTally, TallyExists, TallyAt, FS_EmptySet

LEMMA UnitsAt ==
  ASSUME NEW D, IsFiniteSet(D), NEW s \in SUBSET D
  PROVE  Units(s) = Tally(D)[s]
<1>1. IsFiniteSet(s)
  BY FS_Subset
<1>2. IsTally(Tally(D), D) /\ IsTally(Tally(s), s)
  BY <1>1, TallyExists
<1>3. Tally(D)[s] = Tally(s)[s]
  BY <1>1, <1>2, TalliesAgree
<1> QED
  BY <1>3, UnitsTally

LEMMA UnitsSome ==
  ASSUME NEW s, IsFiniteSet(s), s # {}
  PROVE  Units(s) = Some(s).quantity + Units(s \ {Some(s)})
<1>1. IsTally(Tally(s), s)
  BY TallyExists
<1>2. Tally(s)[s] = Some(s).quantity + Tally(s)[s \ {Some(s)}]
  BY <1>1, TallyAt
<1>3. Units(s) = Tally(s)[s] /\ Units(s \ {Some(s)}) = Tally(s)[s \ {Some(s)}]
  BY UnitsAt
<1> QED
  BY <1>2, <1>3

LEMMA UnitsNat ==
  ASSUME NEW D, Counted(D)
  PROVE  Units(D) \in Nat
<1> DEFINE F == {s \in SUBSET D : Units(s) \notin Nat}
<1> SUFFICES ASSUME F # {} PROVE FALSE
  OBVIOUS
<1>1. \A s \in F : IsFiniteSet(s)
  BY FS_Subset DEF Counted
<1>2. PICK s \in F : \A t \in F : Cardinality(s) <= Cardinality(t)
  BY <1>1, LeastSet
<1>3. CASE s = {}
  BY <1>3, UnitsEmpty
<1>4. CASE s # {}
  <2>1. Some(s) \in s /\ Some(s).quantity \in Nat
    BY <1>4, SomeMember DEF Counted
  <2>2. s \ {Some(s)} \notin F
    BY <1>1, <1>2, <2>1, SmallerSet
  <2>3. Units(s \ {Some(s)}) \in Nat
    BY <2>2
  <2>4. Units(s) = Some(s).quantity + Units(s \ {Some(s)})
    BY <1>1, <1>4, UnitsSome
  <2> QED
    BY <2>1, <2>3, <2>4
<1> QED
  BY <1>3, <1>4

\* The order in which a sum takes its members does not matter.
LEMMA UnitsLess ==
  ASSUME NEW D, Counted(D), NEW o \in D
  PROVE  Units(D) = o.quantity + Units(D \ {o})
<1> DEFINE fair(s) == \A x \in s : Units(s) = x.quantity + Units(s \ {x})
           F == {s \in SUBSET D : ~fair(s)}
<1> SUFFICES ASSUME F # {} PROVE FALSE
  OBVIOUS
<1>1. \A s \in F : IsFiniteSet(s)
  BY FS_Subset DEF Counted
<1>2. PICK s \in F : \A t \in F : Cardinality(s) <= Cardinality(t)
  BY <1>1, LeastSet
<1>3. PICK x \in s : Units(s) # x.quantity + Units(s \ {x})
  BY <1>2
<1> DEFINE y == Some(s)
<1>4. /\ s \in SUBSET D /\ IsFiniteSet(s) /\ y \in s
      /\ Units(s) = y.quantity + Units(s \ {y})
  BY <1>1, UnitsSome, SomeMember
<1>5. \A z \in s : fair(s \ {z})
  <2> SUFFICES ASSUME NEW z \in s PROVE s \ {z} \notin F
    BY <1>4
  <2> QED
    BY <1>2, <1>4, SmallerSet
<1> HIDE DEF y
<1>6. x # y
  BY <1>3, <1>4
<1> DEFINE r == (s \ {y}) \ {x}
<1>7. Units(s \ {y}) = x.quantity + Units(r)
  BY <1>4, <1>5, <1>6
<1>8. Units(s \ {x}) = y.quantity + Units(r)
  <2>1. (s \ {x}) \ {y} = r
    OBVIOUS
  <2>2. Units(s \ {x}) = y.quantity + Units((s \ {x}) \ {y})
    BY <1>4, <1>5, <1>6
  <2> QED
    BY <2>1, <2>2
<1>9. x.quantity \in Nat /\ y.quantity \in Nat /\ Units(r) \in Nat
  <2>1. Counted(r) /\ x.quantity \in Nat /\ y.quantity \in Nat
    BY <1>4, FS_Subset DEF Counted
  <2> QED
    BY <2>1, UnitsNat
<1> HIDE DEF r
<1> QED
  BY <1>3, <1>4, <1>7, <1>8, <1>9

LEMMA UnitsMore ==
  ASSUME NEW D, NEW o, Counted(D \cup {o}), o \notin D
  PROVE  Units(D \cup {o}) = o.quantity + Units(D)
<1>1. (D \cup {o}) \ {o} = D
  OBVIOUS
<1>2. Units(D \cup {o}) = o.quantity + Units((D \cup {o}) \ {o})
  BY UnitsLess
<1> QED
  BY <1>1, <1>2

-----------------------------------------------------------------------------
(* The units of a product *)

LEMMA OrdersCounted ==
  ASSUME OrdersTypeOK, NEW p
  PROVE  Counted(OrdersOf(p)) /\ LiveUnits(p) \in Nat
<1>1. OrdersOf(p) \in SUBSET orders
  BY DEF OrdersOf
<1>2. IsFiniteSet(OrdersOf(p))
  BY <1>1, FS_Subset DEF OrdersTypeOK
<1>3. \A o \in OrdersOf(p) : o.quantity \in Nat
  BY <1>1 DEF OrdersTypeOK, Order
<1> QED
  BY <1>2, <1>3, UnitsNat DEF Counted, LiveUnits

\* A new order takes its units out of stock.
LEMMA CreateKeepsUnits ==
  ASSUME OrdersTypeOK, OrdersTypeOK', NEW o \in Order, o.status = "PENDING", o \notin orders,
         orders' = orders \cup {o},
         stock' = [stock EXCEPT ![o.product] = @ - o.quantity],
         NEW p \in Products
  PROVE  stock'[p] + LiveUnits(p)' = stock[p] + LiveUnits(p)
<1>1. /\ stock \in [Products -> Nat] /\ o.quantity \in Nat /\ LiveUnits(p) \in Nat
      /\ Counted(OrdersOf(p))
  BY OrdersCounted DEF OrdersTypeOK, Order
<1>2. CASE p = o.product
  <2>1. OrdersOf(p)' = OrdersOf(p) \cup {o} /\ o \notin OrdersOf(p)
    BY <1>2 DEF OrdersOf
  <2>2. Counted(OrdersOf(p) \cup {o})
    BY <1>1, FS_AddElement DEF Counted
  <2>3. LiveUnits(p)' = o.quantity + LiveUnits(p)
    BY <2>1, <2>2, UnitsMore DEF LiveUnits
  <2> QED
    BY <1>1, <1>2, <2>3
<1>3. CASE p # o.product
  <2>1. OrdersOf(p)' = OrdersOf(p)
    BY <1>3 DEF OrdersOf
  <2> QED
    BY <1>1, <1>3, <2>1 DEF LiveUnits
<1> QED
  BY <1>2, <1>3

\* A payment moves no unit.
LEMMA PayKeepsUnits ==
  ASSUME TablesInv, NEW o \in orders, UpdateOrderStatus(o, "PENDING", "PAID"),
         NEW p \in Products
  PROVE  stock'[p] + LiveUnits(p)' = stock[p] + LiveUnits(p)
<1> DEFINE n == [o EXCEPT !.status = "PAID"]
<1>1. /\ orders' = (orders \ {o}) \cup {n} /\ stock' = stock /\ o.status = "PENDING"
      /\ o \in Order
  BY DEF UpdateOrderStatus, SetStatus, TablesInv, OrdersTypeOK
<1>2. /\ n.product = o.product /\ n.quantity = o.quantity /\ n.status = "PAID"
      /\ n.request = o.request /\ o.quantity \in Nat
  BY <1>1 DEF Order
<1>3. n \notin orders
  BY <1>1, <1>2 DEF TablesInv, OneOrder
<1>4. Counted(OrdersOf(p))
  BY OrdersCounted DEF TablesInv
<1> HIDE DEF n
<1>5. CASE p = o.product
  <2>1. /\ o \in OrdersOf(p) /\ n \notin OrdersOf(p) \ {o}
        /\ OrdersOf(p)' = (OrdersOf(p) \ {o}) \cup {n}
    BY <1>1, <1>2, <1>3, <1>5 DEF OrdersOf
  <2>2. Counted((OrdersOf(p) \ {o}) \cup {n})
    BY <1>2, <1>4, FS_RemoveElement, FS_AddElement DEF Counted
  <2>3. Units(OrdersOf(p)') = n.quantity + Units(OrdersOf(p) \ {o})
    BY <2>1, <2>2, UnitsMore
  <2>4. Units(OrdersOf(p)) = o.quantity + Units(OrdersOf(p) \ {o})
    BY <1>4, <2>1, UnitsLess
  <2> QED
    BY <1>1, <1>2, <2>3, <2>4 DEF LiveUnits
<1>6. CASE p # o.product
  <2>1. OrdersOf(p)' = OrdersOf(p)
    BY <1>1, <1>2, <1>6 DEF OrdersOf
  <2> QED
    BY <1>1, <2>1 DEF LiveUnits
<1> QED
  BY <1>5, <1>6

\* A cancellation puts the units of the order back, into the row it finds.
LEMMA CancelKeepsUnits ==
  ASSUME TablesInv, NEW o \in orders, CancelOrderAndRestoreStock(o),
         NEW p \in Products \cap rows
  PROVE  stock'[p] + LiveUnits(p)' = stock[p] + LiveUnits(p)
<1> DEFINE n == [o EXCEPT !.status = "CANCELLED"]
<1>1. /\ orders' = (orders \ {o}) \cup {n} /\ o.status = "PENDING" /\ o \in Order
      /\ stock \in [Products -> Nat]
      /\ stock'[p] = stock[p] + IF p = o.product THEN o.quantity ELSE 0
  BY DEF CancelOrderAndRestoreStock, Returned, SetStatus, TablesInv, OrdersTypeOK
<1>2. n.status = "CANCELLED" /\ o.quantity \in Nat
  BY <1>1 DEF Order
<1>3. Counted(OrdersOf(p)) /\ LiveUnits(p) \in Nat
  BY OrdersCounted DEF TablesInv
<1> HIDE DEF n
<1>4. OrdersOf(p)' = OrdersOf(p) \ {o}
  BY <1>1, <1>2 DEF OrdersOf
<1>5. CASE p = o.product
  <2>1. o \in OrdersOf(p)
    BY <1>1, <1>5 DEF OrdersOf
  <2>2. Counted(OrdersOf(p) \ {o})
    BY <1>3, FS_RemoveElement DEF Counted
  <2>3. Units(OrdersOf(p)) = o.quantity + Units(OrdersOf(p)')
    BY <1>3, <1>4, <2>1, UnitsLess
  <2>4. Units(OrdersOf(p)') \in Nat
    BY <1>4, <2>2, UnitsNat
  <2>5. LiveUnits(p) = o.quantity + LiveUnits(p)' /\ LiveUnits(p)' \in Nat
    BY <2>3, <2>4 DEF LiveUnits
  <2> QED
    BY <1>1, <1>2, <1>5, <2>5
<1>6. CASE p # o.product
  <2>1. OrdersOf(p)' = OrdersOf(p)
    BY <1>4, <1>6 DEF OrdersOf
  <2>2. stock'[p] = stock[p]
    BY <1>1, <1>6
  <2> QED
    BY <2>1, <2>2 DEF LiveUnits
<1> QED
  BY <1>5, <1>6

\* Whatever is committed to the order tables, the stock of a product that has a
\* row and the units of its live orders together stay what they were: the
\* transactions of dao/order.go neither lose nor invent a unit.
THEOREM WritesKeepUnits ==
  ASSUME TablesInv, [OrdersNext]_orderVars, NEW p \in Products \cap rows
  PROVE  stock'[p] + LiveUnits(p)' = stock[p] + LiveUnits(p)
<1>0. TablesInv'
  BY TablesNextKeep
<1>1. ASSUME NEW u \in Users, NEW r \in Requests, NEW a \in Activities,
             CreateSeckillOrder(SeckillOrder(u, a, r))
      PROVE  stock'[p] + LiveUnits(p)' = stock[p] + LiveUnits(p)
  <2> DEFINE o == SeckillOrder(u, a, r)
  <2>1. o \in Order /\ o.status = "PENDING"
    BY SeckillOrderType DEF SeckillOrder
  <2>2. /\ o \notin orders /\ orders' = orders \cup {o}
        /\ stock' = [stock EXCEPT ![o.product] = @ - o.quantity]
    BY <1>1 DEF CreateSeckillOrder, Duplicate, OrderedBy
  <2> HIDE DEF o
  <2> QED
    BY <1>0, <2>1, <2>2, CreateKeepsUnits DEF TablesInv
<1>2. ASSUME NEW u \in Users, NEW r \in Requests, NEW x \in Products, NEW q \in Nat \ {0},
             CreateProductOrder(ProductOrder(u, x, r, q))
      PROVE  stock'[p] + LiveUnits(p)' = stock[p] + LiveUnits(p)
  <2> DEFINE o == ProductOrder(u, x, r, q)
  <2>1. o \in Order /\ o.status = "PENDING"
    BY DEF ProductOrder, Order, OrderStatus
  <2>2. /\ o \notin orders /\ orders' = orders \cup {o}
        /\ stock' = [stock EXCEPT ![o.product] = @ - o.quantity]
    BY <1>2 DEF CreateProductOrder, Duplicate, OrderedBy
  <2> HIDE DEF o
  <2> QED
    BY <1>0, <2>1, <2>2, CreateKeepsUnits DEF TablesInv
<1>3. CASE \E o \in orders : UpdateOrderStatus(o, "PENDING", "PAID")
  BY <1>3, PayKeepsUnits
<1>4. CASE \E o \in orders : CancelOrderAndRestoreStock(o)
  BY <1>4, CancelKeepsUnits
<1>5. CASE (\E a \in Activities : DeleteActivity(a)) \/ UNCHANGED orderVars
  <2>1. OrdersOf(p)' = OrdersOf(p) /\ stock' = stock
    BY <1>5 DEF DeleteActivity, orderVars, OrdersOf
  <2> QED
    BY <2>1 DEF LiveUnits
<1> QED
  BY <1>1, <1>2, <1>3, <1>4, <1>5 DEF OrdersNext
=============================================================================
