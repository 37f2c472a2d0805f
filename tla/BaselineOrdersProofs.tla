-------------------------- MODULE BaselineOrdersProofs --------------------------
(***************************************************************************)
(* What the synchronous order endpoints keep, for any number of users,      *)
(* calls, orders, MySQL errors and edits.                                   *)
(***************************************************************************)
EXTENDS BaselineOrders, StockUnitsProofs

CreateOp == NormalOp \cup SeckillOp

CreateSteps == {"known", "bought", "offer", "commit", "known_again", "bought_again"}
ChangeSteps == {"owner", "update", "cancel"}

\* A call keeps the kind of operation its steps belong to.
StepsOK ==
  \A c \in Calls :
    /\ pc[c] \in CreateSteps => op[c] \in CreateOp
    /\ pc[c] \in ChangeSteps => op[c] \in ChangeOp
    /\ pc[c] = "same" => op[c] \in CreateOp
    /\ pc[c] = "ok" => op[c] \in CreateOp \cup ChangeOp

\* Every order of an activity is an order of the activity's product.
OwnProducts ==
  \A o \in orders : o.activity # NoActivity => o.product = ProductOf[o.activity]

IsOrderOf(o, p) ==
  LET w == Wanted(p)
  IN  /\ o.request = w.request /\ o.user = w.user
      /\ o.activity = w.activity /\ o.product = w.product

\* A call that returned an order returned one that is still there.
Returns ==
  \A c \in Calls :
    pc[c] \in {"ok", "same"} /\ op[c] \in CreateOp =>
      \E o \in orders : IsOrderOf(o, op[c])

\* A call that paid or cancelled has closed the order for all others.
Closed(r) == \E o \in orders : o.request = r /\ o.status # "PENDING"

Closes ==
  \A c \in Calls : pc[c] = "ok" /\ op[c] \in ChangeOp => Closed(op[c].request)

\* At most one call created the order of a request.
OneCreator ==
  \A c, d \in Calls :
    /\ pc[c] = "ok" /\ op[c] \in CreateOp
    /\ pc[d] = "ok" /\ op[d] \in CreateOp
    /\ op[c].request = op[d].request
    => c = d

\* Products are never deleted here, so that every cancellation finds its row.
UnitsOK ==
  /\ Products \subseteq rows
  /\ \A p \in Products : stock[p] + LiveUnits(p) = supply[p]

BaselineInv ==
  /\ TypeOK /\ OrdersInv /\ StepsOK /\ OwnProducts /\ UnitsOK
  /\ Returns /\ Closes /\ SettledOnce /\ OneCreator

-----------------------------------------------------------------------------
(* Operations *)

LEMMA OpFields ==
  /\ \A p \in NormalOp : /\ p.kind = "NORMAL" /\ p.user \in Users /\ p.request \in Requests
                         /\ p.target \in Products /\ p.quantity \in Nat \ {0}
  /\ \A p \in SeckillOp : /\ p.kind = "SECKILL" /\ p.user \in Users /\ p.request \in Requests
                          /\ p.target \in Activities
  /\ \A p \in ChangeOp : /\ p.kind \in {"PAY", "CANCEL"} /\ p.user \in Users
                         /\ p.request \in Requests
BY BaselineAssumption DEF NormalOp, SeckillOp, ChangeOp

\* What the order of a create call looks like
LEMMA WantedOrder ==
  ASSUME NEW p \in CreateOp
  PROVE  /\ \/ /\ p.kind = "NORMAL"
               /\ Wanted(p) = ProductOrder(p.user, p.target, p.request, p.quantity)
               /\ Wanted(p).activity = NoActivity /\ Wanted(p).product = p.target
               /\ p.target \in Products /\ p.quantity \in Nat \ {0}
            \/ /\ p.kind = "SECKILL"
               /\ Wanted(p) = SeckillOrder(p.user, p.target, p.request)
               /\ Wanted(p).activity = p.target /\ Wanted(p).product = ProductOf[p.target]
               /\ p.target \in Activities /\ Wanted(p).activity # NoActivity
         /\ Wanted(p).request = p.request /\ Wanted(p).user = p.user
         /\ p.user \in Users /\ p.request \in Requests
BY OpFields, StoreAssumption DEF CreateOp, Wanted, ProductOrder, SeckillOrder

-----------------------------------------------------------------------------
(* Steps *)

Creates(c) ==
  pc[c] = "commit" /\ op[c] \in CreateOp /\ CreateOrder(Wanted(op[c]))

Settles(c) ==
  /\ pc[c] \in {"update", "cancel"} /\ op[c] \in ChangeOp
  /\ \E o \in OwnOrders(op[c]), to \in {"PAID", "CANCELLED"} :
       o.status = "PENDING" /\ SetStatus(o, to)

CallStep(c) ==
  FindKnown(c) \/ FindBought(c) \/ CheckOffer(c) \/ Commit(c) \/ FindKnownAgain(c)
    \/ FindBoughtAgain(c) \/ GetForUser(c) \/ Pay(c) \/ Cancel(c)

Elsewhere ==
  \/ \E p \in Products, n \in Edits, sale \in BOOLEAN : UpdateProduct(p, n, sale)
  \/ \E a \in Activities : ActivityDeleted(a) \/ Clock(a)
  \/ UNCHANGED vars

LEMMA NextSteps ==
  ASSUME [Next]_vars
  PROVE  (\E c \in Calls : Arrive(c) \/ CallStep(c)) \/ Elsewhere
BY DEF Next, Create, CallStep, Elsewhere

LEMMA ElsewhereKeeps ==
  ASSUME Elsewhere
  PROVE  UNCHANGED <<pc, op, orders>>
BY DEF Elsewhere, UpdateProduct, ActivityDeleted, DeleteActivity, Clock, vars, orderVars

\* A call goes on from one of its own steps.
LEMMA CallMoves ==
  ASSUME TypeOK, StepsOK, NEW c \in Calls, CallStep(c)
  PROVE  /\ op' = op
         /\ op[c] \in CreateOp \cup ChangeOp
         /\ \E l : pc' = [pc EXCEPT ![c] = l]
         /\ op[c] \in CreateOp =>
              /\ pc[c] \in CreateSteps
              /\ pc'[c] \in CreateSteps \cup {"ok", "same", "conflict", "unavailable",
                               "out_of_stock", "not_found", "error"}
              /\ pc'[c] = "ok" => Creates(c)
              /\ pc'[c] = "same" => Matched(op[c]) /\ UNCHANGED orders
         /\ op[c] \in ChangeOp =>
              /\ pc[c] \in ChangeSteps
              /\ pc'[c] \in ChangeSteps \cup {"ok", "not_found", "forbidden", "bad_status", "error"}
              /\ pc'[c] = "ok" => Settles(c)
         /\ UNCHANGED orders \/ Creates(c) \/ Settles(c)
<1>0. /\ pc \in [Calls -> {"idle"} \cup InProgress \cup Answers]
      /\ pc[c] \in CreateSteps => op[c] \in CreateOp
      /\ pc[c] \in ChangeSteps => op[c] \in ChangeOp
      /\ \A p \in CreateOp : p \notin ChangeOp
      /\ \A p \in CreateOp : p.kind \in {"NORMAL", "SECKILL"}
  BY OpFields DEF TypeOK, StepsOK, CreateOp
<1> USE DEF CreateSteps, ChangeSteps, Goto, Fail
<1>1. CASE FindKnown(c) \/ FindBought(c) \/ CheckOffer(c) \/ FindBoughtAgain(c)
  <2>1. /\ pc[c] \in CreateSteps /\ op' = op /\ UNCHANGED orders
    BY <1>1 DEF FindKnown, FindBought, CheckOffer, FindBoughtAgain, storeVars, orderVars
  <2>2. CASE FindKnown(c)
    BY <1>0, <2>1, <2>2 DEF FindKnown
  <2>3. CASE FindBought(c)
    BY <1>0, <2>1, <2>3 DEF FindBought
  <2>4. CASE CheckOffer(c)
    BY <1>0, <2>1, <2>4 DEF CheckOffer
  <2>5. CASE FindBoughtAgain(c)
    BY <1>0, <2>1, <2>5 DEF FindBoughtAgain
  <2> QED
    BY <1>1, <2>2, <2>3, <2>4, <2>5
<1>2. CASE FindKnownAgain(c)
  BY <1>0, <1>2 DEF FindKnownAgain, storeVars, orderVars
<1>3. CASE Commit(c)
  BY <1>0, <1>3 DEF Commit, Creates, orderVars
<1>4. CASE GetForUser(c)
  BY <1>0, <1>4 DEF GetForUser, storeVars, orderVars
<1>5. CASE Pay(c) \/ Cancel(c)
  <2>1. /\ pc[c] \in {"update", "cancel"} /\ op' = op
        /\ UNCHANGED orders \/ \E o \in OwnOrders(op[c]), to \in {"PAID", "CANCELLED"} :
                                 o.status = "PENDING" /\ SetStatus(o, to)
        /\ \E l \in {"ok", "bad_status", "error"} : pc' = [pc EXCEPT ![c] = l]
        /\ pc' = [pc EXCEPT ![c] = "ok"] =>
             \E o \in OwnOrders(op[c]), to \in {"PAID", "CANCELLED"} :
               o.status = "PENDING" /\ SetStatus(o, to)
    BY <1>0, <1>5 DEF Pay, Cancel, UpdateOrderStatus, CancelOrderAndRestoreStock, orderVars
  <2> QED
    BY <1>0, <2>1 DEF Settles
<1> QED
  BY <1>1, <1>2, <1>3, <1>4, <1>5 DEF CallStep

LEMMA ArriveMoves ==
  ASSUME TypeOK, NEW c \in Calls, Arrive(c)
  PROVE  /\ UNCHANGED orders /\ pc[c] = "idle"
         /\ \E p \in CreateOp \cup ChangeOp :
              /\ op' = [op EXCEPT ![c] = p]
              /\ \/ p \in CreateOp /\ pc' = [pc EXCEPT ![c] = "known"]
                 \/ p \in ChangeOp /\ \E l \in {"owner", "cancel"} : pc' = [pc EXCEPT ![c] = l]
BY OpFields DEF Arrive, Goto, CreateOp, storeVars, orderVars

\* A call stays, or goes on as CallMoves says.
LEMMA AnswersStep ==
  ASSUME TypeOK, StepsOK, [Next]_vars
  PROVE  /\ \A c \in Calls : pc[c] # "idle" => op'[c] = op[c]
         /\ \A c \in Calls : pc'[c] \in {"ok", "same"} =>
              \/ pc[c] = pc'[c] /\ op'[c] = op[c]
              \/ /\ pc[c] \notin {"ok", "same"} /\ op'[c] = op[c]
                 /\ \/ pc'[c] = "ok" /\ op[c] \in CreateOp /\ Creates(c)
                    \/ pc'[c] = "ok" /\ op[c] \in ChangeOp /\ Settles(c)
                    \/ /\ pc'[c] = "same" /\ op[c] \in CreateOp
                       /\ Matched(op[c]) /\ UNCHANGED orders
         /\ \A c, d \in Calls : pc'[c] # pc[c] /\ pc'[d] # pc[d] => c = d
         /\ UNCHANGED orders \/ \E c \in Calls : Creates(c) \/ Settles(c)
         /\ StepsOK'
<1>0. /\ pc \in [Calls -> {"idle"} \cup InProgress \cup Answers]
      /\ op \in [Calls -> NormalOp \cup SeckillOp \cup ChangeOp \cup {NoOp}]
      /\ \A p \in CreateOp : p \notin ChangeOp
  BY OpFields DEF TypeOK, CreateOp
<1> USE DEF CreateSteps, ChangeSteps
<1>1. ASSUME NEW c \in Calls, CallStep(c)
      PROVE  /\ \A d \in Calls : pc[d] # "idle" => op'[d] = op[d]
             /\ \A d \in Calls : d # c => pc'[d] = pc[d] /\ op'[d] = op[d]
             /\ pc'[c] \in {"ok", "same"} =>
                  /\ pc[c] \notin {"ok", "same"} /\ op'[c] = op[c]
                  /\ \/ pc'[c] = "ok" /\ op[c] \in CreateOp /\ Creates(c)
                     \/ pc'[c] = "ok" /\ op[c] \in ChangeOp /\ Settles(c)
                     \/ /\ pc'[c] = "same" /\ op[c] \in CreateOp
                        /\ Matched(op[c]) /\ UNCHANGED orders
             /\ UNCHANGED orders \/ Creates(c) \/ Settles(c)
             /\ StepsOK'
  <2>1. /\ op' = op /\ op[c] \in CreateOp \cup ChangeOp
        /\ \A d \in Calls : d # c => pc'[d] = pc[d]
        /\ UNCHANGED orders \/ Creates(c) \/ Settles(c)
    BY <1>0, <1>1, CallMoves
  <2>2. CASE op[c] \in CreateOp
    <3>1. /\ pc[c] \in CreateSteps
          /\ pc'[c] \in CreateSteps \cup {"ok", "same", "conflict", "unavailable",
                           "out_of_stock", "not_found", "error"}
          /\ pc'[c] = "ok" => Creates(c)
          /\ pc'[c] = "same" => Matched(op[c]) /\ UNCHANGED orders
      BY <1>1, <2>2, CallMoves
    <3>2. StepsOK'
      BY <1>0, <2>1, <2>2, <3>1 DEF StepsOK
    <3> QED
      BY <2>1, <2>2, <3>1, <3>2
  <2>3. CASE op[c] \in ChangeOp
    <3>1. /\ pc[c] \in ChangeSteps
          /\ pc'[c] \in ChangeSteps \cup {"ok", "not_found", "forbidden", "bad_status", "error"}
          /\ pc'[c] = "ok" => Settles(c)
      BY <1>1, <2>3, CallMoves
    <3>2. StepsOK'
      BY <1>0, <2>1, <2>3, <3>1 DEF StepsOK
    <3> QED
      BY <2>1, <2>3, <3>1, <3>2
  <2> QED
    BY <2>1, <2>2, <2>3
<1>2. ASSUME NEW c \in Calls, Arrive(c)
      PROVE  /\ UNCHANGED orders /\ pc[c] = "idle" /\ pc'[c] \notin {"ok", "same"}
             /\ \A d \in Calls : d # c => pc'[d] = pc[d] /\ op'[d] = op[d]
             /\ StepsOK'
  <2>1. PICK p \in CreateOp \cup ChangeOp :
          /\ op' = [op EXCEPT ![c] = p]
          /\ \/ p \in CreateOp /\ pc' = [pc EXCEPT ![c] = "known"]
             \/ p \in ChangeOp /\ \E l \in {"owner", "cancel"} : pc' = [pc EXCEPT ![c] = l]
    BY <1>2, ArriveMoves
  <2>3. op'[c] = p /\ \A d \in Calls : d # c => op'[d] = op[d]
    BY <1>0, <2>1
  <2>2. /\ op'[c] = p
        /\ \/ p \in CreateOp /\ pc'[c] = "known"
           \/ p \in ChangeOp /\ pc'[c] \in {"owner", "cancel"}
        /\ \A d \in Calls : d # c => pc'[d] = pc[d] /\ op'[d] = op[d]
    BY <1>0, <2>1, <2>3
  <2>4. StepsOK'
    BY <2>2 DEF StepsOK
  <2> QED
    BY <1>2, <2>2, <2>4, ArriveMoves
<1>3. CASE Elsewhere
  BY <1>3, ElsewhereKeeps DEF StepsOK
<1> QED
  BY <1>1, <1>2, <1>3, NextSteps

-----------------------------------------------------------------------------
(* The order table *)

LEMMA StoreStep ==
  ASSUME TypeOK, StepsOK, [Next]_vars
  PROVE  \/ [OrdersNext]_orderVars
         \/ \E p \in Products, n \in Edits, sale \in BOOLEAN : UpdateProduct(p, n, sale)
<1>1. ASSUME NEW c \in Calls, Commit(c)
      PROVE  [OrdersNext]_orderVars
  <2>1. op[c] \in CreateOp
    BY <1>1 DEF Commit, StepsOK, CreateSteps
  <2>2. CreateOrder(Wanted(op[c])) \/ UNCHANGED orderVars
    BY <1>1 DEF Commit
  <2> QED
    BY <2>1, <2>2, WantedOrder DEF CreateOrder, OrdersNext
<1>2. ASSUME NEW c \in Calls, Pay(c) \/ Cancel(c)
      PROVE  [OrdersNext]_orderVars
  BY <1>2 DEF Pay, Cancel, OwnOrders, OrdersNext
<1>3. ASSUME NEW c \in Calls, \/ Arrive(c) \/ FindKnown(c) \/ FindBought(c) \/ CheckOffer(c)
                              \/ FindKnownAgain(c) \/ FindBoughtAgain(c) \/ GetForUser(c)
      PROVE  UNCHANGED orderVars
  BY <1>3 DEF Arrive, FindKnown, FindBought, CheckOffer, FindKnownAgain, FindBoughtAgain,
     GetForUser, storeVars
<1>4. ASSUME NEW a \in Activities, ActivityDeleted(a) \/ Clock(a)
      PROVE  [OrdersNext]_orderVars
  BY <1>4 DEF ActivityDeleted, Clock, OrdersNext
<1>5. CASE UNCHANGED vars
  BY <1>5 DEF vars
<1> QED
  BY <1>1, <1>2, <1>3, <1>4, <1>5, NextSteps DEF CallStep, Elsewhere

LEMMA OrdersStep ==
  ASSUME TypeOK, OrdersInv, StepsOK, [Next]_vars
  PROVE  OrdersInv'
<1>1. ASSUME NEW p \in Products, NEW n \in Edits, NEW sale \in BOOLEAN, UpdateProduct(p, n, sale)
      PROVE  OrdersInv'
  <2>1. /\ stock' \in [Products -> Nat] /\ onSale' \in SUBSET Products
        /\ UNCHANGED <<rows, available, orders>>
    BY <1>1, BaselineAssumption DEF UpdateProduct, OrdersInv, OrdersTypeOK
  <2> QED
    BY <2>1 DEF OrdersInv, OrdersTypeOK, OneUnitEach, OneOrder, StockConserved, LiveOrders
<1> QED
  BY <1>1, StoreStep, OrdersNextKeeps

\* An order keeps its buyer, activity and product, whatever happens to it.
LEMMA OrdersPersist ==
  ASSUME TypeOK, OrdersInv, StepsOK, [Next]_vars, NEW o \in orders
  PROVE  \E n \in orders' : /\ n.request = o.request /\ n.user = o.user
                            /\ n.activity = o.activity /\ n.product = o.product
                            /\ o.status # "PENDING" => n.status # "PENDING"
<1>1. CASE UNCHANGED orders
  BY <1>1
<1>2. ASSUME NEW c \in Calls, Creates(c)
      PROVE  orders \subseteq orders'
  BY <1>2 DEF Creates, CreateOrder, CreateProductOrder, CreateSeckillOrder
<1>3. ASSUME NEW c \in Calls, Settles(c)
      PROVE  \E n \in orders' : /\ n.request = o.request /\ n.user = o.user
                                /\ n.activity = o.activity /\ n.product = o.product
                                /\ o.status # "PENDING" => n.status # "PENDING"
  <2>1. PICK x \in orders, to \in {"PAID", "CANCELLED"} :
          x.status = "PENDING" /\ orders' = (orders \ {x}) \cup {[x EXCEPT !.status = to]}
    BY <1>3 DEF Settles, OwnOrders, SetStatus
  <2>2. CASE o = x
    <3>1. x \in Order
      BY DEF OrdersInv, OrdersTypeOK
    <3>2. [x EXCEPT !.status = to].request = o.request
          /\ [x EXCEPT !.status = to].user = o.user
          /\ [x EXCEPT !.status = to].activity = o.activity
          /\ [x EXCEPT !.status = to].product = o.product
      BY <2>2, <3>1 DEF Order
    <3> QED
      BY <2>1, <2>2, <3>2
  <2>3. CASE o # x
    BY <2>1, <2>3
  <2> QED
    BY <2>2, <2>3
<1> QED
  BY <1>1, <1>2, <1>3, AnswersStep

LEMMA OwnProductsStep ==
  ASSUME TypeOK, OrdersInv, StepsOK, OwnProducts, [Next]_vars
  PROVE  OwnProducts'
<1>1. CASE UNCHANGED orders
  BY <1>1 DEF OwnProducts
<1>2. ASSUME NEW c \in Calls, Creates(c)
      PROVE  OwnProducts'
  <2>1. orders' = orders \cup {Wanted(op[c])} /\ op[c] \in CreateOp
    BY <1>2 DEF Creates, CreateOrder, CreateProductOrder, CreateSeckillOrder
  <2>2. Wanted(op[c]).activity # NoActivity =>
          Wanted(op[c]).product = ProductOf[Wanted(op[c]).activity]
    BY <2>1, WantedOrder
  <2> QED
    BY <2>1, <2>2 DEF OwnProducts
<1>3. ASSUME NEW c \in Calls, Settles(c)
      PROVE  OwnProducts'
  <2>1. PICK x \in orders, to \in {"PAID", "CANCELLED"} :
          orders' = (orders \ {x}) \cup {[x EXCEPT !.status = to]}
    BY <1>3 DEF Settles, OwnOrders, SetStatus
  <2>2. [x EXCEPT !.status = to].activity = x.activity
        /\ [x EXCEPT !.status = to].product = x.product
    BY DEF OrdersInv, OrdersTypeOK, Order
  <2> QED
    BY <2>1, <2>2 DEF OwnProducts
<1> QED
  BY <1>1, <1>2, <1>3, AnswersStep

\* The order a successful create call made
LEMMA CreatedOrder ==
  ASSUME NEW c, Creates(c)
  PROVE  /\ ~OrderedBy(op[c].request)
         /\ Wanted(op[c]) \in orders' /\ IsOrderOf(Wanted(op[c]), op[c])
<1>1. op[c] \in CreateOp /\ CreateOrder(Wanted(op[c]))
  BY DEF Creates
<1>2. Wanted(op[c]) \in orders' /\ ~Duplicate(Wanted(op[c]))
  BY <1>1 DEF CreateOrder, CreateProductOrder, CreateSeckillOrder
<1> QED
  BY <1>1, <1>2, WantedOrder DEF Duplicate, IsOrderOf

LEMMA ReturnsStep ==
  ASSUME TypeOK, OrdersInv, StepsOK, OwnProducts, Returns, [Next]_vars
  PROVE  Returns'
<1> SUFFICES ASSUME NEW c \in Calls, pc'[c] \in {"ok", "same"}, op'[c] \in CreateOp
             PROVE  \E o \in orders' : IsOrderOf(o, op'[c])
  BY DEF Returns, IsOrderOf, CreateOp
<1>1. op'[c] = op[c]
  BY AnswersStep
<1>2. CASE pc[c] = pc'[c]
  <2>1. PICK o \in orders : IsOrderOf(o, op[c])
    BY <1>1, <1>2 DEF Returns
  <2> QED
    BY <1>1, <2>1, OrdersPersist DEF IsOrderOf
<1>3. CASE Creates(c)
  BY <1>1, <1>3, CreatedOrder
<1>4. CASE Matched(op[c]) /\ UNCHANGED orders
  <2>1. PICK o \in orders : o.request = op[c].request /\ Matches(o, op[c])
    BY <1>4 DEF Matched
  <2>2. IsOrderOf(o, op[c])
    BY <1>1, <2>1, WantedOrder DEF Matches, IsOrderOf, OwnProducts
  <2> QED
    BY <1>1, <1>4, <2>2
<1> QED
  BY <1>1, <1>2, <1>3, <1>4, AnswersStep, OpFields DEF CreateOp

LEMMA ClosesStep ==
  ASSUME TypeOK, OrdersInv, StepsOK, Closes, [Next]_vars
  PROVE  Closes'
<1> SUFFICES ASSUME NEW c \in Calls, pc'[c] = "ok", op'[c] \in ChangeOp
             PROVE  \E o \in orders' : o.request = op[c].request /\ o.status # "PENDING"
  BY AnswersStep DEF Closes, Closed
<1>1. op'[c] = op[c]
  BY AnswersStep
<1>2. CASE pc[c] = "ok"
  <2>1. PICK o \in orders : o.request = op[c].request /\ o.status # "PENDING"
    BY <1>1, <1>2 DEF Closes, Closed
  <2> QED
    BY <2>1, OrdersPersist
<1>3. CASE Settles(c)
  <2>1. PICK x \in orders, to \in {"PAID", "CANCELLED"} :
          /\ x.request = op[c].request
          /\ orders' = (orders \ {x}) \cup {[x EXCEPT !.status = to]}
    BY <1>3 DEF Settles, OwnOrders, SetStatus
  <2>2. [x EXCEPT !.status = to].request = x.request /\ [x EXCEPT !.status = to].status = to
    BY DEF OrdersInv, OrdersTypeOK, Order
  <2> QED
    BY <2>1, <2>2
<1> QED
  BY <1>1, <1>2, <1>3, AnswersStep, OpFields DEF CreateOp

LEMMA OneCreatorStep ==
  ASSUME TypeOK, OrdersInv, StepsOK, Returns, OneCreator, [Next]_vars
  PROVE  OneCreator'
<1> SUFFICES ASSUME NEW c \in Calls, NEW d \in Calls,
                    pc'[c] = "ok", op'[c] \in CreateOp, pc'[d] = "ok", op'[d] \in CreateOp,
                    op'[c].request = op'[d].request
             PROVE  c = d
  BY DEF OneCreator, CreateOp
<1>1. op'[c] = op[c] /\ op'[d] = op[d]
  BY AnswersStep
<1>2. \A b \in Calls : pc[b] = "ok" /\ op[b] \in CreateOp => OrderedBy(op[b].request)
  <2> SUFFICES ASSUME NEW b \in Calls, pc[b] = "ok", op[b] \in CreateOp
               PROVE  OrderedBy(op[b].request)
    OBVIOUS
  <2>1. PICK o \in orders : IsOrderOf(o, op[b])
    BY DEF Returns
  <2> QED
    BY <2>1, WantedOrder DEF IsOrderOf, OrderedBy
<1>3. ASSUME NEW b \in Calls, pc'[b] = "ok", op'[b] \in CreateOp
      PROVE  /\ pc[b] # "ok" => ~OrderedBy(op[b].request)
             /\ pc[b] # "ok" => pc'[b] # pc[b]
  <2>1. pc[b] # "ok" => Creates(b)
    BY <1>3, AnswersStep, OpFields DEF CreateOp
  <2> QED
    BY <1>3, <2>1, CreatedOrder
<1>4. CASE pc[c] = "ok" /\ pc[d] = "ok"
  BY <1>1, <1>4 DEF OneCreator
<1>5. CASE pc[c] # "ok" /\ pc[d] # "ok"
  BY <1>3, <1>5, AnswersStep
<1>6. CASE (pc[c] = "ok" /\ pc[d] # "ok") \/ (pc[c] # "ok" /\ pc[d] = "ok")
  BY <1>1, <1>2, <1>3, <1>6
<1> QED
  BY <1>4, <1>5, <1>6

LEMMA SettledOnceStep ==
  ASSUME TypeOK, OrdersInv, StepsOK, Closes, SettledOnce, [Next]_vars
  PROVE  SettledOnce'
<1> SUFFICES ASSUME NEW c \in Calls, NEW d \in Calls,
                    pc'[c] = "ok", op'[c].kind \in {"PAY", "CANCEL"},
                    pc'[d] = "ok", op'[d].kind \in {"PAY", "CANCEL"},
                    op'[c].request = op'[d].request
             PROVE  c = d
  BY DEF SettledOnce
<1>1. op'[c] = op[c] /\ op'[d] = op[d] /\ op[c] \in ChangeOp /\ op[d] \in ChangeOp
  <2>1. op'[c] = op[c] /\ op'[d] = op[d]
    BY AnswersStep
  <2>2. op'[c] \in CreateOp \cup ChangeOp /\ op'[d] \in CreateOp \cup ChangeOp
    BY AnswersStep DEF StepsOK
  <2>3. \A p \in CreateOp : p.kind \notin {"PAY", "CANCEL"}
    BY OpFields DEF CreateOp
  <2> QED
    BY <2>1, <2>2, <2>3
<1>2. ASSUME NEW b \in Calls, pc'[b] = "ok", pc[b] # "ok", op[b] \in ChangeOp
      PROVE  pc'[b] # pc[b] /\ ~Closed(op[b].request)
  <2>1. Settles(b)
    BY <1>2, AnswersStep, OpFields DEF CreateOp
  <2>2. PICK x \in orders : x.request = op[b].request /\ x.status = "PENDING"
    BY <2>1 DEF Settles, OwnOrders
  <2>3. \A o \in orders : o.request = op[b].request => o = x
    BY <2>2 DEF OrdersInv, OneOrder
  <2> QED
    BY <1>2, <2>2, <2>3 DEF Closed
<1>3. \A b \in Calls : pc[b] = "ok" /\ op[b] \in ChangeOp => Closed(op[b].request)
  BY DEF Closes
<1>4. CASE pc[c] = "ok" /\ pc[d] = "ok"
  BY <1>1, <1>4 DEF SettledOnce
<1>5. CASE pc[c] # "ok" /\ pc[d] # "ok"
  BY <1>1, <1>2, <1>5, AnswersStep
<1>6. CASE (pc[c] = "ok" /\ pc[d] # "ok") \/ (pc[c] # "ok" /\ pc[d] = "ok")
  BY <1>1, <1>2, <1>3, <1>6
<1> QED
  BY <1>4, <1>5, <1>6


LEMMA TypeStep ==
  ASSUME TypeOK, OrdersInv, StepsOK, [Next]_vars
  PROVE  TypeOK'
<1>0. /\ OrdersTypeOK'
      /\ pc \in [Calls -> {"idle"} \cup InProgress \cup Answers]
      /\ op \in [Calls -> NormalOp \cup SeckillOp \cup ChangeOp \cup {NoOp}]
      /\ window \in [Activities -> {"before", "during", "after"}]
      /\ supply \in [Products -> Int] /\ stock \in [Products -> Nat]
      /\ edits \in 0 .. MaxEdits /\ errors \in 0 .. MaxErrors
      /\ MaxEdits \in Nat /\ MaxErrors \in Nat
  BY OrdersStep, BaselineAssumption DEF TypeOK, OrdersTypeOK, OrdersInv
<1>1. ASSUME NEW c \in Calls, CallStep(c)
      PROVE  TypeOK'
  <2>1. /\ UNCHANGED <<op, window, supply, edits>>
        /\ errors' = errors \/ (errors < MaxErrors /\ errors' = errors + 1)
    <3> USE DEF Fail, storeVars
    <3>1. CASE FindKnown(c) \/ FindBought(c) \/ CheckOffer(c)
      BY <3>1 DEF FindKnown, FindBought, CheckOffer
    <3>2. CASE FindKnownAgain(c) \/ FindBoughtAgain(c) \/ GetForUser(c)
      BY <3>2 DEF FindKnownAgain, FindBoughtAgain, GetForUser
    <3>3. CASE Commit(c)
      BY <3>3 DEF Commit
    <3>4. CASE Pay(c) \/ Cancel(c)
      BY <3>4 DEF Pay, Cancel
    <3> QED
      BY <1>1, <3>1, <3>2, <3>3, <3>4 DEF CallStep
  <2>2. errors' \in 0 .. MaxErrors
    BY <1>0, <2>1
  <2>3. pc' \in [Calls -> {"idle"} \cup InProgress \cup Answers]
    <3>1. op[c] \in CreateOp \cup ChangeOp /\ \E l : pc' = [pc EXCEPT ![c] = l]
      BY <1>1, CallMoves
    <3>2. pc'[c] \in CreateSteps \cup ChangeSteps \cup
            {"ok", "same", "conflict", "unavailable", "out_of_stock", "not_found",
             "error", "forbidden", "bad_status"}
      <4>1. CASE op[c] \in CreateOp
        BY <1>1, <4>1, CallMoves
      <4>2. CASE op[c] \in ChangeOp
        BY <1>1, <4>2, CallMoves
      <4> QED
        BY <3>1, <4>1, <4>2
    <3>3. pc'[c] \in InProgress \cup Answers
      BY <3>2 DEF CreateSteps, ChangeSteps, InProgress, Answers
    <3> QED
      BY <1>0, <3>1, <3>3
  <2>4. op' \in [Calls -> NormalOp \cup SeckillOp \cup ChangeOp \cup {NoOp}]
        /\ window' \in [Activities -> {"before", "during", "after"}]
        /\ supply' \in [Products -> Int] /\ edits' \in 0 .. MaxEdits
    BY <1>0, <2>1
  <2> QED
    BY <1>0, <2>2, <2>3, <2>4 DEF TypeOK
<1>2. ASSUME NEW c \in Calls, Arrive(c)
      PROVE  TypeOK'
  <2>1. UNCHANGED <<window, supply, edits, errors>>
    BY <1>2 DEF Arrive, storeVars
  <2>2. PICK p \in NormalOp \cup SeckillOp \cup ChangeOp, l \in {"owner", "cancel", "known"} :
          op' = [op EXCEPT ![c] = p] /\ pc' = [pc EXCEPT ![c] = l]
    BY <1>2, ArriveMoves DEF CreateOp
  <2> QED
    BY <1>0, <2>1, <2>2 DEF TypeOK, InProgress
<1>3. ASSUME NEW p \in Products, NEW n \in Edits, NEW sale \in BOOLEAN, UpdateProduct(p, n, sale)
      PROVE  TypeOK'
  <2>1. n \in Nat /\ edits < MaxEdits /\ edits' = edits + 1
        /\ supply' = [supply EXCEPT ![p] = supply[p] + n - stock[p]]
        /\ UNCHANGED <<pc, op, window, errors>>
    BY <1>3, BaselineAssumption DEF UpdateProduct, Edit
  <2> QED
    BY <1>0, <2>1 DEF TypeOK
<1>4. ASSUME NEW a \in Activities, ActivityDeleted(a) \/ Clock(a)
      PROVE  TypeOK'
  <2>1. CASE ActivityDeleted(a)
    BY <1>0, <2>1 DEF ActivityDeleted, Edit, TypeOK
  <2>2. CASE Clock(a)
    <3>1. window' \in [Activities -> {"before", "during", "after"}]
      BY <1>0, <2>2 DEF Clock
    <3> QED
      BY <1>0, <2>2, <3>1 DEF Clock, TypeOK
  <2> QED
    BY <1>4, <2>1, <2>2
<1>5. CASE UNCHANGED vars
  BY <1>0, <1>5 DEF vars, TypeOK
<1> QED
  BY <1>1, <1>2, <1>3, <1>4, <1>5, NextSteps DEF Elsewhere

\* An edit of a product is the one step that changes what the product holds, and
\* supply changes with it.
LEMMA UnitsStep ==
  ASSUME TypeOK, OrdersInv, StepsOK, UnitsOK, [Next]_vars
  PROVE  UnitsOK'
<1>1. ASSUME NEW p \in Products, NEW n \in Edits, NEW sale \in BOOLEAN, UpdateProduct(p, n, sale)
      PROVE  UnitsOK'
  <2>1. n \in Nat /\ stock \in [Products -> Nat] /\ supply \in [Products -> Int]
    BY BaselineAssumption DEF TypeOK, OrdersTypeOK
  <2>2. /\ stock' = [stock EXCEPT ![p] = n]
        /\ supply' = [supply EXCEPT ![p] = supply[p] + n - stock[p]]
        /\ rows' = rows /\ orders' = orders
    BY <1>1 DEF UpdateProduct
  <2>3. ASSUME NEW x \in Products
        PROVE  stock'[x] + LiveUnits(x)' = supply'[x]
    <3>1. OrdersOf(x)' = OrdersOf(x)
      BY <2>2 DEF OrdersOf
    <3>2. LiveUnits(x)' = LiveUnits(x)
      BY <3>1 DEF LiveUnits
    <3>3. LiveUnits(x) \in Nat
      BY OrdersCounted DEF TypeOK
    <3>4. stock[x] + LiveUnits(x) = supply[x]
      BY DEF UnitsOK
    <3>5. CASE x = p
      BY <2>1, <2>2, <3>2, <3>3, <3>4, <3>5
    <3>6. CASE x # p
      BY <2>1, <2>2, <3>2, <3>4, <3>6
    <3> QED
      BY <3>5, <3>6
  <2> QED
    BY <2>2, <2>3 DEF UnitsOK
<1>2. ASSUME [OrdersNext]_orderVars, UNCHANGED supply
      PROVE  UnitsOK'
  <2>1. \A p \in Products : stock'[p] + LiveUnits(p)' = supply'[p]
    BY <1>2, WritesKeepUnits DEF UnitsOK, OrdersInv, TablesInv
  <2>2. Products \subseteq rows'
    BY <1>2, StoreAssumption DEF UnitsOK, OrdersNext, orderVars, CreateSeckillOrder,
       CreateProductOrder, UpdateOrderStatus, CancelOrderAndRestoreStock, DeleteActivity
  <2> QED
    BY <2>1, <2>2 DEF UnitsOK
<1>3. \/ UNCHANGED supply
      \/ \E p \in Products, n \in Edits, sale \in BOOLEAN : UpdateProduct(p, n, sale)
  <2>1. ASSUME NEW c \in Calls, CallStep(c) \/ Arrive(c)
        PROVE  UNCHANGED supply
    <3>1. CASE FindKnown(c) \/ FindBought(c) \/ CheckOffer(c) \/ Arrive(c)
      BY <3>1 DEF FindKnown, FindBought, CheckOffer, Arrive, storeVars
    <3>2. CASE FindKnownAgain(c) \/ FindBoughtAgain(c) \/ GetForUser(c)
      BY <3>2 DEF FindKnownAgain, FindBoughtAgain, GetForUser, storeVars
    <3>3. CASE Commit(c) \/ Pay(c) \/ Cancel(c)
      BY <3>3 DEF Commit, Pay, Cancel
    <3> QED
      BY <2>1, <3>1, <3>2, <3>3 DEF CallStep
  <2> QED
    BY <2>1, NextSteps DEF Elsewhere, ActivityDeleted, Clock, vars
<1> QED
  BY <1>1, <1>2, <1>3, StoreStep

-----------------------------------------------------------------------------
(* What holds in every behaviour *)

LEMMA InitBaseline == ASSUME Init PROVE BaselineInv
<1>1. OrdersInv
  BY InitOrders DEF Init
<1>2. TypeOK
  BY <1>1, StoreAssumption, BaselineAssumption DEF Init, TypeOK, OrdersInv
<1>3. \A c \in Calls : pc[c] = "idle"
  BY DEF Init
<1>4. orders = {}
  BY DEF Init, OrdersInit
<1>5. UnitsOK
  <2>1. \A p \in Products : OrdersOf(p) = {}
    BY <1>4 DEF OrdersOf
  <2>2. \A p \in Products : LiveUnits(p) = 0
    BY <2>1, UnitsEmpty DEF LiveUnits
  <2>3. Products \subseteq rows /\ stock = supply /\ stock \in [Products -> Nat]
    BY StoreAssumption DEF Init, OrdersInit
  <2> QED
    BY <2>2, <2>3 DEF UnitsOK
<1> QED
  BY <1>1, <1>2, <1>3, <1>4, <1>5 DEF BaselineInv, StepsOK, OwnProducts, Returns, Closes,
     SettledOnce, OneCreator, CreateSteps, ChangeSteps

\* The inductive invariant that the theorems below are parts of
THEOREM BaselineInvariant == Spec => []BaselineInv
<1>1. Init => BaselineInv
  BY InitBaseline
<1>2. BaselineInv /\ [Next]_vars => BaselineInv'
  <2> SUFFICES ASSUME BaselineInv, [Next]_vars PROVE BaselineInv'
    OBVIOUS
  <2>1. TypeOK /\ OrdersInv /\ StepsOK /\ OwnProducts /\ UnitsOK /\ Returns /\ Closes
        /\ SettledOnce /\ OneCreator
    BY DEF BaselineInv
  <2>2. TypeOK' /\ OrdersInv' /\ StepsOK' /\ UnitsOK'
    BY <2>1, TypeStep, OrdersStep, AnswersStep, UnitsStep
  <2>3. OwnProducts' /\ Returns' /\ Closes' /\ SettledOnce' /\ OneCreator'
    BY <2>1, OwnProductsStep, ReturnsStep, ClosesStep, SettledOnceStep, OneCreatorStep
  <2> QED
    BY <2>2, <2>3 DEF BaselineInv
<1> QED
  BY <1>1, <1>2, PTL DEF Spec

\* The variables of the endpoints keep their types; no stock counter of MySQL is
\* ever negative.
THEOREM BaselineTypes == Spec => []TypeOK
BY BaselineInvariant, PTL DEF BaselineInv

\* Both stocks always account for every order that is not cancelled: whatever
\* calls overlap, fail or lose a reply, no unit is lost or invented.
THEOREM NoUnitIsLost == Spec => []UnitsConserved
<1>1. BaselineInv => UnitsConserved
  BY DEF BaselineInv, OrdersInv, UnitsOK, UnitsConserved
<1> QED
  BY <1>1, BaselineInvariant, PTL

\* Of all calls that pay or cancel one order at most one succeeds, however they
\* overlap with each other and with lost replies
\* (WHERE status = 'PENDING' in dao.UpdateOrderStatus and CancelOrderAndRestoreStock).
THEOREM OneSettlement == Spec => []SettledOnce
BY BaselineInvariant, PTL DEF BaselineInv

\* What a create call of service/order.go is told agrees with MySQL, after any
\* race of replays, lost replies, deletions and edits.
THEOREM AnswersTrue == Spec => []AnswersAreTrue
<1>1. BaselineInv => AnswersAreTrue
  <2> SUFFICES ASSUME BaselineInv, NEW c \in Calls,
                      pc[c] \in {"ok", "same"}, op[c].kind \in {"NORMAL", "SECKILL"}
               PROVE  /\ \E o \in orders : IsOrderOf(o, op[c])
                      /\ \A d \in Calls :
                           /\ pc[c] = "ok" /\ pc[d] = "ok"
                           /\ op[d].kind \in {"NORMAL", "SECKILL"}
                           /\ op[d].request = op[c].request
                           => c = d
    BY DEF AnswersAreTrue, IsOrderOf
  <2>1. \A d \in Calls :
          pc[d] \in {"ok", "same"} /\ op[d].kind \in {"NORMAL", "SECKILL"}
            => op[d] \in CreateOp
    <3>1. \A p \in ChangeOp : p.kind \notin {"NORMAL", "SECKILL"}
      BY OpFields
    <3>2. \A d \in Calls :
            pc[d] \in {"ok", "same"} => op[d] \in CreateOp \/ op[d] \in ChangeOp
      BY DEF BaselineInv, StepsOK
    <3> QED
      BY <3>1, <3>2
  <2>2. \E o \in orders : IsOrderOf(o, op[c])
    BY <2>1 DEF BaselineInv, Returns
  <2> QED
    BY <2>1, <2>2 DEF BaselineInv, OneCreator
<1> QED
  BY <1>1, BaselineInvariant, PTL

-----------------------------------------------------------------------------
(* The end of the sale *)

\* A call gets to its transaction by the check of what it orders only.
LEMMA CheckedFirst ==
  ASSUME TypeOK, StepsOK, [Next]_vars, NEW c \in Calls,
         pc[c] # "commit", pc'[c] = "commit", op'[c].kind = "SECKILL"
  PROVE  op'[c] = op[c] /\ window[op[c].target] = "during"
<1>0. pc \in [Calls -> {"idle"} \cup InProgress \cup Answers]
  BY DEF TypeOK
<1>1. ASSUME NEW d \in Calls, Arrive(d)
      PROVE  FALSE
  BY <1>0, <1>1, ArriveMoves
<1>2. PICK d \in Calls : CallStep(d)
  BY <1>1, NextSteps, ElsewhereKeeps
<1>3. d = c /\ op' = op
  BY <1>0, <1>2, CallMoves
<1>4. CheckOffer(c)
  <2> USE <1>0 DEF Goto, Fail
  <2>1. ~FindKnown(c) /\ ~FindBought(c)
    BY DEF FindKnown, FindBought
  <2>2. ~Commit(c)
    BY DEF Commit
  <2>3. ~FindKnownAgain(c) /\ ~FindBoughtAgain(c)
    BY DEF FindKnownAgain, FindBoughtAgain
  <2>4. ~GetForUser(c)
    BY DEF GetForUser
  <2>5. ~Pay(c) /\ ~Cancel(c)
    BY DEF Pay, Cancel
  <2> QED
    BY <1>2, <1>3, <2>1, <2>2, <2>3, <2>4, <2>5 DEF CallStep
<1>5. op[c].kind = "SECKILL" => window[op[c].target] = "during"
  BY <1>0, <1>4 DEF CheckOffer, Goto, Fail
<1> QED
  BY <1>3, <1>5

LEMMA SalesEndStep ==
  ASSUME TypeOK, OrdersInv, StepsOK, [Next]_vars, NEW a \in Activities,
         window[a] # "during", \A c \in Calls : ~UnderWay(c, a)
  PROVE  Sold(a)' = Sold(a) /\ \A c \in Calls : ~UnderWay(c, a)'
<1>1. Sold(a)' = Sold(a)
  <2>1. CASE UNCHANGED orders
    BY <2>1 DEF Sold
  <2>2. ASSUME NEW c \in Calls, Creates(c)
        PROVE  Sold(a)' = Sold(a)
    <3>1. orders' = orders \cup {Wanted(op[c])}
      BY <2>2 DEF Creates, CreateOrder, CreateProductOrder, CreateSeckillOrder
    <3>2. Wanted(op[c]).activity # a
      <4>1. a # NoActivity
        BY StoreAssumption
      <4> QED
        BY <2>2, <4>1, WantedOrder DEF Creates, UnderWay
    <3> QED
      BY <3>1, <3>2 DEF Sold
  <2>3. ASSUME NEW c \in Calls, Settles(c)
        PROVE  Sold(a)' = Sold(a)
    <3>1. PICK o \in orders, to \in {"PAID", "CANCELLED"} :
            orders' = (orders \ {o}) \cup {[o EXCEPT !.status = to]}
      BY <2>3 DEF Settles, OwnOrders, SetStatus
    <3>2. /\ [o EXCEPT !.status = to].request = o.request
          /\ [o EXCEPT !.status = to].activity = o.activity
      BY DEF OrdersInv, OrdersTypeOK, Order
    <3> QED
      BY <3>1, <3>2 DEF Sold
  <2> QED
    BY <2>1, <2>2, <2>3, AnswersStep
<1>2. ASSUME NEW c \in Calls, UnderWay(c, a)'
      PROVE  FALSE
  <2>1. pc'[c] = "commit" /\ op'[c].kind = "SECKILL" /\ op'[c].target = a
    BY <1>2 DEF UnderWay
  <2>2. CASE pc[c] = "commit"
    BY <2>1, <2>2, AnswersStep DEF UnderWay
  <2>3. CASE pc[c] # "commit"
    BY <2>1, <2>3, CheckedFirst
  <2> QED
    BY <2>2, <2>3
<1> QED
  BY <1>1, <1>2

\* Once an activity is not running and the last call that passed its check is
\* through, nothing of it is sold any more, however calls overlap, are retried or
\* lose a reply (the check of StartTime and EndTime in service/order.go).
THEOREM NothingSoldAfterwards == Spec => SalesEnd
<1>1. BaselineInv /\ [Next]_vars =>
        \A a \in Activities :
          window[a] # "during" /\ (\A c \in Calls : ~UnderWay(c, a)) =>
            Sold(a)' = Sold(a) /\ \A c \in Calls : ~UnderWay(c, a)'
  BY SalesEndStep DEF BaselineInv
<1> QED
  BY <1>1, BaselineInvariant, PTL DEF Spec, SalesEnd
=============================================================================
