---------------------------- MODULE BaselineOrders ----------------------------
(***************************************************************************)
(* The synchronous order endpoints: service/order.go over dao/order.go.     *)
(* Each call is one request of one user; a step is one MySQL statement or   *)
(* transaction, so that what a call read may be stale when it acts on it.   *)
(*                                                                         *)
(* Order ids are left out: an order is named by its request id.             *)
(***************************************************************************)
EXTENDS StockUnits

CONSTANTS
  Calls,       \* calls in a behaviour
  NoOp,        \* the operation of a call that has not arrived
  Quantities,  \* quantities normal orders ask for
  Edits,       \* stock values an administrator enters
  MaxEdits,    \* edits of products and deletions of activities in a behaviour
  MaxErrors    \* MySQL errors in a behaviour

ASSUME BaselineAssumption ==
  /\ Quantities \subseteq Nat \ {0}
  /\ Edits \subseteq Nat
  /\ MaxEdits \in Nat
  /\ MaxErrors \in Nat

VARIABLES
  pc,      \* where a call is, or how it was answered
  op,      \* what a call asks for
  window,  \* where the clock is relative to [StartTime, EndTime) of an activity
  supply,  \* units ever put into products.stock (not kept by the program)
  edits, errors

vars == <<orderVars, pc, op, window, supply, edits, errors>>
storeVars == <<orderVars, supply, window, edits>>

NormalOp  == [kind : {"NORMAL"}, user : Users, request : Requests,
              target : Products, quantity : Quantities]
SeckillOp == [kind : {"SECKILL"}, user : Users, request : Requests,
              target : Activities, quantity : {1}]
ChangeOp  == [kind : {"PAY", "CANCEL"}, user : Users, request : Requests]

\* The order a create call builds, and whether an existing order is that order
Wanted(p) ==
  IF p.kind = "NORMAL"
    THEN ProductOrder(p.user, p.target, p.request, p.quantity)
    ELSE SeckillOrder(p.user, p.target, p.request)

\* Faulty variant of Matches: whoever owns the order
MatchesAnyUser(o, p) ==
  LET w == Wanted(p)
  IN  o.activity = w.activity /\ (p.kind = "NORMAL" => o.product = w.product)

Matches(o, p) ==
  LET w == Wanted(p)
  IN  o.user = w.user /\ o.activity = w.activity
      /\ (p.kind = "NORMAL" => o.product = w.product)

Matched(p) == \E o \in orders : o.request = p.request /\ Matches(o, p)

InProgress == {"known", "bought", "offer", "commit", "known_again", "bought_again",
               "owner", "update", "cancel"}
\* ok: the call returns an order it created, or changed; same: an earlier one
Answers == {"ok", "same", "conflict", "unavailable", "out_of_stock",
            "not_found", "forbidden", "bad_status", "error"}

Init ==
  /\ OrdersInit
  /\ pc = [c \in Calls |-> "idle"]
  /\ op = [c \in Calls |-> NoOp]
  /\ window \in [Activities -> {"before", "during"}]
  /\ supply = ProductStock
  /\ edits = 0
  /\ errors = 0

Goto(c, l) == pc' = [pc EXCEPT ![c] = l]

\* The statement at hand fails and the call returns MySQL's error.
Fail(c) ==
  /\ errors < MaxErrors
  /\ errors' = errors + 1
  /\ Goto(c, "error")

Arrive(c) ==
  /\ pc[c] = "idle"
  /\ \E p \in NormalOp \cup SeckillOp \cup ChangeOp :
       /\ op' = [op EXCEPT ![c] = p]
       /\ Goto(c, IF p.kind = "PAY" THEN "owner"
                  ELSE IF p.kind = "CANCEL" THEN "cancel" ELSE "known")
  /\ UNCHANGED <<storeVars, errors>>

-----------------------------------------------------------------------------
(* OrderService.CreateProductOrder and CreateSeckillOrder *)

\* FindOrderByRequestID before anything else
FindKnown(c) ==
  /\ pc[c] = "known"
  /\ \/ /\ \/ Matched(op[c]) /\ Goto(c, "same")
           \/ /\ OrderedBy(op[c].request)
              /\ ~Matched(op[c])
              /\ Goto(c, "conflict")
           \/ /\ ~OrderedBy(op[c].request)
              /\ Goto(c, IF op[c].kind = "NORMAL" THEN "offer" ELSE "bought")
        /\ UNCHANGED errors
     \/ Fail(c)
  /\ UNCHANGED <<storeVars, op>>

\* FindSeckillOrderByUserAndActivity
FindBought(c) ==
  /\ pc[c] = "bought"
  /\ \/ /\ Goto(c, IF BoughtBy(op[c].user, op[c].target) THEN "conflict" ELSE "offer")
        /\ UNCHANGED errors
     \/ Fail(c)
  /\ UNCHANGED <<storeVars, op>>

\* Faulty variant of CheckOffer: neither the activity's times nor the stock is
\* looked at
CheckOfferUntimed(c) ==
  LET p == op[c]
  IN  /\ pc[c] = "offer"
      /\ Goto(c, IF p.target \in rows /\ Wanted(p).product \in onSale
                   THEN "commit" ELSE "unavailable")
      /\ UNCHANGED <<errors, storeVars, op>>

\* FindProductByID or FindActivityByID, and the checks on what it returned
CheckOffer(c) ==
  LET p == op[c]
      product == Wanted(p).product
      found == p.target \in rows
      offered == product \in onSale /\ (p.kind = "SECKILL" => window[p.target] = "during")
  IN
  /\ pc[c] = "offer"
  /\ \/ /\ \/ ~found /\ Goto(c, "not_found")
           \/ found /\ ~offered /\ Goto(c, "unavailable")
           \/ /\ found /\ offered
              /\ p.kind = "NORMAL"
              /\ stock[product] < p.quantity
              /\ Goto(c, "out_of_stock")
           \/ /\ found /\ offered
              /\ p.kind = "NORMAL" => stock[product] >= p.quantity
              /\ Goto(c, "commit")
        /\ UNCHANGED errors
     \/ Fail(c)
  /\ UNCHANGED <<storeVars, op>>

Affordable(o) ==
  IF o.activity = NoActivity THEN ProductAffordable(o) ELSE SeckillAffordable(o)

CreateOrder(o) ==
  IF o.activity = NoActivity THEN CreateProductOrder(o) ELSE CreateSeckillOrder(o)

\* The transaction: created, ErrOutOfStock, or another error, which the call
\* looks into; the error may also be the lost reply to a COMMIT.
Commit(c) ==
  LET o == Wanted(op[c])
  IN
  /\ pc[c] = "commit"
  /\ \/ CreateOrder(o) /\ Goto(c, "ok") /\ UNCHANGED errors
     \/ /\ ~Affordable(o)
        /\ Goto(c, "out_of_stock")
        /\ UNCHANGED <<orderVars, errors>>
     \/ /\ Affordable(o)
        /\ Duplicate(o)
        /\ Goto(c, "known_again")
        /\ UNCHANGED <<orderVars, errors>>
     \/ /\ errors < MaxErrors
        /\ errors' = errors + 1
        /\ Goto(c, "known_again")
        /\ CreateOrder(o) \/ UNCHANGED orderVars
  /\ UNCHANGED <<supply, window, edits, op>>

\* A failing lookup counts as not found.
FindKnownAgain(c) ==
  LET otherwise == IF op[c].kind = "NORMAL" THEN "error" ELSE "bought_again"
  IN
  /\ pc[c] = "known_again"
  /\ \/ Goto(c, IF Matched(op[c]) THEN "same" ELSE otherwise) /\ UNCHANGED errors
     \/ errors < MaxErrors /\ errors' = errors + 1 /\ Goto(c, otherwise)
  /\ UNCHANGED <<storeVars, op>>

FindBoughtAgain(c) ==
  /\ pc[c] = "bought_again"
  /\ \/ /\ Goto(c, IF BoughtBy(op[c].user, op[c].target) THEN "conflict" ELSE "error")
        /\ UNCHANGED errors
     \/ Fail(c)
  /\ UNCHANGED <<storeVars, op>>

Create(c) ==
  FindKnown(c) \/ FindBought(c) \/ CheckOffer(c) \/ Commit(c)
    \/ FindKnownAgain(c) \/ FindBoughtAgain(c)

-----------------------------------------------------------------------------
(* OrderService.Pay and Cancel *)

GetForUser(c) ==
  /\ pc[c] = "owner"
  /\ \/ /\ Goto(c, IF ~OrderedBy(op[c].request) THEN "not_found"
                   ELSE IF \E o \in orders : /\ o.request = op[c].request
                                             /\ o.user = op[c].user
                        THEN "update" ELSE "forbidden")
        /\ UNCHANGED errors
     \/ Fail(c)
  /\ UNCHANGED <<storeVars, op>>

\* WHERE user_id = ? of both statements; either may commit and lose its reply.
OwnOrders(p) == {o \in orders : o.request = p.request /\ o.user = p.user}

Pay(c) ==
  /\ pc[c] = "update"
  /\ \/ /\ \E o \in OwnOrders(op[c]) : UpdateOrderStatus(o, "PENDING", "PAID")
        /\ \/ Goto(c, "ok") /\ UNCHANGED errors
           \/ Fail(c)
     \/ /\ \A o \in OwnOrders(op[c]) : o.status # "PENDING"
        /\ Goto(c, "bad_status")
        /\ UNCHANGED <<orderVars, errors>>
     \/ Fail(c) /\ UNCHANGED orderVars
  /\ UNCHANGED <<supply, window, edits, op>>

Cancel(c) ==
  /\ pc[c] = "cancel"
  /\ \/ /\ \E o \in OwnOrders(op[c]) : CancelOrderAndRestoreStock(o)
        /\ \/ Goto(c, "ok") /\ UNCHANGED errors
           \/ Fail(c)
     \/ /\ \A o \in OwnOrders(op[c]) : o.status # "PENDING"
        /\ Goto(c, "bad_status")
        /\ UNCHANGED <<orderVars, errors>>
     \/ Fail(c) /\ UNCHANGED orderVars
  /\ UNCHANGED <<supply, window, edits, op>>

-----------------------------------------------------------------------------
(* Administrators and the clock.  Every activity is ACTIVE here and keeps its *)
(* stock and times until it is deleted; Catalog is about the other edits.     *)

Edit == edits < MaxEdits /\ edits' = edits + 1

\* ProductService.Update writes what the administrator entered.
UpdateProduct(p, n, sale) ==
  /\ Edit
  /\ stock' = [stock EXCEPT ![p] = n]
  /\ onSale' = IF sale THEN onSale \cup {p} ELSE onSale \ {p}
  /\ supply' = [supply EXCEPT ![p] = @ + n - stock[p]]
  /\ UNCHANGED <<rows, available, orders, pc, op, window, errors>>

\* ActivityService.Delete, between any two statements of the calls
ActivityDeleted(a) ==
  /\ a \in rows
  /\ Edit
  /\ DeleteActivity(a)
  /\ UNCHANGED <<pc, op, window, supply, errors>>

\* time.Now() reaches StartTime or EndTime.
Clock(a) ==
  /\ window[a] # "after"
  /\ window' = [window EXCEPT ![a] = IF @ = "before" THEN "during" ELSE "after"]
  /\ UNCHANGED <<orderVars, supply, pc, op, edits, errors>>

Next ==
  \/ \E c \in Calls :
       Arrive(c) \/ Create(c) \/ GetForUser(c) \/ Pay(c) \/ Cancel(c)
  \/ \E p \in Products, n \in Edits, sale \in BOOLEAN : UpdateProduct(p, n, sale)
  \/ \E a \in Activities : ActivityDeleted(a) \/ Clock(a)

Spec == Init /\ [][Next]_vars

-----------------------------------------------------------------------------
(* Properties *)

TypeOK ==
  /\ OrdersTypeOK
  /\ pc \in [Calls -> {"idle"} \cup InProgress \cup Answers]
  /\ op \in [Calls -> NormalOp \cup SeckillOp \cup ChangeOp \cup {NoOp}]
  /\ window \in [Activities -> {"before", "during", "after"}]
  /\ supply \in [Products -> Int]
  /\ edits \in 0 .. MaxEdits
  /\ errors \in 0 .. MaxErrors

\* Both stocks always account for every order that is not cancelled: concurrent
\* creations, payments and cancellations, lost replies and edits in between
\* neither lose nor invent a unit (the transactions of dao/order.go).
UnitsConserved ==
  /\ StockConserved
  /\ \A p \in Products : stock[p] + LiveUnits(p) = supply[p]

\* Of all calls that pay or cancel one order at most one succeeds, so a paid
\* order is not refunded into stock and a cancelled one not paid
\* (WHERE status = 'PENDING' in UpdateOrderStatus and CancelOrderAndRestoreStock).
SettledOnce ==
  \A c, d \in Calls :
    /\ pc[c] = "ok" /\ op[c].kind \in {"PAY", "CANCEL"}
    /\ pc[d] = "ok" /\ op[d].kind \in {"PAY", "CANCEL"}
    /\ op[c].request = op[d].request
    => c = d

\* What a create call is told agrees with MySQL: an order it returns exists and
\* is the caller's; of the calls with one request id at most one created it.
AnswersAreTrue ==
  \A c \in Calls :
    /\ pc[c] \in {"ok", "same"} /\ op[c].kind \in {"NORMAL", "SECKILL"}
    => /\ \E o \in orders :
            LET w == Wanted(op[c])
            IN  /\ o.request = w.request /\ o.user = w.user
                /\ o.activity = w.activity /\ o.product = w.product
       /\ \A d \in Calls :
            /\ pc[c] = "ok" /\ pc[d] = "ok"
            /\ op[d].kind \in {"NORMAL", "SECKILL"}
            /\ op[d].request = op[c].request
            => c = d

UnderWay(c, a) == pc[c] = "commit" /\ op[c].kind = "SECKILL" /\ op[c].target = a

Sold(a) == {o.request : o \in {o \in orders : o.activity = a}}

\* The transaction does not look at the activity's times again, so an order may
\* commit after the end.  But only one whose call had passed the check before: once
\* the activity is not running and the last such call is through, no further call
\* gets to its transaction and no unit of the activity is sold, however long its
\* lookups and retries take (OrderService.CreateSeckillOrder, the check of
\* StartTime and EndTime).
SalesEnd ==
  [][\A a \in Activities :
       window[a] # "during" /\ (\A c \in Calls : ~UnderWay(c, a)) =>
         Sold(a)' = Sold(a) /\ \A c \in Calls : ~UnderWay(c, a)']_vars

=============================================================================
