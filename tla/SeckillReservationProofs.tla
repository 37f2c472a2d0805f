----------------------- MODULE SeckillReservationProofs -----------------------
(***************************************************************************)
(* What the asynchronous path keeps under the disturbances its design       *)
(* absorbs: the stock that Redis hands out is backed by MySQL, compensation *)
(* never returns what an order has taken, final statuses stay, and so the   *)
(* path implements SeckillContract.  Where the API dies, restarts or        *)
(* publishes again, what of this remains, and what moves the balance.  Also *)
(* that an undecided claim is in somebody's hands, and that a handler reads *)
(* its own confirmation as long as none has timed out.                      *)
(*                                                                         *)
(* None of these is inductive.  What makes them so is the account of who    *)
(* holds an undecided request: at any moment it is with one handler (before *)
(* its message is out), with one message of the queue, or with the worker;  *)
(* and each of them knows whether the request has been touched.             *)
(***************************************************************************)
EXTENDS SeckillFlowProofs

MayCrash == "worker_crash" \in Disturbances

\* The units of a product that its activities have left, one by one
UnitsOf(p, f) ==
  UNION {{a} \X (1 .. f[a]) : a \in {b \in Activities : ProductOf[b] = p}}

\* Every product has at least the stock of its activities.
Plentiful ==
  \A p \in Products :
    /\ IsFiniteSet(UnitsOf(p, TotalStock))
    /\ Cardinality(UnitsOf(p, TotalStock)) <= ProductStock[p]

\* The disturbances that part the stock of Redis from that of MySQL: two write
\* it again while claims are open or sales are under way, the third does so after
\* its handlers have died, and a cancellation returns a unit Redis does not hear of.
Unbalancing == {"api_crash", "api_restart", "admin_publish", "cancel"}
InBalance == Disturbances \cap Unbalancing = {}

\* What the account of claims survives.  Not among it: what makes a compensation
\* or its mark get lost (redis_down, redis_lost), removes keys (redis_wipe,
\* expiry), makes a handler give up a message that is in the queue
\* (publish_timeout, conn_lost), or orders past Redis (direct_order).  A commit
\* whose reply is lost is absorbed when the second lookup can be trusted.  A
\* crashed worker repeats its delivery, and the repetition is harmless when a
\* claim's transaction cannot fail in between.
Tracked ==
  /\ Disturbances \subseteq
       {"publish_reject", "publish_error", "admission_lost", "malformed",
        "worker_stop", "worker_crash", "mysql_down", "mysql_lost",
        "normal_order", "activity_delete", "payment"} \cup Unbalancing
  /\ ~({"mysql_down", "mysql_lost"} \subseteq Disturbances)
  /\ MayCrash =>
       /\ Disturbances \cap {"mysql_down", "normal_order", "activity_delete"} = {}
       /\ InBalance
       /\ Plentiful

\* What the path absorbs: the stocks stay in balance too.
Absorbed == Tracked /\ InBalance

\* The requests that have an order of an activity, and how the stores and the
\* queue see a request
PurchaseOf(o) == [request |-> o.request, user |-> o.user, activity |-> o.activity]
Purchases == {PurchaseOf(o) : o \in {x \in orders : x.activity # NoActivity}}
Ordinary == \E o \in orders : o.activity = NoActivity
Bought(r) == \E o \in Purchases : o.request = r
Untouched(r) == status[r] = "ACCEPTED" /\ ~Bought(r)
Positions == {i \in DOMAIN queue : queue[i] # Malformed}
InQueue(r) == \E i \in Positions : queue[i].request = r
TicketIs(e) == ticket[e.request] = [user |-> e.user, activity |-> e.activity]

-----------------------------------------------------------------------------
(* The parts of the inductive invariant *)

\* Publish holds the mutex until it has read the one confirmation there is, and
\* only a process that serves has handlers.
PublisherOK ==
  /\ connected
  /\ api # "down" =>
       /\ \/ mu = NoCall /\ confirms = <<>>
          \/ /\ mu \in Calls /\ pc[mu] = "confirm"
             /\ \E k \in BOOLEAN : confirms = <<[of |-> mu, ack |-> k]>>
       /\ \A c \in Calls : pc[c] = "confirm" => mu = c
  /\ api # "up" => \A c \in Calls : pc[c] \notin InFlight

\* In balance the API starts once: before it serves, nothing has been claimed or
\* sold, and the warm-up writes what MySQL still has in full.
StartOK ==
  InBalance =>
    /\ api # "warming" => publishing = {}
    /\ api = "warming" => \A w \in publishing : w.stock = TotalStock[w.activity]
    /\ api # "up" => /\ available = TotalStock
                     /\ \A r \in Requests : ticket[r] = NoTicket
                     /\ \A a \in published : redisStock[a] = TotalStock[a]

\* A request hash names its buyer from its admission on, and a buyer who has a
\* request of an activity that has not failed is in the buyers set and has no
\* second one.
TicketsOK ==
  /\ \A r \in Requests : ticket[r] = NoTicket <=> status[r] = "NONE"
  /\ \A r \in Requests : ticket[r] # NoTicket => ticket[r].activity \in published
  /\ \A r \in Requests :
       ticket[r] # NoTicket /\ status[r] # "FAILED" =>
         ticket[r].user \in buyers[ticket[r].activity]
  /\ \A r, s \in Requests :
       /\ ticket[r] # NoTicket /\ ticket[r] = ticket[s]
       /\ status[r] # "FAILED" /\ status[s] # "FAILED"
       => r = s

\* An order of an activity is the order of the ticket with its request id, and
\* that request has not failed.
PurchasesOK ==
  \A o \in Purchases :
    /\ ticket[o.request] = [user |-> o.user, activity |-> o.activity]
    /\ status[o.request] # "FAILED"

\* The call c has a claim and no message in the queue.
Unsent(c) ==
  \/ pc[c] \in {"publish", "compensate"}
  \/ pc[c] = "confirm" /\ ~Head(confirms).ack

\* Each handler has a request of its own, which nobody else can decide before
\* the message is out.
CallsOK ==
  /\ \A c \in Calls : pc[c] \in InFlight => TicketIs(ev[c])
  /\ \A c, d \in Calls :
       /\ pc[c] \in InFlight /\ pc[d] \in InFlight
       /\ ev[c].request = ev[d].request
       => c = d
  /\ \A c \in Calls :
       Unsent(c) => Untouched(ev[c].request) /\ ~InQueue(ev[c].request)
  /\ \A c \in Calls :
       pc[c] = "mark_failed" =>
         status[ev[c].request] = "FAILED" /\ ~InQueue(ev[c].request)

\* Each message has a request of its own, and only the first one can have been
\* touched: by the worker at hand or one that crashed.
MessagesOK ==
  /\ \A i \in Positions : TicketIs(queue[i])
  /\ \A i, j \in Positions : queue[i].request = queue[j].request => i = j
  /\ \A i \in Positions :
       i > 1 \/ (wpc = "idle" /\ ~MayCrash) => Untouched(queue[i].request)
  /\ MayCrash => \A i \in Positions : status[queue[i].request] # "FAILED"

\* What the worker may rely on at each step about the delivery at hand
WorkerOK ==
  /\ wpc \in {"lookup", "find_activity", "create", "relookup", "mark_succeeded"} =>
       status[Delivery.request] = "PROCESSING"
  /\ wpc = "lookup" /\ ~MayCrash => ~Bought(Delivery.request)
  /\ wpc \in {"find_activity", "create"} => ~Bought(Delivery.request)
  /\ wpc = "relookup" /\ "mysql_lost" \notin Disturbances => ~Bought(Delivery.request)
  /\ wpc = "relookup" /\ MayCrash => Bought(Delivery.request)
  /\ wpc = "compensate" /\ ~stopping =>
       status[Delivery.request] = "PROCESSING" /\ ~Bought(Delivery.request)
  /\ wpc = "mark_failed" /\ ~stopping => status[Delivery.request] = "FAILED"
  /\ wpc \in {"compensate", "mark_failed"} /\ MayCrash => stopping

\* Where the worker may crash, no row is missing, and a product has a unit for
\* every unit its activities have.
PlentyOK ==
  MayCrash =>
    /\ rows = Products \cup Activities
    /\ ~Ordinary
    /\ \A p \in Products :
         /\ IsFiniteSet(UnitsOf(p, available))
         /\ Cardinality(UnitsOf(p, available)) <= stock[p]

\* Cardinalities add up because there are finitely many open claims.
BalanceOK == IsFiniteSet(Open) /\ (InBalance => ReservationsBacked)

ReservationInv ==
  /\ PublisherOK /\ StartOK /\ TicketsOK /\ PurchasesOK
  /\ CallsOK /\ MessagesOK /\ WorkerOK /\ PlentyOK /\ BalanceOK


-----------------------------------------------------------------------------
(* Basic facts *)

LEMMA Excluded ==
  ASSUME Tracked
  PROVE  /\ ~Happens("redis_down") /\ ~Happens("redis_lost") /\ ~Happens("redis_wipe")
         /\ ~Happens("expiry") /\ ~Happens("publish_timeout") /\ ~Happens("conn_lost")
         /\ ~Happens("direct_order")
         /\ InBalance => /\ ~Happens("api_crash") /\ ~Happens("api_restart")
                         /\ ~Happens("admin_publish") /\ ~Happens("cancel")
         /\ Happens("worker_crash") => MayCrash
         /\ MayCrash => /\ ~Happens("mysql_down") /\ ~Happens("normal_order")
                        /\ ~Happens("activity_delete") /\ InBalance
         /\ ~Happens("mysql_down") \/ "mysql_lost" \notin Disturbances
         /\ Happens("mysql_lost") => "mysql_lost" \in Disturbances
BY DEF Tracked, InBalance, Unbalancing, Happens, MayCrash

\* The orders that do not come through the queue
OrderWrite ==
  /\ \/ NormalOrder /\ ~MayCrash
     \/ Cancellation /\ ~InBalance
     \/ Payment
  /\ UNCHANGED <<redisVars, window, queueVars, callVars, apiVars, workerVars>>

ApiEvent == ApiCrash \/ ApiRestart \/ \E a \in Activities : AdminPublish(a)

\* The steps that remain of Next
LEMMA TrackedNext ==
  ASSUME Tracked, [Next]_vars
  PROVE  \/ \E c \in Calls : \E e \in OrderEvent : Admit(c, e)
         \/ \E c \in Calls : Handle(c)
         \/ StartUp \/ Worker \/ WorkerStop \/ Intrusion
         \/ \E a \in Activities : Clock(a)
         \/ WorkerCrash /\ MayCrash
         \/ ActivityDeleted /\ ~MayCrash
         \/ OrderWrite
         \/ ApiEvent /\ ~InBalance
         \/ UNCHANGED vars
<1>1. OtherOrders => OrderWrite
  BY Excluded DEF OtherOrders, OrderWrite, DirectOrder, NormalOrder, Cancellation
<1>2. ApiCrash \/ ApiRestart \/ (\E a \in Activities : AdminPublish(a)) => ApiEvent /\ ~InBalance
  BY Excluded DEF ApiEvent, ApiCrash, ApiRestart, AdminPublish
<1> QED
  BY <1>1, <1>2, Excluded DEF Next, WorkerCrash, ActivityDeleted, RedisLosesKeys,
     BrokerConnectionLost

\* A ticket that names a buyer belongs to a known request.
LEMMA TicketKnown ==
  ASSUME TypeOK, TicketsOK, NEW e \in OrderEvent, TicketIs(e)
  PROVE  /\ e.request \in Requests /\ e.user \in Users /\ e.activity \in Activities
         /\ ticket[e.request] # NoTicket
         /\ ticket[e.request].user = e.user /\ ticket[e.request].activity = e.activity
         /\ status[e.request] # "NONE"
         /\ e.activity \in published
         /\ e = EventOf(e.request)
<1>1. e.request \in Requests /\ e.user \in Users /\ e.activity \in Activities
  BY DEF OrderEvent
<1>2. [user |-> e.user, activity |-> e.activity] \in Ticket
  BY <1>1 DEF Ticket
<1>3. ticket[e.request] # NoTicket
  BY <1>2, TicketAssumption DEF TicketIs
<1>4. ticket[e.request].user = e.user /\ ticket[e.request].activity = e.activity
  BY DEF TicketIs
<1>5. e = EventOf(e.request)
  BY <1>4 DEF EventOf, OrderEvent
<1> QED
  BY <1>1, <1>3, <1>4, <1>5 DEF TicketsOK

LEMMA PurchaseTypes ==
  ASSUME TypeOK, NEW o \in Purchases
  PROVE  /\ o \in OrderEvent
         /\ o.request \in Requests /\ o.user \in Users /\ o.activity \in Activities
         /\ \E x \in orders : /\ x.activity # NoActivity /\ x.request = o.request
                              /\ x.user = o.user /\ x.activity = o.activity
<1>1. PICK x \in orders : x.activity # NoActivity /\ o = PurchaseOf(x)
  BY DEF Purchases
<1>2. x.request \in Requests /\ x.user \in Users /\ x.activity \in Activities
  BY <1>1 DEF TypeOK, OrdersTypeOK, Order
<1>3. o.request = x.request /\ o.user = x.user /\ o.activity = x.activity
  BY <1>1 DEF PurchaseOf
<1> QED
  BY <1>1, <1>2, <1>3 DEF OrderEvent, PurchaseOf

LEMMA OrderBought ==
  ASSUME NEW o \in orders, o.activity # NoActivity
  PROVE  /\ PurchaseOf(o) \in Purchases /\ Bought(o.request)
         /\ PurchaseOf(o).request = o.request /\ PurchaseOf(o).user = o.user
         /\ PurchaseOf(o).activity = o.activity
<1>1. PurchaseOf(o) \in Purchases
  BY DEF Purchases
<1>2. /\ PurchaseOf(o).request = o.request /\ PurchaseOf(o).user = o.user
      /\ PurchaseOf(o).activity = o.activity
  BY DEF PurchaseOf
<1> QED
  BY <1>1, <1>2 DEF Bought

\* Payment and cancellation change no purchase.
LEMMA StatusKeepsPurchases ==
  ASSUME TypeOK, NEW o \in orders, NEW to, SetStatus(o, to)
  PROVE  UNCHANGED Purchases /\ (Ordinary' <=> Ordinary)
<1> DEFINE n == [o EXCEPT !.status = to]
<1>1. o \in Order
  BY DEF TypeOK, OrdersTypeOK
<1>2. n.request = o.request /\ n.user = o.user /\ n.activity = o.activity
  BY <1>1 DEF Order
<1>3. orders' = (orders \ {o}) \cup {n}
  BY DEF SetStatus
<1> HIDE DEF n
<1>4. PurchaseOf(n) = PurchaseOf(o)
  BY <1>2 DEF PurchaseOf
<1>5. Purchases' = {PurchaseOf(x) : x \in {y \in orders' : y.activity # NoActivity}}
  BY DEF Purchases
<1>6. \A e : e \in Purchases' <=> e \in Purchases
  BY <1>2, <1>3, <1>4, <1>5 DEF Purchases
<1> QED
  BY <1>2, <1>3, <1>6 DEF Ordinary

LEMMA BoughtKnown ==
  ASSUME TypeOK, TicketsOK, PurchasesOK, NEW r, Bought(r)
  PROVE  /\ r \in Requests /\ ticket[r] # NoTicket
         /\ status[r] # "NONE" /\ status[r] # "FAILED"
<1>1. PICK o \in Purchases : o.request = r
  BY DEF Bought
<1>2. [user |-> o.user, activity |-> o.activity] \in Ticket /\ r \in Requests
  BY <1>1, PurchaseTypes DEF Ticket
<1>3. ticket[r] # NoTicket /\ status[r] # "FAILED"
  BY <1>1, <1>2, TicketAssumption DEF PurchasesOK
<1> QED
  BY <1>2, <1>3 DEF TicketsOK

\* Under the invariant the three sets of the contract are told apart by the
\* request alone.
LedgerIsPerRequest ==
  /\ Open = {e \in OrderEvent : TicketIs(e) /\ status[e.request] # "FAILED"
                                  /\ ~Bought(e.request)}
  /\ Won  = {e \in OrderEvent : TicketIs(e) /\ Bought(e.request)}
  /\ Lost = {e \in OrderEvent : TicketIs(e) /\ status[e.request] = "FAILED"}

LEMMA Ledger == TypeOK /\ TicketsOK /\ PurchasesOK => LedgerIsPerRequest
<1> SUFFICES ASSUME TypeOK, TicketsOK, PurchasesOK PROVE LedgerIsPerRequest
  OBVIOUS
<1>1. Admitted = {e \in OrderEvent : TicketIs(e)}
  <2>1. ASSUME NEW e \in OrderEvent, TicketIs(e)
        PROVE  e \in Admitted
    BY <2>1, TicketKnown DEF Admitted, Issued
  <2>2. ASSUME NEW r \in Issued
        PROVE  EventOf(r) \in OrderEvent /\ TicketIs(EventOf(r))
    <3>1. r \in Requests /\ ticket[r] \in Ticket
      BY DEF Issued, TypeOK, RedisTypeOK
    <3>2. ticket[r] = [user |-> ticket[r].user, activity |-> ticket[r].activity]
      BY <3>1 DEF Ticket
    <3> QED
      BY <3>1, <3>2 DEF EventOf, OrderEvent, TicketIs, Ticket
  <2> QED
    BY <2>1, <2>2 DEF Admitted
<1>2. ASSUME NEW e \in OrderEvent, TicketIs(e)
      PROVE  Ordered(e) <=> Bought(e.request)
  <2>1. ASSUME Ordered(e) PROVE Bought(e.request)
    <3>1. PICK o \in orders : o.request = e.request /\ o.user = e.user /\ o.activity = e.activity
      BY <2>1 DEF Ordered
    <3>2. o.activity # NoActivity
      BY <3>1, StoreAssumption DEF OrderEvent
    <3> QED
      BY <3>1, <3>2, OrderBought
  <2>2. ASSUME Bought(e.request) PROVE Ordered(e)
    <3>1. PICK o \in Purchases : o.request = e.request
      BY <2>2 DEF Bought
    <3>2. ticket[e.request] = [user |-> o.user, activity |-> o.activity]
      BY <3>1 DEF PurchasesOK
    <3>3. o.user = e.user /\ o.activity = e.activity
      BY <1>2, <3>2 DEF TicketIs
    <3> QED
      BY <3>1, <3>3, PurchaseTypes DEF Ordered
  <2> QED
    BY <2>1, <2>2
<1>3. ASSUME NEW e \in OrderEvent, Bought(e.request) PROVE status[e.request] # "FAILED"
  BY <1>3 DEF Bought, PurchasesOK
<1> QED
  BY <1>1, <1>2, <1>3 DEF Won, Lost, Open, LedgerIsPerRequest

\* The delivery at hand is the first message.
LEMMA FirstMessage ==
  ASSUME TypeOK, queue # <<>>, Delivery # Malformed
  PROVE  /\ Delivery = queue[1] /\ 1 \in Positions /\ InQueue(Delivery.request)
         /\ Delivery \in OrderEvent
         /\ Delivery.request \in Requests
         /\ Delivery.user \in Users
         /\ Delivery.activity \in Activities
<1>1. queue \in Seq(OrderEvent \cup {Malformed})
  BY DEF TypeOK, QueueTypeOK
<1>2. Delivery = queue[1] /\ 1 \in DOMAIN queue
  BY <1>1, HeadTailProperties DEF Delivery
<1> QED
  BY <1>2, DeliveryType DEF Positions, InQueue

-----------------------------------------------------------------------------
(* What a step does to the claims: nothing, or one of three things *)

\* The units the contract's `left` counts
Left == [a \in Activities |-> IF a \in published THEN redisStock[a] ELSE TotalStock[a]]

\* The three steps that move a claim, and what every other step leaves alone
Claims(e) == api = "up" /\ Reserve(e) /\ UNCHANGED orderVars

Wins(e) ==
  /\ TicketIs(e) /\ status[e.request] # "FAILED" /\ ~Bought(e.request)
  /\ CreateSeckillOrder(SeckillOrder(e.user, e.activity, e.request))
  /\ UNCHANGED redisVars

Loses(e) ==
  /\ TicketIs(e) /\ ~Bought(e.request)
  /\ Release(e)
  /\ UNCHANGED orderVars

Quiet ==
  /\ UNCHANGED <<ticket, buyers, Purchases>>
  /\ \A r \in Requests : /\ status'[r] = "NONE" <=> status[r] = "NONE"
                         /\ status'[r] = "FAILED" <=> status[r] = "FAILED"
  /\ rows' \subseteq rows
  /\ published \subseteq published'
  /\ MayCrash => UNCHANGED <<rows, stock, available>> /\ (Ordinary' => Ordinary)

\* Of the quiet steps, those that move no stock, the publication of an activity,
\* and a cancellation
Still == Quiet /\ UNCHANGED <<published, redisStock, available>>

Refill(w) ==
  /\ Quiet
  /\ w \in publishing \ publishing'
  /\ published' = published \cup {w.activity}
  /\ redisStock' = [redisStock EXCEPT ![w.activity] = w.stock]
  /\ UNCHANGED <<rows, available>>

Refund(o) ==
  /\ Quiet
  /\ CancelOrderAndRestoreStock(o)
  /\ ~InBalance
  /\ UNCHANGED <<published, redisStock>>

LEMMA OrderWriteKeeps ==
  ASSUME TypeOK, OrderWrite
  PROVE  UNCHANGED Purchases /\ rows' = rows
<1>1. CASE NormalOrder
  <2>1. PICK u \in Users, p \in Products, r \in Requests :
          CreateProductOrder(ProductOrder(u, p, r, 1))
    BY <1>1 DEF NormalOrder
  <2>2. ProductOrder(u, p, r, 1).activity = NoActivity
    BY DEF ProductOrder
  <2> QED
    BY <2>1, <2>2 DEF CreateProductOrder, Purchases
<1>2. CASE Cancellation
  BY <1>2, StatusKeepsPurchases DEF Cancellation, CancelOrderAndRestoreStock
<1>3. CASE Payment
  BY <1>3, StatusKeepsPurchases DEF Payment, UpdateOrderStatus
<1> QED
  BY <1>1, <1>2, <1>3 DEF OrderWrite

LEMMA QuietStutter ==
  ASSUME UNCHANGED redisVars, UNCHANGED orderVars
  PROVE  Still
BY DEF Still, Quiet, redisVars, orderVars, Purchases, Ordinary

LEMMA QuietMark ==
  ASSUME TypeOK, NEW r \in Requests, NEW s \in RequestStatus \ {"NONE"}, Mark(r, s),
         UNCHANGED orderVars, status[r] # "NONE", s = "FAILED" <=> status[r] = "FAILED"
  PROVE  Still
<1>1. \A q \in Requests : status'[q] = IF q = r THEN s ELSE status[q]
  BY DEF Mark, TypeOK, RedisTypeOK
<1> QED
  BY <1>1 DEF Mark, Still, Quiet, orderVars, Purchases, Ordinary

\* The worker's commands, when what the design absorbs is all that fails.
LEMMA WorkerLedger ==
  ASSUME Tracked, TypeOK, ReservationInv, Worker
  PROVE  Still \/ \E e \in OrderEvent : Wins(e) \/ Loses(e)
<1> USE Excluded DEF ReservationInv, WorkerRedis
<1>1. CASE \/ Lookup \/ FindActivity \/ Relookup
           \/ SettleDelivery \/ RejectMalformed \/ WorkerExit
  BY <1>1, QuietStutter DEF Lookup, FindActivity, Relookup, SettleDelivery, RejectMalformed,
     WorkerExit
<1>2. CASE MarkProcessing
  <2>1. wpc = "idle" /\ queue # <<>> /\ Delivery # Malformed
    BY <1>2 DEF MarkProcessing
  <2>2. CASE UNCHANGED redisVars
    BY <1>2, <2>2, QuietStutter DEF MarkProcessing
  <2>3. CASE Mark(Delivery.request, "PROCESSING")
    <3>1. TicketIs(Delivery) /\ status[Delivery.request] # "NONE"
      BY <2>1, FirstMessage, TicketKnown DEF MessagesOK
    <3>2. status[Delivery.request] # "FAILED"
      BY <2>1, FirstMessage DEF MessagesOK, Untouched
    <3> QED
      BY <1>2, <2>1, <2>3, <3>1, <3>2, FirstMessage, QuietMark
         DEF MarkProcessing, RequestStatus
  <2> QED
    BY <1>2, <2>2, <2>3 DEF MarkProcessing
<1>3. ASSUME wpc # "idle"
      PROVE  /\ Delivery \in OrderEvent /\ Delivery.request \in Requests
             /\ TicketIs(Delivery) /\ status[Delivery.request] # "NONE"
  <2>1. queue # <<>> /\ Delivery # Malformed
    BY <1>3 DEF TypeOK, ControlOK
  <2> QED
    BY <2>1, FirstMessage, TicketKnown DEF MessagesOK
<1>4. CASE MarkSucceeded
  <2>1. wpc = "mark_succeeded" /\ UNCHANGED orderVars
    BY <1>4 DEF MarkSucceeded
  <2>2. UNCHANGED redisVars \/ Mark(Delivery.request, "SUCCEEDED")
    BY <1>4 DEF MarkSucceeded
  <2>3. status[Delivery.request] = "PROCESSING"
    BY <2>1 DEF WorkerOK
  <2> QED
    BY <1>3, <2>1, <2>2, <2>3, QuietStutter, QuietMark DEF RequestStatus
<1>5. CASE MarkFailed
  <2>1. wpc = "mark_failed" /\ UNCHANGED orderVars
    BY <1>5 DEF MarkFailed
  <2>2. UNCHANGED redisVars \/ (~stopping /\ Mark(Delivery.request, "FAILED"))
    BY <1>5 DEF MarkFailed
  <2>3. ~stopping => status[Delivery.request] = "FAILED"
    BY <2>1 DEF WorkerOK
  <2> QED
    BY <1>3, <2>1, <2>2, <2>3, QuietStutter, QuietMark DEF RequestStatus
<1>6. CASE CompensateDelivery
  <2>1. wpc = "compensate" /\ UNCHANGED orderVars
    BY <1>6 DEF CompensateDelivery
  <2>2. UNCHANGED redisVars \/ (~stopping /\ Release(Delivery))
    BY <1>6 DEF CompensateDelivery, Compensate
  <2>3. ~stopping => ~Bought(Delivery.request)
    BY <2>1 DEF WorkerOK
  <2> QED
    BY <1>3, <2>1, <2>2, <2>3, QuietStutter DEF Loses
<1>7. CASE Create
  <2>1. wpc = "create" /\ UNCHANGED redisVars
    BY <1>7 DEF Create
  <2>2. UNCHANGED orderVars \/ CreateSeckillOrder(DeliveredOrder)
    BY <1>7 DEF Create, SeckillOrderFails
  <2>3. status[Delivery.request] = "PROCESSING" /\ ~Bought(Delivery.request)
    BY <2>1 DEF WorkerOK
  <2> QED
    BY <1>3, <2>1, <2>2, <2>3, QuietStutter DEF Wins, DeliveredOrder
<1> QED
  BY <1>1, <1>2, <1>4, <1>5, <1>6, <1>7 DEF Worker

\* Every step of the system moves at most one claim, in one of three ways.
LEMMA LedgerStep ==
  ASSUME Tracked, TypeOK, ReservationInv, [Next]_vars
  PROVE  \/ Still
         \/ \E w \in publishing : Refill(w)
         \/ \E o \in orders : Refund(o)
         \/ \E e \in OrderEvent : Claims(e) \/ Wins(e) \/ Loses(e)
<1> USE Excluded
<1>1. ASSUME NEW c \in Calls, NEW e \in OrderEvent, Admit(c, e)
      PROVE  Still \/ Claims(e)
  BY <1>1, QuietStutter DEF Admit, Claims
<1>2. ASSUME NEW c \in Calls, Handle(c)
      PROVE  Still \/ Loses(ev[c])
  <2>1. CASE Publish(c) \/ Confirm(c)
    BY <2>1, QuietStutter DEF Publish, Confirm
  <2>2. CASE CompensateCall(c)
    <3>1. TicketIs(ev[c]) /\ Untouched(ev[c].request)
      BY <2>2 DEF CompensateCall, ReservationInv, CallsOK, Unsent, InFlight
    <3> QED
      BY <2>2, <3>1, QuietStutter DEF CompensateCall, Compensate, Loses, Untouched, Decided
  <2>3. CASE MarkCallFailed(c)
    <3>1. TicketIs(ev[c]) /\ status[ev[c].request] = "FAILED"
      BY <2>3 DEF MarkCallFailed, ReservationInv, CallsOK, InFlight
    <3>2. ev[c] \in OrderEvent /\ ev[c].request \in Requests
      BY <2>3 DEF MarkCallFailed, TypeOK, ControlOK, OrderEvent
    <3> QED
      BY <2>3, <3>1, <3>2, QuietMark DEF MarkCallFailed, RequestStatus
  <2> QED
    BY <1>2, <2>1, <2>2, <2>3 DEF Handle
<1>3. ASSUME NEW c \in Calls, Handle(c)
      PROVE  pc[c] \in InFlight /\ ev[c] \in OrderEvent
  BY <1>3 DEF Handle, Publish, Confirm, CompensateCall, MarkCallFailed, InFlight,
              TypeOK, ControlOK
<1>4. CASE ApiStart \/ Listen
  BY <1>4, QuietStutter DEF ApiStart, Listen
<1>5. ASSUME NEW w \in publishing, WriteActivity(w)
      PROVE  Still \/ Refill(w)
  <2>1. CASE PublishActivity(w.activity, w.stock)
    BY <1>5, <2>1 DEF WriteActivity, Refill, Quiet, PublishActivity, orderVars, Purchases,
       Ordinary
  <2> QED
    BY <1>5, <2>1, QuietStutter DEF WriteActivity
<1>6. CASE Worker
  BY <1>6, WorkerLedger
<1>7. CASE WorkerCrash \/ WorkerStop \/ Intrusion \/ UNCHANGED vars
           \/ \E a \in Activities : Clock(a)
  BY <1>7, QuietStutter DEF WorkerCrash, WorkerStop, Intrusion, vars, Clock
<1>8. CASE ActivityDeleted /\ ~MayCrash
  BY <1>8 DEF ActivityDeleted, DeleteActivity, Still, Quiet, redisVars, Purchases
<1>9. CASE OrderWrite
  <2>1. UNCHANGED redisVars /\ UNCHANGED Purchases /\ rows' = rows
    BY <1>9, OrderWriteKeeps DEF OrderWrite
  <2>2. CASE NormalOrder /\ ~MayCrash
    BY <2>1, <2>2 DEF NormalOrder, CreateProductOrder, Still, Quiet, redisVars
  <2>3. CASE Cancellation /\ ~InBalance
    BY <2>1, <2>3 DEF Cancellation, Refund, Quiet, redisVars
  <2>4. CASE Payment
    <3>1. PICK o \in orders : UpdateOrderStatus(o, "PENDING", "PAID")
      BY <2>4 DEF Payment
    <3>2. Ordinary' <=> Ordinary
      BY <3>1, StatusKeepsPurchases DEF UpdateOrderStatus
    <3> QED
      BY <2>1, <3>1, <3>2 DEF UpdateOrderStatus, Still, Quiet, redisVars
  <2> QED
    BY <1>9, <2>2, <2>3, <2>4 DEF OrderWrite
<1>10. CASE ApiEvent
  BY <1>10, QuietStutter DEF ApiEvent, ApiCrash, ApiRestart, AdminPublish
<1> QED
  BY <1>1, <1>2, <1>3, <1>4, <1>5, <1>6, <1>7, <1>8, <1>9, <1>10, TrackedNext DEF StartUp


LEMMA QuietStep ==
  ASSUME Tracked, TypeOK, ReservationInv, [Next]_vars
  PROVE  Quiet \/ \E e \in OrderEvent : Claims(e) \/ Wins(e) \/ Loses(e)
BY LedgerStep DEF Still, Refill, Refund

\* In balance, a publication writes the full stock, before anything was claimed.
LEMMA FirstRefill ==
  ASSUME InBalance, TypeOK, ReservationInv, NEW w \in publishing
  PROVE  /\ w.activity \in Activities /\ w.stock = TotalStock[w.activity]
         /\ api = "warming" /\ available = TotalStock
         /\ \A r \in Requests : ticket[r] = NoTicket
         /\ \A a \in published : redisStock[a] = TotalStock[a]
BY DEF ReservationInv, StartOK, TypeOK, ControlOK, Publication

\* So the steps of a system in balance are those of the contract.
LEMMA BalancedLedgerStep ==
  ASSUME Absorbed, TypeOK, ReservationInv, [Next]_vars
  PROVE  \/ Quiet /\ UNCHANGED <<available, Left>>
         \/ \E e \in OrderEvent : Claims(e) \/ Wins(e) \/ Loses(e)
<1>1. CASE Still
  BY <1>1 DEF Still, Left
<1>2. ASSUME NEW w \in publishing, Refill(w)
      PROVE  Quiet /\ UNCHANGED <<available, Left>>
  <2>1. /\ w.activity \in Activities /\ w.stock = TotalStock[w.activity]
        /\ \A a \in published : redisStock[a] = TotalStock[a]
    BY FirstRefill DEF Absorbed
  <2>2. Left' = Left
    BY <1>2, <2>1 DEF Refill, Left, TypeOK, RedisTypeOK
  <2> QED
    BY <1>2, <2>2 DEF Refill
<1>3. ~\E o \in orders : Refund(o)
  BY DEF Refund, Absorbed
<1> QED
  BY <1>1, <1>2, <1>3, LedgerStep DEF Absorbed

-----------------------------------------------------------------------------
(* The four parts of the invariant that speak of the claims *)

LEMMA TicketsStep ==
  ASSUME Tracked, TypeOK, ReservationInv, [Next]_vars
  PROVE  TicketsOK'
<1>0. TicketsOK /\ ticket \in [Requests -> Ticket \cup {NoTicket}]
      /\ status \in [Requests -> RequestStatus] /\ buyers \in [Activities -> SUBSET Users]
      /\ \A r \in Requests : ticket[r] # NoTicket =>
           ticket[r].user \in Users /\ ticket[r].activity \in Activities
  BY DEF ReservationInv, TypeOK, RedisTypeOK, Ticket
<1>1. CASE Quiet
  BY <1>0, <1>1 DEF Quiet, TicketsOK
<1>2. ASSUME NEW e \in OrderEvent, Claims(e)
      PROVE  TicketsOK'
  <2>1. /\ e.request \in Requests /\ e.user \in Users /\ e.activity \in Activities
        /\ [user |-> e.user, activity |-> e.activity] # NoTicket
    BY TicketAssumption DEF OrderEvent, Ticket
  <2> DEFINE t == [user |-> e.user, activity |-> e.activity]
  <2>2. t.user = e.user /\ t.activity = e.activity /\ t # NoTicket
    BY <2>1
  <2>3. /\ status[e.request] = "NONE" /\ e.activity \in published
        /\ e.user \notin buyers[e.activity]
        /\ published' = published
        /\ \A r \in Requests :
             /\ status'[r] = IF r = e.request THEN "ACCEPTED" ELSE status[r]
             /\ ticket'[r] = IF r = e.request THEN t ELSE ticket[r]
        /\ \A a \in Activities :
             buyers'[a] = IF a = e.activity THEN buyers[a] \cup {e.user} ELSE buyers[a]
    BY <1>0, <1>2, <2>1 DEF Claims, Reserve, Admissible, Known, Selling
  <2> HIDE DEF t
  <2>4. ASSUME NEW r \in Requests PROVE ticket'[r] = NoTicket <=> status'[r] = "NONE"
    BY <1>0, <2>2, <2>3 DEF TicketsOK
  <2>5. ASSUME NEW r \in Requests, ticket'[r] # NoTicket PROVE ticket'[r].activity \in published'
    BY <1>0, <2>2, <2>3, <2>5 DEF TicketsOK
  <2>6. ASSUME NEW r \in Requests, ticket'[r] # NoTicket, status'[r] # "FAILED"
        PROVE  ticket'[r].user \in buyers'[ticket'[r].activity]
    <3>1. CASE r = e.request
      <4>1. ticket'[r] = t
        BY <2>3, <3>1
      <4>2. buyers'[e.activity] = buyers[e.activity] \cup {e.user}
        BY <2>1, <2>3
      <4> QED
        BY <2>2, <4>1, <4>2
    <3>2. CASE r # e.request
      <4>1. ticket[r].activity \in Activities /\ ticket[r].user \in buyers[ticket[r].activity]
        BY <1>0, <2>3, <2>6, <3>2 DEF TicketsOK
      <4>2. buyers[ticket[r].activity] \subseteq buyers'[ticket[r].activity]
        BY <2>3, <4>1
      <4> QED
        BY <2>3, <3>2, <4>1, <4>2
    <3> QED
      BY <3>1, <3>2
  <2>7. ASSUME NEW r \in Requests, r # e.request, ticket[r] # NoTicket, status[r] # "FAILED"
        PROVE  ticket[r] # t
    BY <1>0, <2>2, <2>3, <2>7 DEF TicketsOK
  <2>8. ASSUME NEW r \in Requests, NEW s \in Requests, ticket'[r] # NoTicket,
               ticket'[r] = ticket'[s], status'[r] # "FAILED", status'[s] # "FAILED"
        PROVE  r = s
    BY <1>0, <2>2, <2>3, <2>7, <2>8 DEF TicketsOK
  <2> QED
    BY <2>4, <2>5, <2>6, <2>8 DEF TicketsOK
<1>3. ASSUME NEW e \in OrderEvent, Wins(e)
      PROVE  TicketsOK'
  BY <1>0, <1>3 DEF Wins, redisVars, TicketsOK
<1>4. ASSUME NEW e \in OrderEvent, Loses(e)
      PROVE  TicketsOK'
  <2>1. /\ e.request \in Requests /\ e.user \in Users /\ e.activity \in Activities
        /\ ticket[e.request] # NoTicket
        /\ ticket[e.request].user = e.user /\ ticket[e.request].activity = e.activity
        /\ ticket[e.request] = [user |-> e.user, activity |-> e.activity]
    BY <1>0, <1>4, TicketKnown DEF Loses, TicketIs
  <2>2. /\ status[e.request] # "FAILED"
        /\ published' = published /\ ticket' = ticket
        /\ \A r \in Requests : status'[r] = IF r = e.request THEN "FAILED" ELSE status[r]
        /\ \A a \in Activities :
             buyers'[a] = IF a = e.activity THEN buyers[a] \ {e.user} ELSE buyers[a]
    BY <1>0, <1>4, <2>1 DEF Loses, Release, Decided
  <2>3. ASSUME NEW r \in Requests, ticket[r] # NoTicket, status'[r] # "FAILED"
        PROVE  ticket[r].user \in buyers'[ticket[r].activity]
    <3>1. r # e.request /\ status[r] # "FAILED"
      BY <2>2, <2>3
    <3>2. ticket[r].user \in buyers[ticket[r].activity] /\ ticket[r] # ticket[e.request]
      BY <1>0, <2>1, <2>2, <2>3, <3>1 DEF TicketsOK
    <3>3. ~(ticket[r].user = e.user /\ ticket[r].activity = e.activity)
      BY <1>0, <2>1, <2>3, <3>2 DEF Ticket
    <3> QED
      BY <1>0, <2>2, <2>3, <3>2, <3>3
  <2> QED
    BY <1>0, <2>1, <2>2, <2>3 DEF TicketsOK
<1> QED
  BY <1>1, <1>2, <1>3, <1>4, QuietStep

LEMMA WonOrder ==
  ASSUME TypeOK, NEW e \in OrderEvent, Wins(e)
  PROVE  Purchases' = Purchases \cup {e} /\ (Ordinary' => Ordinary)
<1> DEFINE o == SeckillOrder(e.user, e.activity, e.request)
<1>1. o.request = e.request /\ o.user = e.user /\ o.activity = e.activity
  BY DEF SeckillOrder
<1>2. orders' = orders \cup {o}
  BY DEF Wins, CreateSeckillOrder
<1> HIDE DEF o
<1>3. o.activity # NoActivity
  BY <1>1, StoreAssumption DEF OrderEvent
<1>4. PurchaseOf(o) = e
  BY <1>1 DEF PurchaseOf, OrderEvent
<1>5. Purchases' = {PurchaseOf(x) : x \in {y \in orders' : y.activity # NoActivity}}
  BY DEF Purchases
<1>6. \A x : x \in Purchases' <=> x \in Purchases \/ x = e
  BY <1>2, <1>3, <1>4, <1>5 DEF Purchases
<1> QED
  BY <1>2, <1>3, <1>6 DEF Ordinary

LEMMA PurchasesStep ==
  ASSUME Tracked, TypeOK, ReservationInv, [Next]_vars
  PROVE  PurchasesOK'
<1>0. PurchasesOK /\ status \in [Requests -> RequestStatus]
      /\ ticket \in [Requests -> Ticket \cup {NoTicket}]
  BY DEF ReservationInv, TypeOK, RedisTypeOK
<1>1. CASE Quiet
  BY <1>0, <1>1, PurchaseTypes DEF Quiet, PurchasesOK
<1>2. ASSUME NEW e \in OrderEvent, Claims(e)
      PROVE  PurchasesOK'
  <2>1. status[e.request] = "NONE" /\ e.request \in Requests
    BY <1>2 DEF Claims, Reserve, Admissible, Known, OrderEvent
  <2>2. ~Bought(e.request)
    BY <2>1, BoughtKnown DEF ReservationInv
  <2>3. \A o \in Purchases : o.request # e.request
    BY <2>2 DEF Bought
  <2>4. Purchases' = Purchases
    BY <1>2 DEF Claims, orderVars, Purchases
  <2>5. \A r \in Requests : r # e.request => status'[r] = status[r] /\ ticket'[r] = ticket[r]
    BY <1>0, <1>2 DEF Claims, Reserve
  <2> QED
    BY <1>0, <2>3, <2>4, <2>5, PurchaseTypes DEF PurchasesOK
<1>3. ASSUME NEW e \in OrderEvent, Wins(e)
      PROVE  PurchasesOK'
  <2>1. Purchases' = Purchases \cup {e}
    BY <1>3, WonOrder
  <2>2. /\ ticket' = ticket /\ status' = status
        /\ TicketIs(e) /\ status[e.request] # "FAILED"
    BY <1>3 DEF Wins, redisVars
  <2> QED
    BY <1>0, <2>1, <2>2 DEF PurchasesOK, TicketIs
<1>4. ASSUME NEW e \in OrderEvent, Loses(e)
      PROVE  PurchasesOK'
  <2>1. Purchases' = Purchases /\ ticket' = ticket /\ ~Bought(e.request)
    BY <1>4 DEF Loses, Release, orderVars, Purchases
  <2>2. \A r \in Requests : r # e.request => status'[r] = status[r]
    BY <1>0, <1>4 DEF Loses, Release
  <2> QED
    BY <1>0, <2>1, <2>2, PurchaseTypes DEF PurchasesOK, Bought
<1> QED
  BY <1>1, <1>2, <1>3, <1>4, QuietStep

\* What the three steps do to the open, won and lost claims.
LEMMA OpenStep ==
  ASSUME TypeOK, TicketsOK, PurchasesOK, TypeOK', TicketsOK', PurchasesOK'
  PROVE  /\ Quiet => UNCHANGED <<Open, Won, Lost>>
         /\ \A e \in OrderEvent : Claims(e) =>
              e \notin Open \cup Won \cup Lost /\ Open' = Open \cup {e} /\ UNCHANGED <<Won, Lost>>
         /\ \A e \in OrderEvent : Wins(e) =>
              e \in Open /\ Open' = Open \ {e} /\ Won' = Won \cup {e} /\ UNCHANGED Lost
         /\ \A e \in OrderEvent : Loses(e) =>
              e \in Open /\ Open' = Open \ {e} /\ Lost' = Lost \cup {e} /\ UNCHANGED Won
<1>0. LedgerIsPerRequest /\ LedgerIsPerRequest'
  BY Ledger, PTL
<1>1. ASSUME Quiet
      PROVE  UNCHANGED <<Open, Won, Lost>>
  <2>1. \A e \in OrderEvent : TicketIs(e)' <=> TicketIs(e)
    BY <1>1 DEF Quiet, TicketIs
  <2>2. \A e \in OrderEvent : Bought(e.request)' <=> Bought(e.request)
    BY <1>1 DEF Quiet, Bought
  <2>3. \A e \in OrderEvent : status'[e.request] = "FAILED" <=> status[e.request] = "FAILED"
    BY <1>1 DEF Quiet, OrderEvent
  <2> QED
    BY <1>0, <2>1, <2>2, <2>3 DEF LedgerIsPerRequest
<1>5. status \in [Requests -> RequestStatus] /\ ticket \in [Requests -> Ticket \cup {NoTicket}]
  BY DEF TypeOK, RedisTypeOK
<1>6. \A e, x \in OrderEvent :
        /\ e.request \in Requests
        /\ x.request = e.request /\ x.user = e.user /\ x.activity = e.activity => x = e
  BY DEF OrderEvent
<1>7. ASSUME NEW e \in OrderEvent, NEW x \in OrderEvent, TicketIs(e), TicketIs(x),
             x.request = e.request
      PROVE  x = e
  BY <1>6, <1>7, TicketKnown
<1>2. ASSUME NEW e \in OrderEvent, Claims(e)
      PROVE  /\ e \notin Open \cup Won \cup Lost
             /\ Open' = Open \cup {e} /\ UNCHANGED <<Won, Lost>>
  <2>1. /\ e.request \in Requests /\ status[e.request] = "NONE"
        /\ \A r \in Requests :
             /\ status'[r] = IF r = e.request THEN "ACCEPTED" ELSE status[r]
             /\ r # e.request => ticket'[r] = ticket[r]
        /\ ticket'[e.request] = [user |-> e.user, activity |-> e.activity]
    BY <1>2, <1>5, <1>6 DEF Claims, Reserve, Admissible, Known
  <2>2. ~TicketIs(e)
    BY <2>1, TicketKnown
  <2>3. Purchases' = Purchases
    BY <1>2 DEF Claims, orderVars, Purchases
  <2>4. ~Bought(e.request)
    BY <2>1, BoughtKnown
  <2>5. TicketIs(e)'
    BY <2>1 DEF TicketIs
  <2>6. ASSUME NEW x \in OrderEvent, x # e
        PROVE  /\ TicketIs(x)' <=> TicketIs(x)
               /\ TicketIs(x) => status'[x.request] = status[x.request]
               /\ Bought(x.request)' <=> Bought(x.request)
    <3>1. CASE x.request = e.request
      <4>1. ~TicketIs(x)
        BY <2>1, <3>1, TicketKnown
      <4>2. ~TicketIs(x)'
        BY <1>6, <2>1, <2>6, <3>1 DEF TicketIs
      <4>3. Bought(x.request)' <=> Bought(x.request)
        BY <2>3 DEF Bought
      <4> QED
        BY <4>1, <4>2, <4>3
    <3>2. CASE x.request # e.request
      BY <1>6, <2>1, <2>3, <3>2 DEF TicketIs, Bought
    <3> QED
      BY <3>1, <3>2
  <2>7. ~Bought(e.request)'
    BY <2>3, <2>4 DEF Bought
  <2> QED
    BY <1>0, <2>1, <2>2, <2>5, <2>6, <2>7 DEF LedgerIsPerRequest
<1>3. ASSUME NEW e \in OrderEvent, Wins(e)
      PROVE  e \in Open /\ Open' = Open \ {e} /\ Won' = Won \cup {e} /\ UNCHANGED Lost
  <2>1. /\ TicketIs(e) /\ status[e.request] # "FAILED" /\ ~Bought(e.request)
        /\ status' = status /\ ticket' = ticket
    BY <1>3 DEF Wins, redisVars
  <2>2. \A r : Bought(r)' <=> Bought(r) \/ r = e.request
    BY <1>3, WonOrder DEF Bought
  <2> QED
    BY <1>0, <1>7, <2>1, <2>2 DEF LedgerIsPerRequest, TicketIs
<1>4. ASSUME NEW e \in OrderEvent, Loses(e)
      PROVE  e \in Open /\ Open' = Open \ {e} /\ Lost' = Lost \cup {e} /\ UNCHANGED Won
  <2>1. /\ TicketIs(e) /\ status[e.request] # "FAILED" /\ ~Bought(e.request)
        /\ e.request \in Requests /\ ticket' = ticket /\ Purchases' = Purchases
        /\ \A r \in Requests : status'[r] = IF r = e.request THEN "FAILED" ELSE status[r]
    BY <1>4, <1>5, <1>6 DEF Loses, Release, Decided, orderVars, Purchases
  <2>2. \A x \in OrderEvent : x.request \in Requests
    BY DEF OrderEvent
  <2>3. \A r : Bought(r)' <=> Bought(r)
    BY <2>1 DEF Bought
  <2> QED
    BY <1>0, <1>7, <2>1, <2>2, <2>3 DEF LedgerIsPerRequest, TicketIs
<1> QED
  BY <1>1, <1>2, <1>3, <1>4

LEMMA NothingIssued ==
  ASSUME TypeOK, ReservationInv, \A r \in Requests : ticket[r] = NoTicket
  PROVE  Open = {}
<1>1. \A e \in OrderEvent : ~TicketIs(e)
  BY TicketKnown DEF ReservationInv
<1> QED
  BY <1>1, Ledger DEF ReservationInv, LedgerIsPerRequest

LEMMA OneMore ==
  ASSUME NEW S, NEW T, NEW x, IsFiniteSet(S), x \notin S, T = S \cup {x}
  PROVE  IsFiniteSet(T) /\ Cardinality(T) = Cardinality(S) + 1
BY FS_AddElement

LEMMA OneLess ==
  ASSUME NEW S, NEW T, NEW x, IsFiniteSet(S), x \in S, T = S \ {x}
  PROVE  IsFiniteSet(T) /\ Cardinality(T) = Cardinality(S) - 1
BY FS_RemoveElement

LEMMA OpenFinite ==
  ASSUME IsFiniteSet(Open), NEW a
  PROVE  IsFiniteSet(OpenOf(a)) /\ Cardinality(OpenOf(a)) \in Nat
<1>1. OpenOf(a) \in SUBSET Open
  BY DEF OpenOf
<1> QED
  BY <1>1, FS_Subset, FS_CardinalityType

\* How far a cancellation moves the stock of an activity
LEMMA RefundedUnit ==
  ASSUME FlowInv, NEW o \in orders, Refund(o), NEW a \in rows \cap Activities
  PROVE  \/ available'[a] = available[a]
         \/ available'[a] = available[a] + 1 /\ Cancelled(a)
<1>1. /\ o \in Order /\ o.status = "PENDING"
      /\ o.activity = a => o.quantity = 1
      /\ available \in [Activities -> Nat]
      /\ \A x \in orders : x.request = o.request => x = o
  BY StoreAssumption
     DEF FlowInv, TypeOK, OrdersTypeOK, OrdersInv, OneUnitEach, OneOrder, Refund,
         CancelOrderAndRestoreStock
<1>2. available'[a] = available[a] + IF a = o.activity THEN o.quantity ELSE 0
  BY <1>1 DEF Refund, CancelOrderAndRestoreStock, Returned
<1>3. CASE a # o.activity
  BY <1>1, <1>2, <1>3
<1>4. CASE a = o.activity
  <2> DEFINE n == [o EXCEPT !.status = "CANCELLED"]
  <2>1. n.status = "CANCELLED" /\ n.activity = a /\ n.request = o.request
    BY <1>1, <1>4 DEF Order
  <2>2. n \in orders'
    BY DEF Refund, CancelOrderAndRestoreStock, SetStatus
  <2> HIDE DEF n
  <2>3. n \notin orders
    BY <1>1, <2>1
  <2> QED
    BY <1>1, <1>2, <1>4, <2>1, <2>2, <2>3 DEF Cancelled
<1> QED
  BY <1>3, <1>4

\* What a step does to the balance of an activity that is on sale
Kept(a) == a \in published /\ Gap(a)' = Gap(a)

Rewritten(a, w) ==
  /\ w.activity = a
  /\ Gap(a)' = (w.stock - available[a]) + Cardinality(OpenOf(a))

LEMMA GapStep ==
  ASSUME Tracked, FlowInv, ReservationInv, [Next]_vars, TypeOK',
         NEW a \in published' \cap rows'
  PROVE  /\ a \in rows \cap Activities
         /\ \/ Kept(a)
            \/ \E w \in publishing \ publishing' : Refill(w) /\ Rewritten(a, w)
            \/ ~InBalance /\ a \in published /\ Cancelled(a) /\ Gap(a)' = Gap(a) - 1
<1>0. /\ TypeOK /\ TicketsOK /\ PurchasesOK /\ TicketsOK' /\ PurchasesOK'
      /\ redisStock \in [Activities -> Nat] /\ available \in [Activities -> Nat]
      /\ redisStock[a] \in Nat /\ available[a] \in Nat /\ Cardinality(OpenOf(a)) \in Nat
      /\ a \in Activities /\ IsFiniteSet(Open) /\ IsFiniteSet(OpenOf(a))
  BY TicketsStep, PurchasesStep, OpenFinite
     DEF FlowInv, ReservationInv, BalanceOK, TypeOK, RedisTypeOK, OrdersTypeOK
<1>1. CASE Still
  <2>1. Open' = Open
    BY <1>0, <1>1, OpenStep DEF Still
  <2>2. Gap(a)' = Gap(a)
    BY <1>1, <2>1 DEF Still, Gap, OpenOf
  <2> QED
    BY <1>0, <1>1, <2>2 DEF Still, Quiet, Kept
<1>2. ASSUME NEW w \in publishing, Refill(w)
      PROVE  a \in rows /\ (Kept(a) \/ Rewritten(a, w))
  <2>1. Open' = Open
    BY <1>0, <1>2, OpenStep DEF Refill
  <2>2. OpenOf(a)' = OpenOf(a) /\ available'[a] = available[a] /\ a \in rows
    BY <1>2, <2>1 DEF Refill, OpenOf
  <2>3. CASE w.activity = a
    <3>1. redisStock'[a] = w.stock /\ w.stock \in Nat
      BY <1>0, <1>2, <2>3 DEF Refill, TypeOK, ControlOK, Publication
    <3> QED
      BY <1>0, <2>2, <2>3, <3>1 DEF Gap, Rewritten
  <2>4. CASE w.activity # a
    <3>1. redisStock'[a] = redisStock[a] /\ a \in published
      BY <1>0, <1>2, <2>4 DEF Refill
    <3> QED
      BY <2>2, <3>1 DEF Gap, Kept
  <2> QED
    BY <2>2, <2>3, <2>4
<1>3. ASSUME NEW o \in orders, Refund(o)
      PROVE  /\ a \in rows /\ a \in published /\ ~InBalance
             /\ Kept(a) \/ (Cancelled(a) /\ Gap(a)' = Gap(a) - 1)
  <2>1. Open' = Open
    BY <1>0, <1>3, OpenStep DEF Refund
  <2>2. /\ OpenOf(a)' = OpenOf(a) /\ redisStock'[a] = redisStock[a]
        /\ a \in rows /\ a \in published /\ ~InBalance
    BY <1>3, <2>1 DEF Refund, Quiet, OpenOf
  <2>3. \/ available'[a] = available[a]
        \/ available'[a] = available[a] + 1 /\ Cancelled(a)
    BY <1>0, <1>3, <2>2, RefundedUnit
  <2> QED
    BY <1>0, <2>2, <2>3 DEF Gap, Kept
<1>4. ASSUME NEW e \in OrderEvent, Claims(e) \/ Wins(e) \/ Loses(e)
      PROVE  a \in rows /\ Kept(a)
  <2>1. e.activity \in Activities /\ a \in published /\ a \in rows
    BY <1>4 DEF Claims, Wins, Loses, Reserve, Release, CreateSeckillOrder, redisVars,
                orderVars, OrderEvent
  <2>2. CASE Claims(e)
    <3>1. e \notin Open /\ Open' = Open \cup {e}
      BY <1>0, <2>2, OpenStep
    <3>2. /\ available'[a] = available[a]
          /\ redisStock'[a] = IF a = e.activity THEN redisStock[a] - 1 ELSE redisStock[a]
      BY <1>0, <2>2 DEF Claims, Reserve, orderVars
    <3>3. CASE a = e.activity
      <4>1. OpenOf(a)' = OpenOf(a) \cup {e} /\ e \notin OpenOf(a)
        BY <3>1, <3>3 DEF OpenOf
      <4>2. Cardinality(OpenOf(a)') = Cardinality(OpenOf(a)) + 1
        BY <1>0, <4>1, OneMore
      <4> QED
        BY <1>0, <2>1, <3>2, <3>3, <4>2 DEF Gap, Kept
    <3>4. CASE a # e.activity
      <4>1. OpenOf(a)' = OpenOf(a)
        BY <3>1, <3>4 DEF OpenOf
      <4> QED
        BY <2>1, <3>2, <3>4, <4>1 DEF Gap, Kept
    <3> QED
      BY <3>3, <3>4
  <2>3. CASE Wins(e) \/ Loses(e)
    <3>1. e \in Open /\ Open' = Open \ {e}
      BY <1>0, <2>3, OpenStep
    <3>2. \/ /\ redisStock' = redisStock
             /\ available' = [available EXCEPT ![e.activity] = @ - 1]
          \/ /\ available' = available
             /\ redisStock' = [redisStock EXCEPT ![e.activity] = @ + 1]
      BY <2>3 DEF Wins, Loses, CreateSeckillOrder, SeckillOrder, Release, redisVars, orderVars
    <3>3. CASE a = e.activity
      <4>1. OpenOf(a)' = OpenOf(a) \ {e} /\ e \in OpenOf(a)
        BY <3>1, <3>3 DEF OpenOf
      <4>2. Cardinality(OpenOf(a)') = Cardinality(OpenOf(a)) - 1
        BY <1>0, <4>1, OneLess
      <4>3. \/ redisStock'[a] = redisStock[a] /\ available'[a] = available[a] - 1
            \/ redisStock'[a] = redisStock[a] + 1 /\ available'[a] = available[a]
        BY <1>0, <3>2, <3>3
      <4> QED
        BY <1>0, <2>1, <4>2, <4>3 DEF Gap, Kept
    <3>4. CASE a # e.activity
      <4>1. OpenOf(a)' = OpenOf(a)
        BY <3>1, <3>4 DEF OpenOf
      <4>2. redisStock'[a] = redisStock[a] /\ available'[a] = available[a]
        BY <1>0, <3>2, <3>4
      <4> QED
        BY <2>1, <4>1, <4>2 DEF Gap, Kept
    <3> QED
      BY <3>3, <3>4
  <2> QED
    BY <1>4, <2>2, <2>3
<1>5. a \in rows
  BY <1>1, <1>2, <1>3, <1>4, <1>0, LedgerStep DEF Still, Quiet
<1> QED
  BY <1>0, <1>1, <1>2, <1>3, <1>4, <1>5, LedgerStep DEF Refill

LEMMA BalanceStep ==
  ASSUME Tracked, FlowInv, ReservationInv, [Next]_vars, TypeOK'
  PROVE  BalanceOK'
<1>0. /\ TypeOK /\ TicketsOK /\ PurchasesOK /\ TicketsOK' /\ PurchasesOK'
      /\ IsFiniteSet(Open) /\ (InBalance => ReservationsBacked)
  BY TicketsStep, PurchasesStep DEF FlowInv, ReservationInv, BalanceOK
<1>1. IsFiniteSet(Open')
  <2>1. Quiet => Open' = Open
    BY <1>0, OpenStep
  <2>2. \A e \in OrderEvent : Claims(e) => Open' = Open \cup {e}
    BY <1>0, OpenStep
  <2>3. \A e \in OrderEvent : Wins(e) \/ Loses(e) => Open' = Open \ {e}
    BY <1>0, OpenStep
  <2> QED
    BY <1>0, <2>1, <2>2, <2>3, QuietStep, FS_AddElement, FS_RemoveElement
<1>2. ASSUME InBalance, NEW a \in published' \cap rows'
      PROVE  Gap(a)' = 0
  <2>1. CASE Kept(a)
    <3>1. a \in published \cap rows /\ Gap(a)' = Gap(a)
      BY <2>1, GapStep DEF Kept
    <3> QED
      BY <1>0, <1>2, <3>1 DEF ReservationsBacked
  <2>2. ASSUME NEW w \in publishing, Rewritten(a, w)
        PROVE  Gap(a)' = 0
    <3>1. w.stock = available[a] /\ Open = {} /\ a \in Activities
      BY <1>0, <1>2, <2>2, FirstRefill, NothingIssued DEF Rewritten
    <3>2. OpenOf(a) = {}
      BY <3>1 DEF OpenOf
    <3>3. Cardinality(OpenOf(a)) = 0
      BY <3>2, FS_EmptySet
    <3>4. available[a] \in Nat
      BY <1>0, <3>1 DEF TypeOK, OrdersTypeOK
    <3> QED
      BY <2>2, <3>1, <3>3, <3>4 DEF Rewritten
  <2> QED
    BY <1>2, <2>1, <2>2, GapStep
<1> QED
  BY <1>1, <1>2 DEF BalanceOK, ReservationsBacked, InBalance

\* A product keeps a unit for every unit of its activities.
LEMMA PlentyStep ==
  ASSUME Tracked, TypeOK, ReservationInv, [Next]_vars
  PROVE  PlentyOK'
<1> SUFFICES ASSUME MayCrash PROVE PlentyOK'
  BY DEF PlentyOK
<1>0. /\ rows = Products \cup Activities /\ ~Ordinary
      /\ \A p \in Products : /\ IsFiniteSet(UnitsOf(p, available))
                             /\ Cardinality(UnitsOf(p, available)) <= stock[p]
      /\ stock \in [Products -> Nat] /\ available \in [Activities -> Nat]
  BY DEF ReservationInv, PlentyOK, TypeOK, OrdersTypeOK
<1>1. CASE Quiet
  BY <1>0, <1>1 DEF Quiet, PlentyOK
<1>2. ASSUME NEW e \in OrderEvent, Claims(e) \/ Loses(e)
      PROVE  PlentyOK'
  <2>1. UNCHANGED orderVars
    BY <1>2 DEF Claims, Loses
  <2> QED
    BY <1>0, <2>1 DEF orderVars, PlentyOK, Ordinary
<1>3. ASSUME NEW e \in OrderEvent, Wins(e)
      PROVE  PlentyOK'
  <2> DEFINE a == e.activity
             n == available[a]
  <2>0. a \in Activities /\ ProductOf[a] \in Products
    BY StoreAssumption DEF OrderEvent
  <2>1. /\ rows' = rows
        /\ available' = [available EXCEPT ![a] = n - 1] /\ n > 0 /\ n \in Nat
        /\ stock' = [stock EXCEPT ![ProductOf[a]] = @ - 1]
    BY <1>0, <1>3, <2>0 DEF Wins, CreateSeckillOrder, SeckillAffordable, SeckillOrder
  <2>2. ~Ordinary'
    BY <1>0, <1>3, WonOrder
  <2>3. ASSUME NEW p \in Products
        PROVE  /\ IsFiniteSet(UnitsOf(p, available'))
               /\ Cardinality(UnitsOf(p, available')) <= stock'[p]
    <3>1. \A u : u \in UnitsOf(p, available) <=>
            \E b \in Activities, i \in Nat :
              u = <<b, i>> /\ ProductOf[b] = p /\ i \in 1 .. available[b]
      BY <1>0 DEF UnitsOf
    <3>2. \A u : u \in UnitsOf(p, available') <=>
            \E b \in Activities, i \in Nat :
              u = <<b, i>> /\ ProductOf[b] = p /\ i \in 1 .. available'[b]
      BY <1>0, <2>0, <2>1 DEF UnitsOf
    <3>3. \A b \in Activities, i \in Nat :
            i \in 1 .. available'[b] <=> i \in 1 .. available[b] /\ <<b, i>> # <<a, n>>
      BY <1>0, <2>0, <2>1
    <3>4. UnitsOf(p, available') = UnitsOf(p, available) \ {<<a, n>>}
      BY <3>1, <3>2, <3>3
    <3>5. CASE p = ProductOf[a]
      <4>1. <<a, n>> \in UnitsOf(p, available)
        BY <2>0, <2>1, <3>1, <3>5
      <4>2. /\ IsFiniteSet(UnitsOf(p, available'))
            /\ Cardinality(UnitsOf(p, available')) = Cardinality(UnitsOf(p, available)) - 1
        BY <1>0, <3>4, <4>1, OneLess
      <4>3. Cardinality(UnitsOf(p, available)) \in Nat
        BY <1>0, FS_CardinalityType
      <4>4. stock'[p] = stock[p] - 1
        BY <1>0, <2>1, <3>5
      <4> QED
        BY <1>0, <4>2, <4>3, <4>4
    <3>6. CASE p # ProductOf[a]
      <4>1. UnitsOf(p, available') = UnitsOf(p, available)
        BY <3>1, <3>4, <3>6
      <4> QED
        BY <1>0, <2>1, <3>6, <4>1
    <3> QED
      BY <3>5, <3>6
  <2> QED
    BY <1>0, <2>1, <2>2, <2>3 DEF PlentyOK, UnitsOf
<1> QED
  BY <1>1, <1>2, <1>3, QuietStep

-----------------------------------------------------------------------------
(* The start of the API process and the publisher *)

LEMMA StartStep ==
  ASSUME Tracked, TypeOK, ReservationInv, [Next]_vars
  PROVE  StartOK'
<1> SUFFICES ASSUME InBalance PROVE StartOK'
  BY DEF StartOK, InBalance
<1>0. StartOK /\ available \in [Activities -> Nat]
  BY DEF ReservationInv, TypeOK, OrdersTypeOK
<1>1. \/ UNCHANGED apiVars \/ ApiStart \/ Listen
      \/ \E w \in publishing : WriteActivity(w)
  BY TrackedNext DEF Admit, Handle, Publish, Confirm, CompensateCall, MarkCallFailed,
     StartUp, Clock, Worker, MarkProcessing, Lookup, FindActivity, Create, Relookup,
     MarkSucceeded, CompensateDelivery, MarkFailed, SettleDelivery, RejectMalformed,
     WorkerExit, WorkerRedis, WorkerUnchanged, WorkerCrash, WorkerStop, Intrusion,
     ActivityDeleted, OrderWrite, vars
<1>2. /\ api' # "warming" => publishing' = {}
      /\ api' # "up" => api # "up"
  BY <1>0, <1>1 DEF apiVars, ApiStart, Listen, WriteActivity, StartOK
<1>3. ASSUME api' = "warming", NEW w \in publishing'
      PROVE  w.stock = TotalStock[w.activity]
  <2>1. CASE ApiStart
    <3>1. available = TotalStock
      BY <1>0, <2>1 DEF ApiStart, StartOK
    <3>2. \E a \in Activities : w = RowRead(a, disturbed)
      BY <1>3, <2>1 DEF ApiStart
    <3> QED
      BY <3>1, <3>2 DEF RowRead
  <2>2. CASE ~ApiStart
    BY <1>0, <1>1, <1>3, <2>2 DEF apiVars, Listen, WriteActivity, StartOK
  <2> QED
    BY <2>1, <2>2
<1>4. ASSUME api # "up"
      PROVE  /\ available' = TotalStock
             /\ \A r \in Requests : ticket'[r] = NoTicket
             /\ \A a \in published' : redisStock'[a] = TotalStock[a]
  <2>1. /\ available = TotalStock
        /\ \A r \in Requests : ticket[r] = NoTicket
        /\ \A a \in published : redisStock[a] = TotalStock[a]
        /\ \A e \in OrderEvent : ~TicketIs(e)
    BY <1>0, <1>4, TicketKnown DEF StartOK, ReservationInv
  <2>2. CASE Still
    BY <2>1, <2>2 DEF Still, Quiet
  <2>3. ASSUME NEW w \in publishing, Refill(w)
        PROVE  /\ UNCHANGED <<available, ticket>>
               /\ \A a \in published' : redisStock'[a] = TotalStock[a]
    BY <2>1, <2>3, FirstRefill DEF Refill, Quiet, TypeOK, RedisTypeOK
  <2>4. ~\E o \in orders : Refund(o)
    BY DEF Refund
  <2>5. ~\E e \in OrderEvent : Claims(e) \/ Wins(e) \/ Loses(e)
    BY <1>4, <2>1 DEF Claims, Wins, Loses
  <2> QED
    BY <2>1, <2>2, <2>3, <2>4, <2>5, LedgerStep
<1> QED
  BY <1>2, <1>3, <1>4 DEF StartOK

\* A handler is at work only while the API serves; then the mutex tells whose
\* confirmation is on its way.
LEMMA HandlerServed ==
  ASSUME ReservationInv, NEW c \in Calls, pc[c] \in InFlight
  PROVE  /\ api = "up" /\ connected
         /\ \/ mu = NoCall /\ confirms = <<>>
            \/ /\ mu \in Calls /\ pc[mu] = "confirm"
               /\ \E k \in BOOLEAN : confirms = <<[of |-> mu, ack |-> k]>>
         /\ \A d \in Calls : pc[d] = "confirm" => mu = d
BY DEF ReservationInv, PublisherOK

\* Who holds the mutex waits for the only confirmation there is.
LEMMA PublisherStep ==
  ASSUME Tracked, TypeOK, ReservationInv, [Next]_vars
  PROVE  PublisherOK'
<1>0. PublisherOK /\ pc \in [Calls -> {"idle"} \cup InFlight \cup Answered]
      /\ NoCall \notin Calls
  BY FlowAssumption DEF ReservationInv, TypeOK, ControlOK
<1>1. ASSUME UNCHANGED <<confirms, mu, connected, api>>,
             \A c \in Calls : pc'[c] = "confirm" <=> pc[c] = "confirm",
             api # "up" => UNCHANGED pc
      PROVE  PublisherOK'
  BY <1>0, <1>1 DEF PublisherOK
<1>2. ASSUME NEW c \in Calls, NEW e \in OrderEvent, Admit(c, e)
      PROVE  PublisherOK'
  <2>1. /\ UNCHANGED queueVars /\ pc[c] = "idle" /\ api = "up" /\ api' = api
        /\ \E l \in {"publish", "replayed", "refused", "unavailable"} :
             pc' = [pc EXCEPT ![c] = l]
    BY <1>2 DEF Admit, Goto, apiVars
  <2> QED
    BY <1>0, <1>1, <2>1 DEF queueVars
<1>3. ASSUME NEW c \in Calls, Publish(c)
      PROVE  PublisherOK'
  <2>0. api = "up" /\ api' = api
    BY <1>3, HandlerServed DEF Publish, InFlight, apiVars
  <2>1. CASE \E k \in BOOLEAN : Send(c, ev[c], k)
    <3>1. PICK k \in BOOLEAN : Send(c, ev[c], k)
      BY <2>1
    <3>2. pc' = [pc EXCEPT ![c] = "confirm"] /\ connected'
      BY <1>3, <3>1 DEF Publish, Goto, Send, SendRefused, queueVars
    <3>3. mu = NoCall /\ mu' = c /\ confirms = <<>>
      BY <1>0, <2>0, <3>1 DEF Send, PublisherOK
    <3>4. confirms' = <<[of |-> c, ack |-> k]>>
      BY <3>1, <3>3 DEF Send
    <3> QED
      BY <1>0, <2>0, <3>2, <3>3, <3>4 DEF PublisherOK
  <2>2. CASE ~\E k \in BOOLEAN : Send(c, ev[c], k)
    <3>1. /\ pc[c] = "publish" /\ pc' = [pc EXCEPT ![c] = "compensate"]
          /\ UNCHANGED queueVars
      BY <1>3, <2>2 DEF Publish, Goto, SendRefused
    <3> QED
      BY <1>0, <1>1, <2>0, <3>1 DEF queueVars
  <2> QED
    BY <2>1, <2>2
<1>4. ASSUME NEW c \in Calls, Confirm(c)
      PROVE  PublisherOK'
  <2>0. api = "up" /\ api' = api
    BY <1>4, HandlerServed DEF Confirm, InFlight, apiVars
  <2>1. /\ mu = c /\ mu' = NoCall /\ connected'
        /\ \E l \in {"queued", "compensate"} : pc' = [pc EXCEPT ![c] = l]
        /\ \E k \in BOOLEAN : confirms = <<[of |-> mu, ack |-> k]>>
        /\ confirms' = Tail(confirms)
    BY <1>0, <1>4, <2>0, Excluded DEF Confirm, Goto, ReadConfirm, ReadClosed, PublisherOK
  <2>2. confirms' = <<>>
    BY <2>1
  <2> QED
    BY <1>0, <2>0, <2>1, <2>2 DEF PublisherOK
<1>5. ASSUME NEW c \in Calls, CompensateCall(c) \/ MarkCallFailed(c)
      PROVE  PublisherOK'
  <2>1. /\ UNCHANGED queueVars /\ pc[c] # "confirm" /\ pc[c] \in InFlight
        /\ \E l \in {"mark_failed", "unavailable"} : pc' = [pc EXCEPT ![c] = l]
        /\ api' = api
    BY <1>5 DEF CompensateCall, MarkCallFailed, Goto, InFlight, apiVars
  <2> QED
    BY <1>0, <1>1, <2>1, HandlerServed DEF queueVars
<1>6. CASE ApiStart
  <2>1. /\ UNCHANGED callVars /\ confirms' = <<>> /\ mu' = NoCall /\ connected'
        /\ api # "up"
    BY <1>6 DEF ApiStart, Reconnect
  <2> QED
    BY <1>0, <2>1 DEF callVars, InFlight, PublisherOK
<1>7. ASSUME \/ WorkerCrash \/ WorkerStop \/ ActivityDeleted \/ OrderWrite
             \/ UNCHANGED vars \/ Worker \/ Intrusion
             \/ \E w \in publishing : WriteActivity(w)
             \/ \E a \in Activities : AdminPublish(a) \/ Clock(a)
      PROVE  UNCHANGED <<pc, confirms, mu, connected, api>>
  BY <1>7 DEF WorkerCrash, WorkerStop, ActivityDeleted, OrderWrite, vars, AdminPublish,
     Intrusion, Inject, WriteActivity, Clock, Worker, MarkProcessing, Lookup, FindActivity,
     Create, Relookup, MarkSucceeded, CompensateDelivery, MarkFailed, SettleDelivery,
     RejectMalformed, WorkerExit, WorkerRedis, WorkerUnchanged, Settle, queueVars, callVars,
     apiVars
<1>8. CASE Listen
  BY <1>0, <1>8 DEF Listen, queueVars, callVars, PublisherOK
<1>9. CASE ApiCrash \/ ApiRestart
  <2>1. connected' /\ api' = "down"
    BY <1>0, <1>9 DEF ApiCrash, ApiRestart, queueVars, PublisherOK
  <2>2. \A c \in Calls : pc'[c] \notin InFlight
    BY <1>0, <1>9 DEF ApiCrash, ApiRestart, InFlight, callVars
  <2> QED
    BY <2>1, <2>2 DEF PublisherOK
<1> QED
  BY <1>1, <1>2, <1>3, <1>4, <1>5, <1>6, <1>7, <1>8, <1>9, TrackedNext
     DEF Handle, StartUp, ApiEvent

-----------------------------------------------------------------------------
(* Which requests a step can move *)

Unmoved(r) == status'[r] = status[r] /\ (Bought(r)' <=> Bought(r))

\* The worker moves only the request of the delivery at hand.
LEMMA WorkerMoves ==
  ASSUME TypeOK, Worker
  PROVE  /\ UNCHANGED <<callVars, ticket, confirms>>
         /\ \/ UNCHANGED <<status, Purchases>>
            \/ /\ queue # <<>> /\ Delivery # Malformed /\ UNCHANGED queue
               /\ \A r \in Requests : r # Delivery.request => Unmoved(r)
<1> USE DEF WorkerRedis, WorkerUnchanged
<1>1. CASE \/ Lookup \/ FindActivity \/ Relookup
           \/ SettleDelivery \/ RejectMalformed \/ WorkerExit
  BY <1>1 DEF Lookup, FindActivity, Relookup, SettleDelivery, RejectMalformed, WorkerExit, Settle,
     redisVars, orderVars, queueVars, Purchases
<1>2. CASE \/ MarkProcessing \/ MarkSucceeded \/ CompensateDelivery \/ MarkFailed
  <2>1. /\ queue # <<>> /\ Delivery # Malformed /\ Delivery.request \in Requests
    BY <1>2, DeliveryType DEF MarkProcessing, MarkSucceeded, CompensateDelivery, MarkFailed,
       TypeOK, ControlOK
  <2>2. UNCHANGED <<callVars, ticket, confirms, queue, Purchases>>
    BY <1>2 DEF MarkProcessing, MarkSucceeded, CompensateDelivery, MarkFailed, Mark,
       Compensate, Release, redisVars, orderVars, queueVars, Purchases
  <2>3. UNCHANGED status \/ \E s : status' = [status EXCEPT ![Delivery.request] = s]
    BY <1>2 DEF MarkProcessing, MarkSucceeded, CompensateDelivery, MarkFailed, Mark,
       Compensate, Release, redisVars
  <2> QED
    BY <2>1, <2>2, <2>3 DEF Unmoved, Bought, TypeOK, RedisTypeOK
<1>3. CASE Create
  <2>1. /\ queue # <<>> /\ Delivery # Malformed /\ Delivery \in OrderEvent
    BY <1>3, DeliveryType DEF Create, TypeOK, ControlOK
  <2>2. UNCHANGED <<callVars, ticket, confirms, queue, status>>
    BY <1>3 DEF Create, redisVars, queueVars
  <2>3. UNCHANGED orders \/ orders' = orders \cup {DeliveredOrder}
    BY <1>3 DEF Create, CreateSeckillOrder, SeckillOrderFails, orderVars
  <2>4. DeliveredOrder.request = Delivery.request
    BY DEF DeliveredOrder, SeckillOrder
  <2>5. \A r : r # Delivery.request => (Bought(r)' <=> Bought(r))
    BY <2>3, <2>4 DEF Bought, Purchases, PurchaseOf
  <2> QED
    BY <2>1, <2>2, <2>5 DEF Unmoved, TypeOK, RedisTypeOK
<1> QED
  BY <1>1, <1>2, <1>3 DEF Worker

\* Steps other than a call's and the worker's move none.
LEMMA OthersMove ==
  ASSUME TypeOK,
         \/ WorkerCrash \/ WorkerStop \/ ActivityDeleted \/ OrderWrite \/ UNCHANGED vars
         \/ StartUp \/ ApiRestart \/ Intrusion
         \/ \E a \in Activities : AdminPublish(a) \/ Clock(a)
  PROVE  UNCHANGED <<callVars, status, ticket, Purchases>>
<1>1. ASSUME \/ WorkerCrash \/ WorkerStop \/ UNCHANGED vars \/ ApiStart \/ Listen
             \/ ApiRestart \/ Intrusion
             \/ \E a \in Activities : AdminPublish(a) \/ Clock(a)
      PROVE  UNCHANGED <<callVars, status, ticket, Purchases>>
  BY <1>1 DEF WorkerCrash, WorkerStop, vars, ApiStart, Listen, ApiRestart, AdminPublish,
     Intrusion, Clock, redisVars, orderVars, Purchases
<1>2. ASSUME \/ ActivityDeleted \/ \E w \in publishing : WriteActivity(w)
      PROVE  UNCHANGED <<callVars, status, ticket, Purchases>>
  BY <1>2 DEF ActivityDeleted, DeleteActivity, WriteActivity, PublishActivity, redisVars,
     orderVars, Purchases
<1>3. CASE OrderWrite
  BY <1>3, OrderWriteKeeps DEF OrderWrite, redisVars
<1> QED
  BY <1>1, <1>2, <1>3 DEF StartUp

LEMMA Appended ==
  ASSUME TypeOK, NEW m \in OrderEvent \cup {Malformed}, queue' = Append(queue, m)
  PROVE  /\ Positions' = Positions \cup (IF m = Malformed THEN {} ELSE {Len(queue) + 1})
         /\ Len(queue) + 1 \notin Positions /\ Len(queue) \in Nat
         /\ queue'[Len(queue) + 1] = m
         /\ \A i \in Positions : queue'[i] = queue[i] /\ i \in Nat /\ i >= 1
         /\ \A r : InQueue(r)' <=> InQueue(r) \/ (m # Malformed /\ r = m.request)
<1>1. /\ queue \in Seq(OrderEvent \cup {Malformed}) /\ Len(queue) \in Nat
      /\ DOMAIN queue = 1 .. Len(queue)
  BY DEF TypeOK, QueueTypeOK
<1>2. /\ DOMAIN queue' = 1 .. Len(queue) + 1
      /\ \A i \in 1 .. Len(queue) : queue'[i] = queue[i]
      /\ queue'[Len(queue) + 1] = m
  BY <1>1
<1>3. Positions' = Positions \cup (IF m = Malformed THEN {} ELSE {Len(queue) + 1})
  BY <1>1, <1>2 DEF Positions
<1>4. /\ Len(queue) + 1 \notin Positions
      /\ \A i \in Positions : queue'[i] = queue[i] /\ i \in Nat /\ i >= 1
  BY <1>1, <1>2 DEF Positions
<1> QED
  BY <1>1, <1>2, <1>3, <1>4 DEF InQueue

LEMMA Settled ==
  ASSUME TypeOK, queue # <<>>, Settle
  PROVE  /\ \A i \in Positions' :
              i \in Nat /\ i >= 1 /\ i + 1 \in Positions /\ queue'[i] = queue[i + 1]
         /\ \A r : InQueue(r)' => InQueue(r)
<1>1. /\ queue \in Seq(OrderEvent \cup {Malformed}) /\ Len(queue) \in Nat /\ queue' = Tail(queue)
  BY DEF TypeOK, QueueTypeOK, Settle
<1>2. /\ DOMAIN queue = 1 .. Len(queue) /\ DOMAIN queue' = 1 .. Len(queue) - 1
      /\ \A i \in 1 .. Len(queue) - 1 : queue'[i] = queue[i + 1]
  BY <1>1
<1> QED
  BY <1>1, <1>2 DEF Positions, InQueue

-----------------------------------------------------------------------------
(* Calls *)

\* What CallsOK reads stays for the calls that are under way.
LEMMA CallsFrame ==
  ASSUME ReservationInv, UNCHANGED <<pc, ev, confirms>>,
         \A c \in Calls : pc[c] \in InFlight =>
           /\ ticket'[ev[c].request] = ticket[ev[c].request]
           /\ ~InQueue(ev[c].request) => Unmoved(ev[c].request) /\ ~InQueue(ev[c].request)'
  PROVE  CallsOK'
BY DEF ReservationInv, CallsOK, Unsent, InFlight, TicketIs, Unmoved, Untouched

LEMMA CallsStep ==
  ASSUME Tracked, TypeOK, ReservationInv, [Next]_vars
  PROVE  CallsOK'
<1>0. /\ pc \in [Calls -> {"idle"} \cup InFlight \cup Answered]
      /\ ev \in [Calls -> OrderEvent \cup {NoEvent}]
      /\ \A c \in Calls : pc[c] \in InFlight =>
           /\ ev[c] \in OrderEvent /\ ev[c].request \in Requests
           /\ TicketIs(ev[c]) /\ status[ev[c].request] # "NONE"
      /\ ticket \in [Requests -> Ticket \cup {NoTicket}]
      /\ status \in [Requests -> RequestStatus]
      /\ CallsOK
  BY TicketKnown DEF ReservationInv, CallsOK, TypeOK, ControlOK, RedisTypeOK, InFlight, OrderEvent
<1>1. ASSUME NEW c \in Calls, NEW e \in OrderEvent, Admit(c, e)
      PROVE  CallsOK'
  <2>1. /\ UNCHANGED <<queue, confirms, Purchases>> /\ pc[c] = "idle"
        /\ ev' = [ev EXCEPT ![c] = e]
    BY <1>1 DEF Admit, queueVars, orderVars, Purchases
  <2>2. CASE UNCHANGED redisVars
    <3>0. ~Reserve(e)
      BY <1>0, <2>2 DEF Reserve, Admissible, Known, redisVars, OrderEvent
    <3>1. /\ UNCHANGED <<status, ticket>>
          /\ \E l \in {"replayed", "refused", "unavailable"} : pc' = [pc EXCEPT ![c] = l]
      BY <1>1, <2>2, <3>0 DEF Admit, Goto, redisVars
    <3>2. \A d \in Calls : pc'[d] \in InFlight =>
            d # c /\ pc'[d] = pc[d] /\ ev'[d] = ev[d]
      BY <1>0, <2>1, <3>1 DEF InFlight
    <3> QED
      BY <1>0, <2>1, <3>1, <3>2
         DEF CallsOK, Unsent, TicketIs, Untouched, Bought, InQueue, Positions, InFlight
  <2>3. CASE Reserve(e)
    <3>1. /\ \E l \in {"publish", "replayed", "unavailable"} : pc' = [pc EXCEPT ![c] = l]
          /\ e.request \in Requests /\ status[e.request] = "NONE"
          /\ \A r \in Requests : r # e.request => status'[r] = status[r] /\ ticket'[r] = ticket[r]
          /\ ticket'[e.request] = [user |-> e.user, activity |-> e.activity]
          /\ status'[e.request] = "ACCEPTED"
      BY <1>0, <1>1, <2>3
         DEF Admit, Goto, Reserve, Admissible, Known, Replayed, Refused, OrderEvent
    <3>2. ~Bought(e.request) /\ ~InQueue(e.request)
      <4>1. \A i \in Positions : queue[i] \in OrderEvent
        BY DEF TypeOK, QueueTypeOK, Positions
      <4> QED
        BY <3>1, <4>1, BoughtKnown, TicketKnown DEF ReservationInv, MessagesOK, InQueue
    <3>3. /\ ~Bought(e.request)' /\ ~InQueue(e.request)'
          /\ \A r : (Bought(r)' <=> Bought(r)) /\ (InQueue(r)' <=> InQueue(r))
      BY <2>1, <3>2 DEF Bought, InQueue, Positions
    <3>4. \A d \in Calls : d # c => pc'[d] = pc[d] /\ ev'[d] = ev[d]
      BY <1>0, <2>1, <3>1
    <3>5. \A d \in Calls : d # c /\ pc[d] \in InFlight => ev[d].request # e.request
      BY <1>0, <3>1
    <3>6. ev'[c] = e /\ pc'[c] \in {"publish", "replayed", "unavailable"}
      BY <1>0, <2>1, <3>1
    <3>7. \A d \in Calls : pc'[d] \in InFlight => TicketIs(ev[d])' 
      BY <1>0, <3>1, <3>4, <3>5, <3>6 DEF TicketIs, InFlight
    <3>8. \A d \in Calls : Unsent(d)' =>
            Untouched(ev[d].request)' /\ ~InQueue(ev[d].request)'
      <4> SUFFICES ASSUME NEW d \in Calls, Unsent(d)'
                   PROVE  Untouched(ev[d].request)' /\ ~InQueue(ev[d].request)'
        OBVIOUS
      <4>1. CASE d = c
        BY <3>1, <3>3, <3>6, <4>1 DEF Untouched
      <4>2. CASE d # c
        <5>1. pc[d] \in InFlight /\ Unsent(d)
          BY <2>1, <3>4, <4>2 DEF Unsent, InFlight
        <5> QED
          BY <1>0, <3>1, <3>3, <3>4, <3>5, <4>2, <5>1 DEF CallsOK, Untouched
      <4> QED
        BY <4>1, <4>2
    <3>9. \A d \in Calls : pc'[d] = "mark_failed" =>
            status'[ev'[d].request] = "FAILED" /\ ~InQueue(ev[d].request)'
      BY <1>0, <3>1, <3>3, <3>4, <3>5, <3>6 DEF CallsOK, InFlight
    <3>10. \A d, b \in Calls :
             pc'[d] \in InFlight /\ pc'[b] \in InFlight /\ ev'[d].request = ev'[b].request
             => d = b
      BY <1>0, <3>4, <3>5, <3>6 DEF CallsOK
    <3> QED
      BY <3>7, <3>8, <3>9, <3>10 DEF CallsOK
  <2> QED
    BY <1>1, <2>2, <2>3 DEF Admit
<1>2. ASSUME NEW c \in Calls, Handle(c)
      PROVE  CallsOK'
  <2>1. /\ ev' = ev /\ pc[c] \in InFlight
        /\ \E l : pc' = [pc EXCEPT ![c] = l]
    BY <1>2 DEF Handle, Publish, Confirm, CompensateCall, MarkCallFailed, Goto, InFlight
  <2>2. /\ \A d \in Calls : d # c => pc'[d] = pc[d]
        /\ \A d \in Calls : d # c /\ pc[d] \in InFlight => ev[d].request # ev[c].request
        /\ \A d \in Calls : pc'[d] \in InFlight => pc[d] \in InFlight
    BY <1>0, <2>1 DEF CallsOK
  <2>3. SUFFICES /\ \A d \in Calls : pc[d] \in InFlight => TicketIs(ev[d])'
                 /\ \A d \in Calls : d # c /\ Unsent(d)' =>
                      Untouched(ev[d].request)' /\ ~InQueue(ev[d].request)'
                 /\ Unsent(c)' => Untouched(ev[c].request)' /\ ~InQueue(ev[c].request)'
                 /\ \A d \in Calls : pc'[d] = "mark_failed" =>
                      status'[ev[d].request] = "FAILED" /\ ~InQueue(ev[d].request)'
    <3>1. \A d, b \in Calls :
             pc'[d] \in InFlight /\ pc'[b] \in InFlight /\ ev'[d].request = ev'[b].request
             => d = b
      BY <1>0, <2>1, <2>2 DEF CallsOK
    <3> QED
      BY <2>1, <2>2, <2>3, <3>1 DEF CallsOK
  <2>4. CASE Publish(c)
    <3>1. UNCHANGED <<status, ticket, Purchases>> /\ pc[c] = "publish"
      BY <2>4 DEF Publish, redisVars, orderVars, Purchases
    <3>2. Untouched(ev[c].request) /\ ~InQueue(ev[c].request)
      BY <1>0, <3>1 DEF CallsOK, Unsent
    <3>3. CASE UNCHANGED queueVars
      <4>1. \A r : (Untouched(r)' <=> Untouched(r)) /\ (InQueue(r)' <=> InQueue(r))
        BY <3>1, <3>3 DEF Untouched, Bought, InQueue, Positions, queueVars
      <4>2. \A d \in Calls : d # c /\ Unsent(d)' => Unsent(d)
        BY <2>2, <3>3 DEF Unsent, queueVars
      <4>3. pc'[c] # "mark_failed"
        BY <1>0, <2>4 DEF Publish, Goto
      <4>4. \A d \in Calls : pc'[d] = "mark_failed" => pc[d] = "mark_failed" /\ pc[d] \in InFlight
        BY <2>2, <4>3 DEF InFlight
      <4>5. \A d \in Calls : pc[d] \in InFlight => TicketIs(ev[d])'
        BY <1>0, <2>1, <3>1 DEF TicketIs
      <4>6. \A d \in Calls : Unsent(d)' \/ d = c =>
              Untouched(ev[d].request)' /\ ~InQueue(ev[d].request)'
        <5> SUFFICES ASSUME NEW d \in Calls, Unsent(d)' \/ d = c
                     PROVE  Untouched(ev[d].request)' /\ ~InQueue(ev[d].request)'
          OBVIOUS
        <5>1. Untouched(ev[d].request) /\ ~InQueue(ev[d].request)
          BY <1>0, <3>2, <4>2 DEF CallsOK
        <5> QED
          BY <2>1, <4>1, <5>1
      <4>7. \A d \in Calls : pc'[d] = "mark_failed" =>
              status'[ev[d].request] = "FAILED" /\ ~InQueue(ev[d].request)'
        BY <1>0, <2>1, <3>1, <4>1, <4>4 DEF CallsOK
      <4> QED
        BY <4>5, <4>6, <4>7
    <3>4. ASSUME NEW k \in BOOLEAN, Send(c, ev[c], k)
          PROVE  /\ \A d \in Calls : pc[d] \in InFlight => TicketIs(ev[d])'
                 /\ \A d \in Calls : d # c /\ Unsent(d)' =>
                      Untouched(ev[d].request)' /\ ~InQueue(ev[d].request)'
                 /\ Unsent(c)' => Untouched(ev[c].request)' /\ ~InQueue(ev[c].request)'
                 /\ \A d \in Calls : pc'[d] = "mark_failed" =>
                      status'[ev[d].request] = "FAILED" /\ ~InQueue(ev[d].request)'
      <4>1. /\ pc'[c] = "confirm" /\ confirms = <<>> /\ mu = NoCall
            /\ confirms' = Append(confirms, [of |-> c, ack |-> k])
            /\ queue' = IF k THEN Append(queue, ev[c]) ELSE queue
        BY <1>0, <2>1, <2>4, <3>4, FlowAssumption, HandlerServed
           DEF Publish, Goto, Send, SendRefused, queueVars
      <4>2. \A d \in Calls : pc[d] # "confirm"
        BY <2>1, <4>1, FlowAssumption, HandlerServed
      <4>3. confirms' = <<[of |-> c, ack |-> k]>> /\ Head(confirms').ack = k
        BY <4>1
      <4>4. \A d \in Calls : d # c /\ Unsent(d)' => pc[d] \in {"publish", "compensate"}
        BY <2>2, <4>2 DEF Unsent
      <4>5. \A r : Untouched(r)' <=> Untouched(r)
        BY <3>1 DEF Untouched, Bought
      <4>6. \A r : r # ev[c].request \/ ~k => (InQueue(r)' <=> InQueue(r))
        <5>1. CASE k
          BY <1>0, <2>1, <4>1, <5>1, Appended, FlowAssumption
        <5>2. CASE ~k
          BY <4>1, <5>2 DEF InQueue, Positions
        <5> QED
          BY <5>1, <5>2
      <4>7. Unsent(c)' => ~k
        BY <4>1, <4>3 DEF Unsent
      <4>8. \A d \in Calls : pc[d] \in InFlight => TicketIs(ev[d])'
        BY <1>0, <2>1, <3>1 DEF TicketIs
      <4>9. \A d \in Calls : d # c /\ Unsent(d)' =>
              Untouched(ev[d].request)' /\ ~InQueue(ev[d].request)'
        <5> SUFFICES ASSUME NEW d \in Calls, d # c, Unsent(d)'
                     PROVE  Untouched(ev[d].request)' /\ ~InQueue(ev[d].request)'
          OBVIOUS
        <5>1. Unsent(d) /\ pc[d] \in InFlight
          BY <4>4 DEF Unsent, InFlight
        <5>2. Untouched(ev[d].request) /\ ~InQueue(ev[d].request)
          BY <1>0, <5>1 DEF CallsOK
        <5> QED
          BY <2>1, <2>2, <4>5, <4>6, <5>1, <5>2
      <4>10. Unsent(c)' => Untouched(ev[c].request)' /\ ~InQueue(ev[c].request)'
        BY <2>1, <3>2, <4>5, <4>6, <4>7
      <4>11. \A d \in Calls : pc'[d] = "mark_failed" =>
               status'[ev[d].request] = "FAILED" /\ ~InQueue(ev[d].request)'
        <5> SUFFICES ASSUME NEW d \in Calls, pc'[d] = "mark_failed"
                     PROVE  status'[ev[d].request] = "FAILED" /\ ~InQueue(ev[d].request)'
          OBVIOUS
        <5>1. d # c /\ pc[d] = "mark_failed" /\ pc[d] \in InFlight
          BY <2>2, <4>1 DEF InFlight
        <5>2. status[ev[d].request] = "FAILED" /\ ~InQueue(ev[d].request)
          BY <1>0, <5>1 DEF CallsOK
        <5> QED
          BY <2>1, <2>2, <3>1, <4>6, <5>1, <5>2
      <4> QED
        BY <4>8, <4>9, <4>10, <4>11
    <3> QED
      BY <2>4, <3>3, <3>4 DEF Publish, SendRefused
  <2>5. CASE Confirm(c)
    <3>1. /\ UNCHANGED <<status, ticket, Purchases, queue>> /\ pc[c] = "confirm"
          /\ mu = c /\ Head(confirms).ack \in BOOLEAN
          /\ pc'[c] = IF Head(confirms).ack THEN "queued" ELSE "compensate"
      <4>1. mu = c /\ \E k \in BOOLEAN : confirms = <<[of |-> mu, ack |-> k]>>
        BY <2>1, <2>5, HandlerServed, FlowAssumption DEF Confirm
      <4>2. confirms # <<>> /\ Head(confirms).ack \in BOOLEAN
        BY <4>1
      <4> QED
        BY <1>0, <2>5, <4>1, <4>2, Excluded
           DEF Confirm, Goto, ReadConfirm, ReadClosed, redisVars, orderVars, Purchases
    <3>2. \A d \in Calls : d # c => pc[d] # "confirm"
      BY <2>1, <3>1, HandlerServed
    <3>3. \A d \in Calls : Unsent(d)' => Unsent(d)
      BY <2>2, <3>1, <3>2 DEF Unsent
    <3>4. \A r : (Untouched(r)' <=> Untouched(r)) /\ (InQueue(r)' <=> InQueue(r))
      BY <3>1 DEF Untouched, Bought, InQueue, Positions
    <3>5. \A d \in Calls : pc[d] \in InFlight => TicketIs(ev[d])'
      BY <1>0, <2>1, <3>1 DEF TicketIs
    <3>6. \A d \in Calls : Unsent(d)' =>
            Untouched(ev[d].request)' /\ ~InQueue(ev[d].request)'
      BY <1>0, <2>1, <3>3, <3>4 DEF CallsOK
    <3>7. \A d \in Calls : pc'[d] = "mark_failed" =>
            status'[ev[d].request] = "FAILED" /\ ~InQueue(ev[d].request)'
      <4>1. \A d \in Calls : pc'[d] = "mark_failed" => pc[d] = "mark_failed"
        BY <2>2, <3>1
      <4> QED
        BY <1>0, <2>1, <3>1, <3>4, <4>1 DEF CallsOK
    <3> QED
      BY <3>5, <3>6, <3>7
  <2>6. CASE CompensateCall(c) \/ MarkCallFailed(c)
    <3>1. /\ UNCHANGED <<ticket, Purchases, queue, confirms>>
          /\ ~InQueue(ev[c].request)
          /\ pc'[c] \in {"mark_failed", "unavailable"}
          /\ pc'[c] = "mark_failed" => status'[ev[c].request] = "FAILED"
          /\ \A r \in Requests : r # ev[c].request => status'[r] = status[r]
      <4>1. CASE CompensateCall(c)
        <5>1. Untouched(ev[c].request) /\ ~InQueue(ev[c].request)
          BY <1>0, <4>1 DEF CompensateCall, CallsOK, Unsent
        <5> QED
          BY <1>0, <2>1, <4>1, <5>1, Excluded
             DEF CompensateCall, Compensate, Release, Untouched, Decided, Goto, queueVars,
                 orderVars, Purchases
      <4>2. CASE MarkCallFailed(c)
        BY <1>0, <2>1, <4>2, Excluded
           DEF MarkCallFailed, Mark, CallsOK, Goto, queueVars, orderVars, Purchases
      <4> QED
        BY <2>6, <4>1, <4>2
    <3>2. \A r : (Bought(r)' <=> Bought(r)) /\ (InQueue(r)' <=> InQueue(r))
      BY <3>1 DEF Bought, InQueue, Positions
    <3>3. \A d \in Calls : d # c /\ Unsent(d)' => Unsent(d) /\ pc[d] \in InFlight
      BY <2>2, <3>1 DEF Unsent, InFlight
    <3>4. \A d \in Calls : pc'[d] = "mark_failed" /\ d # c =>
                             pc[d] = "mark_failed" /\ pc[d] \in InFlight
      BY <2>2 DEF InFlight
    <3>5. \A d \in Calls : pc[d] \in InFlight => TicketIs(ev[d])'
      BY <1>0, <2>1, <3>1 DEF TicketIs
    <3>6. \A d \in Calls : d # c /\ Unsent(d)' =>
            Untouched(ev[d].request)' /\ ~InQueue(ev[d].request)'
      <4> SUFFICES ASSUME NEW d \in Calls, d # c, Unsent(d)'
                   PROVE  Untouched(ev[d].request)' /\ ~InQueue(ev[d].request)'
        OBVIOUS
      <4>1. Untouched(ev[d].request) /\ ~InQueue(ev[d].request) /\ pc[d] \in InFlight
        BY <1>0, <3>3 DEF CallsOK
      <4>2. status'[ev[d].request] = status[ev[d].request]
        BY <1>0, <2>2, <3>1, <4>1
      <4> QED
        BY <2>1, <3>2, <4>1, <4>2 DEF Untouched
    <3>7. ~Unsent(c)'
      BY <3>1 DEF Unsent
    <3>8. ASSUME NEW d \in Calls, pc'[d] = "mark_failed"
          PROVE  status'[ev[d].request] = "FAILED" /\ ~InQueue(ev[d].request)'
      <4>1. CASE d = c
        BY <2>1, <3>1, <3>2, <3>8, <4>1
      <4>2. CASE d # c
        <5>1. /\ status[ev[d].request] = "FAILED" /\ ~InQueue(ev[d].request)
              /\ pc[d] \in InFlight
          BY <1>0, <3>4, <3>8, <4>2 DEF CallsOK
        <5>2. status'[ev[d].request] = status[ev[d].request]
          BY <1>0, <2>2, <3>1, <4>2, <5>1
        <5> QED
          BY <2>1, <3>2, <5>1, <5>2
      <4> QED
        BY <4>1, <4>2
    <3> QED
      BY <3>5, <3>6, <3>7, <3>8
  <2> QED
    BY <1>2, <2>4, <2>5, <2>6 DEF Handle
<1>3. CASE Worker
  <2>1. UNCHANGED <<callVars, ticket, confirms>>
    BY <1>3, WorkerMoves
  <2>2. CASE UNCHANGED <<status, Purchases>>
    <3>1. UNCHANGED queue \/ (queue # <<>> /\ Settle)
      BY <1>3 DEF Worker, MarkProcessing, Lookup, FindActivity, Create, Relookup,
         MarkSucceeded, CompensateDelivery, MarkFailed, SettleDelivery, RejectMalformed, WorkerExit,
         WorkerRedis, queueVars, TypeOK, ControlOK
    <3>2. \A r : InQueue(r)' => InQueue(r)
      BY <3>1, Settled DEF InQueue, Positions
    <3> QED
      BY <2>1, <2>2, <3>2, CallsFrame DEF callVars, Unmoved, Bought
  <2>3. CASE /\ queue # <<>> /\ Delivery # Malformed /\ UNCHANGED queue
             /\ \A r \in Requests : r # Delivery.request => Unmoved(r)
    <3>1. InQueue(Delivery.request) /\ \A r : InQueue(r)' <=> InQueue(r)
      BY <2>3, FirstMessage DEF InQueue, Positions
    <3> QED
      BY <1>0, <2>1, <2>3, <3>1, CallsFrame DEF callVars
  <2> QED
    BY <1>3, <2>2, <2>3, WorkerMoves
<1>4. CASE ApiStart \/ ApiCrash
  <2>1. \A c \in Calls : pc'[c] \notin InFlight
    BY <1>0, <1>4 DEF ApiStart, ApiCrash, callVars, ReservationInv, PublisherOK, InFlight
  <2> QED
    BY <2>1 DEF CallsOK, Unsent, InFlight
<1>5. CASE Intrusion
  <2>1. \A r : InQueue(r)' <=> InQueue(r)
    BY <1>5, Appended DEF Intrusion, Inject
  <2> QED
    BY <1>5, <2>1, OthersMove, CallsFrame DEF Intrusion, Inject, callVars, Unmoved, Bought
<1>6. ASSUME \/ WorkerCrash \/ WorkerStop \/ ActivityDeleted \/ OrderWrite \/ UNCHANGED vars
             \/ Listen \/ ApiRestart \/ \E w \in publishing : WriteActivity(w)
             \/ \E a \in Activities : AdminPublish(a) \/ Clock(a)
      PROVE  CallsOK'
  <2>1. UNCHANGED queueVars
    BY <1>6 DEF WorkerCrash, WorkerStop, ActivityDeleted, OrderWrite, vars, Listen,
       ApiRestart, AdminPublish, WriteActivity, Clock
  <2>2. UNCHANGED <<callVars, status, ticket, Purchases>>
    BY <1>6, OthersMove DEF StartUp
  <2> QED
    BY <2>1, <2>2, CallsFrame DEF callVars, queueVars, Unmoved, Bought, InQueue, Positions
<1> QED
  BY <1>1, <1>2, <1>3, <1>4, <1>5, <1>6, TrackedNext DEF StartUp, ApiEvent

-----------------------------------------------------------------------------
(* Messages *)

\* What MessagesOK reads stays for the messages that stay.
LEMMA MessagesFrame ==
  ASSUME MessagesOK, UNCHANGED queue,
         \A i \in Positions :
           /\ ticket'[queue[i].request] = ticket[queue[i].request]
           /\ i > 1 => Unmoved(queue[i].request)
           /\ wpc' = "idle" /\ ~MayCrash => wpc = "idle" /\ Unmoved(queue[i].request)
           /\ MayCrash /\ status[queue[i].request] # "FAILED" =>
                status'[queue[i].request] # "FAILED"
  PROVE  MessagesOK'
<1>1. Positions' = Positions
  BY DEF Positions
<1>2. \A i \in Positions : TicketIs(queue[i])'
  BY DEF MessagesOK, TicketIs
<1>3. \A i \in Positions :
        i > 1 \/ (wpc' = "idle" /\ ~MayCrash) => Untouched(queue[i].request)'
  <2> SUFFICES ASSUME NEW i \in Positions, i > 1 \/ (wpc' = "idle" /\ ~MayCrash)
               PROVE  Untouched(queue[i].request)'
    OBVIOUS
  <2>1. Untouched(queue[i].request) /\ Unmoved(queue[i].request)
    BY DEF MessagesOK
  <2> QED
    BY <2>1 DEF Untouched, Unmoved
<1>4. MayCrash => \A i \in Positions : status'[queue[i].request] # "FAILED"
  BY DEF MessagesOK
<1> QED
  BY <1>1, <1>2, <1>3, <1>4 DEF MessagesOK, MayCrash

\* A message is published while nobody has touched its request.
LEMMA PublishedMessage ==
  ASSUME TypeOK, MessagesOK, NEW m \in OrderEvent, queue' = Append(queue, m),
         UNCHANGED <<status, ticket, Purchases, wpc>>,
         TicketIs(m), Untouched(m.request), ~InQueue(m.request)
  PROVE  MessagesOK'
<1> DEFINE n == Len(queue) + 1
<1>1. /\ Positions' = Positions \cup {n} /\ n \notin Positions /\ queue'[n] = m
      /\ \A i \in Positions : queue'[i] = queue[i]
  BY Appended, FlowAssumption
<1>2. \A i \in Positions : queue[i].request # m.request
  BY DEF InQueue
<1> HIDE DEF n
<1>8. \A i : i \in Positions' <=> i \in Positions \/ i = n
  BY <1>1
<1>3. ASSUME NEW i \in Positions' PROVE TicketIs(queue[i])'
  <2>1. CASE i \in Positions
    BY <1>1, <2>1 DEF MessagesOK, TicketIs
  <2>2. CASE i = n
    BY <1>1, <2>2 DEF TicketIs
  <2> QED
    BY <1>8, <2>1, <2>2
<1>4. ASSUME NEW i \in Positions', NEW j \in Positions', queue'[i].request = queue'[j].request
      PROVE  i = j
  <2>1. CASE i \in Positions /\ j \in Positions
    BY <1>1, <1>4, <2>1 DEF MessagesOK
  <2>2. CASE i = n \/ j = n
    BY <1>1, <1>2, <1>4, <1>8, <2>2
  <2> QED
    BY <1>8, <2>1, <2>2
<1>5. \A r : Untouched(r)' <=> Untouched(r)
  BY DEF Untouched, Bought
<1>6. \A i \in Positions' :
        i > 1 \/ (wpc' = "idle" /\ ~MayCrash) => Untouched(queue[i].request)'
  BY <1>1, <1>5 DEF MessagesOK
<1>7. MayCrash => \A i \in Positions' : status'[queue'[i].request] # "FAILED"
  BY <1>1 DEF MessagesOK, Untouched
<1> QED
  BY <1>3, <1>4, <1>6, <1>7 DEF MessagesOK, MayCrash

\* The message after the one that was settled had not been delivered.
LEMMA SettledMessage ==
  ASSUME TypeOK, MessagesOK, queue # <<>>, Settle,
         UNCHANGED <<status, ticket, Purchases>>
  PROVE  MessagesOK'
<1>1. \A i \in Positions' : /\ i \in Nat /\ i >= 1 /\ i + 1 \in Positions
                            /\ queue'[i] = queue[i + 1]
  BY Settled
<1>2. \A i \in Positions' : TicketIs(queue[i])'
  BY <1>1 DEF MessagesOK, TicketIs
<1>3. \A i, j \in Positions' : queue'[i].request = queue'[j].request => i = j
  <2> SUFFICES ASSUME NEW i \in Positions', NEW j \in Positions',
                      queue'[i].request = queue'[j].request
               PROVE  i = j
    OBVIOUS
  <2>1. i + 1 = j + 1
    BY <1>1 DEF MessagesOK
  <2> QED
    BY <1>1, <2>1
<1>4. \A i \in Positions' : Untouched(queue[i].request)'
  <2> SUFFICES ASSUME NEW i \in Positions' PROVE Untouched(queue[i].request)'
    OBVIOUS
  <2>1. i + 1 > 1
    BY <1>1
  <2>2. Untouched(queue[i + 1].request)
    BY <1>1, <2>1 DEF MessagesOK
  <2> QED
    BY <1>1, <2>2 DEF Untouched, Bought
<1>5. MayCrash => \A i \in Positions' : status'[queue'[i].request] # "FAILED"
  BY <1>4 DEF Untouched
<1> QED
  BY <1>2, <1>3, <1>4, <1>5 DEF MessagesOK, MayCrash

LEMMA MessagesStep ==
  ASSUME Tracked, TypeOK, ReservationInv, [Next]_vars
  PROVE  MessagesOK'
<1>0. /\ MessagesOK /\ CallsOK
      /\ \A i \in Positions : /\ queue[i] \in OrderEvent /\ queue[i].request \in Requests
                              /\ status[queue[i].request] # "NONE"
      /\ ticket \in [Requests -> Ticket \cup {NoTicket}]
      /\ status \in [Requests -> RequestStatus]
  <2>1. \A i \in Positions : queue[i] \in OrderEvent
    BY DEF TypeOK, QueueTypeOK, Positions
  <2> QED
    BY <2>1, TicketKnown DEF ReservationInv, MessagesOK, TypeOK, RedisTypeOK
<1>1. ASSUME UNCHANGED <<queue, wpc, ticket, status, Purchases>>
      PROVE  MessagesOK'
  BY <1>0, <1>1, MessagesFrame DEF Unmoved, Bought
<1>2. ASSUME NEW c \in Calls, NEW e \in OrderEvent, Admit(c, e)
      PROVE  MessagesOK'
  <2>1. UNCHANGED <<queue, wpc, Purchases>>
    BY <1>2 DEF Admit, queueVars, workerVars, orderVars, Purchases
  <2>2. CASE UNCHANGED redisVars
    BY <1>1, <2>1, <2>2 DEF redisVars
  <2>3. CASE Reserve(e)
    <3>1. \A i \in Positions : queue[i].request # e.request
      BY <1>0, <2>3 DEF Reserve, Admissible, Known
    <3>2. \A i \in Positions : /\ ticket'[queue[i].request] = ticket[queue[i].request]
                               /\ status'[queue[i].request] = status[queue[i].request]
      BY <1>0, <2>3, <3>1 DEF Reserve
    <3> QED
      BY <1>0, <2>1, <3>2, MessagesFrame DEF Unmoved, Bought
  <2> QED
    BY <1>2, <2>2, <2>3 DEF Admit
<1>3. ASSUME NEW c \in Calls, Publish(c)
      PROVE  MessagesOK'
  <2>1. UNCHANGED <<wpc, ticket, status, Purchases>> /\ pc[c] = "publish"
    BY <1>3 DEF Publish, workerVars, redisVars, orderVars, Purchases
  <2>2. CASE UNCHANGED queue
    BY <1>1, <2>1, <2>2
  <2>3. CASE queue' = Append(queue, ev[c])
    <3>1. /\ ev[c] \in OrderEvent /\ TicketIs(ev[c]) /\ Untouched(ev[c].request)
          /\ ~InQueue(ev[c].request)
      BY <1>0, <2>1 DEF CallsOK, Unsent, InFlight, TypeOK, ControlOK
    <3> QED
      BY <1>0, <2>1, <2>3, <3>1, PublishedMessage
  <2> QED
    BY <1>3, <2>2, <2>3 DEF Publish, Send, SendRefused, queueVars
<1>4. ASSUME NEW c \in Calls, Confirm(c)
      PROVE  MessagesOK'
  BY <1>1, <1>4 DEF Confirm, ReadConfirm, ReadClosed, GiveUp, redisVars, orderVars,
     workerVars, Purchases
<1>5. ASSUME NEW c \in Calls, CompensateCall(c) \/ MarkCallFailed(c)
      PROVE  MessagesOK'
  <2>1. UNCHANGED <<queue, wpc, ticket, Purchases>>
    BY <1>5, Excluded DEF CompensateCall, MarkCallFailed, Compensate, Release, Mark, queueVars,
       workerVars, redisVars, orderVars, Purchases
  <2>2. ~InQueue(ev[c].request)
    BY <1>0, <1>5 DEF CompensateCall, MarkCallFailed, CallsOK, Unsent
  <2>3. \A r \in Requests : r # ev[c].request => status'[r] = status[r]
    BY <1>0, <1>5, Excluded DEF CompensateCall, MarkCallFailed, Compensate, Release, Mark,
       redisVars
  <2>4. \A i \in Positions : status'[queue[i].request] = status[queue[i].request]
    BY <1>0, <2>2, <2>3 DEF InQueue
  <2> QED
    BY <1>0, <2>1, <2>4, MessagesFrame DEF Unmoved, Bought
<1>6. CASE Worker
  <2>1. UNCHANGED ticket
    BY <1>6, WorkerMoves
  <2>2. CASE SettleDelivery \/ RejectMalformed
    <3>1. /\ queue # <<>> /\ Settle /\ UNCHANGED <<status, Purchases>>
      BY <2>2 DEF SettleDelivery, RejectMalformed, TypeOK, ControlOK, redisVars, orderVars,
         Purchases
    <3> QED
      BY <1>0, <2>1, <3>1, SettledMessage
  <2>3. CASE WorkerExit
    BY <1>1, <2>3 DEF WorkerExit, queueVars, redisVars, orderVars, Purchases
  <2>4. CASE \/ MarkProcessing \/ Lookup \/ FindActivity \/ Create \/ Relookup
             \/ MarkSucceeded \/ CompensateDelivery \/ MarkFailed
    <3>1. UNCHANGED queue /\ queue # <<>> /\ Delivery # Malformed
      BY <2>4 DEF MarkProcessing, Lookup, FindActivity, Create, Relookup, MarkSucceeded,
         CompensateDelivery, MarkFailed, WorkerRedis, queueVars, TypeOK, ControlOK
    <3>2. wpc' # "idle"
      BY <2>4 DEF MarkProcessing, Lookup, FindActivity, Create, Relookup, MarkSucceeded,
         CompensateDelivery, MarkFailed, WorkerRedis
    <3>3. \A r \in Requests : r # Delivery.request => Unmoved(r)
      BY <1>6, WorkerMoves DEF Unmoved, Bought
    <3>4. Delivery = queue[1] /\ 1 \in Positions
      BY <3>1, FirstMessage
    <3>5. \A i \in Positions : i > 1 => Unmoved(queue[i].request)
      <4>1. \A i \in Positions : i > 1 => queue[i].request # Delivery.request
        BY <1>0, <3>4 DEF MessagesOK
      <4> QED
        BY <1>0, <3>3, <4>1
    <3>6. ASSUME MayCrash, NEW r \in Requests, status[r] # "FAILED"
          PROVE  status'[r] # "FAILED"
      <4>1. CASE Lookup \/ FindActivity \/ Create \/ Relookup
        BY <3>6, <4>1 DEF Lookup, FindActivity, Create, Relookup, redisVars
      <4>2. CASE CompensateDelivery \/ MarkFailed
        <5>1. stopping
          BY <3>6, <4>2 DEF CompensateDelivery, MarkFailed, ReservationInv, WorkerOK
        <5> QED
          BY <3>6, <4>2, <5>1 DEF CompensateDelivery, MarkFailed, WorkerRedis, redisVars
      <4>3. CASE MarkProcessing \/ MarkSucceeded
        <5>1. UNCHANGED status \/ \E s \in {"PROCESSING", "SUCCEEDED"} :
                                    status' = [status EXCEPT ![Delivery.request] = s]
          BY <4>3 DEF MarkProcessing, MarkSucceeded, WorkerRedis, Mark, redisVars
        <5> QED
          BY <1>0, <3>6, <5>1
      <4> QED
        BY <2>4, <4>1, <4>2, <4>3
    <3> QED
      BY <1>0, <2>1, <3>1, <3>2, <3>5, <3>6, MessagesFrame
  <2> QED
    BY <1>6, <2>2, <2>3, <2>4 DEF Worker
<1>7. CASE ApiStart \/ ApiCrash
  BY <1>1, <1>7 DEF ApiStart, Reconnect, ApiCrash, queueVars, workerVars, redisVars, orderVars,
     Purchases
<1>8. CASE Intrusion
  <2>1. /\ queue' = Append(queue, Malformed)
        /\ UNCHANGED <<wpc, ticket, status, Purchases>>
    BY <1>8, OthersMove DEF Intrusion, Inject, workerVars
  <2>2. Positions' = Positions /\ \A i \in Positions : queue'[i] = queue[i]
    BY <2>1, Appended
  <2>3. \A r : Untouched(r)' <=> Untouched(r)
    BY <2>1 DEF Untouched, Bought
  <2>4. \A i \in Positions : TicketIs(queue[i])'
    BY <1>0, <2>1, <2>2 DEF MessagesOK, TicketIs
  <2>5. \A i \in Positions :
          i > 1 \/ (wpc' = "idle" /\ ~MayCrash) => Untouched(queue[i].request)'
    BY <1>0, <2>1, <2>2, <2>3 DEF MessagesOK
  <2>6. \A i, j \in Positions : queue'[i].request = queue'[j].request => i = j
    BY <1>0, <2>2 DEF MessagesOK
  <2>7. MayCrash => \A i \in Positions : status'[queue'[i].request] # "FAILED"
    BY <1>0, <2>1, <2>2 DEF MessagesOK
  <2> QED
    BY <2>2, <2>4, <2>5, <2>6, <2>7 DEF MessagesOK, MayCrash
<1>9. CASE WorkerCrash /\ MayCrash
  <2>1. UNCHANGED <<queue, ticket, status, Purchases>>
    BY <1>9, OthersMove DEF WorkerCrash, queueVars
  <2> QED
    BY <1>0, <1>9, <2>1, MessagesFrame DEF Unmoved, Bought
<1>10. ASSUME \/ WorkerStop \/ ActivityDeleted \/ OrderWrite \/ UNCHANGED vars
              \/ Listen \/ ApiRestart \/ \E w \in publishing : WriteActivity(w)
              \/ \E a \in Activities : AdminPublish(a) \/ Clock(a)
       PROVE  MessagesOK'
  <2>1. UNCHANGED <<queue, wpc>>
    BY <1>10 DEF WorkerStop, ActivityDeleted, OrderWrite, vars, Listen, ApiRestart,
       AdminPublish, WriteActivity, Clock, queueVars, workerVars
  <2>2. UNCHANGED <<status, ticket, Purchases>>
    BY <1>10, OthersMove DEF StartUp
  <2> QED
    BY <1>1, <2>1, <2>2
<1> QED
  BY <1>2, <1>3, <1>4, <1>5, <1>6, <1>7, <1>8, <1>9, <1>10, TrackedNext
     DEF Handle, StartUp, ApiEvent

-----------------------------------------------------------------------------
(* The worker *)

\* Where the worker may crash, the transaction of an open claim cannot fail: the
\* unit is there, and the buyer has no other order of the activity.
LEMMA CreateSucceeds ==
  ASSUME Tracked, TypeOK, ReservationInv, MayCrash, wpc = "create"
  PROVE  ~SeckillOrderFails(DeliveredOrder)
<1> DEFINE d == Delivery
<1>1. /\ d \in OrderEvent /\ d.request \in Requests /\ d.user \in Users /\ d.activity \in Activities
      /\ queue # <<>> /\ Delivery # Malformed
  BY DeliveryType DEF TypeOK, ControlOK
<1>2. /\ DeliveredOrder.request = d.request /\ DeliveredOrder.user = d.user
      /\ DeliveredOrder.activity = d.activity /\ DeliveredOrder.product = ProductOf[d.activity]
      /\ DeliveredOrder.quantity = 1
  BY DEF DeliveredOrder, SeckillOrder
<1>3. TicketIs(d) /\ status[d.request] = "PROCESSING" /\ ~Bought(d.request)
  BY <1>1, FirstMessage DEF ReservationInv, WorkerOK, MessagesOK
<1>4. /\ rows = Products \cup Activities /\ ~Ordinary
      /\ ticket[d.request] # NoTicket /\ d.activity \in published
      /\ TicketsOK /\ PurchasesOK /\ IsFiniteSet(Open)
  BY <1>1, <1>3, TicketKnown DEF ReservationInv, PlentyOK, BalanceOK
<1>5. d \in Open
  BY <1>1, <1>3, <1>4, Ledger DEF LedgerIsPerRequest
<1>6. available[d.activity] > 0 /\ available[d.activity] \in Nat
  <2>1. d \in OpenOf(d.activity)
    BY <1>5 DEF OpenOf
  <2>2. d.activity \in published \cap rows /\ ReservationsBacked
    BY <1>1, <1>4, Excluded DEF ReservationInv, BalanceOK, Tracked
  <2>3. /\ redisStock[d.activity] + Cardinality(OpenOf(d.activity)) - available[d.activity] = 0
        /\ redisStock[d.activity] \in Nat /\ available[d.activity] \in Nat
    BY <1>1, <2>2 DEF ReservationsBacked, Gap, TypeOK, RedisTypeOK, OrdersTypeOK
  <2>4. Cardinality(OpenOf(d.activity)) \in Nat /\ Cardinality(OpenOf(d.activity)) # 0
    BY <1>4, <2>1, OpenFinite, FS_EmptySet
  <2> QED
    BY <2>3, <2>4
<1>7. stock[ProductOf[d.activity]] >= 1
  <2> DEFINE p == ProductOf[d.activity]
             U == UnitsOf(p, available)
  <2>1. p \in Products /\ stock[p] \in Nat
    BY <1>1, StoreAssumption DEF TypeOK, OrdersTypeOK
  <2>2. IsFiniteSet(U) /\ Cardinality(U) <= stock[p]
    BY <2>1 DEF ReservationInv, PlentyOK
  <2>3. <<d.activity, 1>> \in U
    BY <1>1, <1>6 DEF UnitsOf
  <2> HIDE DEF U, p
  <2>4. Cardinality(U) \in Nat /\ Cardinality(U) # 0
    BY <2>2, <2>3, FS_CardinalityType, FS_EmptySet
  <2> QED
    BY <2>1, <2>2, <2>4 DEF p
<1>8. SeckillAffordable(DeliveredOrder)
  <2>1. ProductOf[d.activity] \in rows /\ d.activity \in rows
    BY <1>1, <1>4, StoreAssumption
  <2> QED
    BY <1>2, <1>6, <1>7, <2>1 DEF SeckillAffordable
<1>9. ~Duplicate(DeliveredOrder)
  <2>1. \A o \in orders : /\ PurchaseOf(o) \in Purchases /\ o.request # d.request
                          /\ PurchaseOf(o).request = o.request
                          /\ PurchaseOf(o).user = o.user
                          /\ PurchaseOf(o).activity = o.activity
    BY <1>3, <1>4, OrderBought DEF Ordinary
  <2>2. ASSUME NEW o \in orders, o.user = d.user, o.activity = d.activity PROVE FALSE
    <3>1. /\ o.request \in Requests
          /\ ticket[o.request] = [user |-> o.user, activity |-> o.activity]
          /\ status[o.request] # "FAILED"
      BY <1>4, <2>1, PurchaseTypes DEF PurchasesOK
    <3>2. ticket[o.request] = ticket[d.request]
      BY <1>3, <2>2, <3>1 DEF TicketIs
    <3>3. o.request = d.request
      BY <1>1, <1>3, <1>4, <3>1, <3>2 DEF TicketsOK
    <3> QED
      BY <2>1, <3>3
  <2> QED
    BY <1>2, <2>1, <2>2 DEF Duplicate, OrderedBy, BoughtBy
<1> QED
  BY <1>8, <1>9 DEF SeckillOrderFails

\* While the worker has a delivery at hand, nobody else moves its request.
LEMMA DeliveryUnmoved ==
  ASSUME Tracked, TypeOK, ReservationInv, [Next]_vars, ~Worker, wpc # "idle"
  PROVE  /\ Delivery' = Delivery /\ Unmoved(Delivery.request)
         /\ (wpc' = wpc /\ (stopping => stopping')) \/ wpc' = "idle"
<1>0. /\ queue # <<>> /\ Delivery # Malformed /\ InQueue(Delivery.request)
      /\ Delivery.request \in Requests /\ status[Delivery.request] # "NONE"
      /\ status \in [Requests -> RequestStatus] /\ CallsOK
  BY DeliveryType, FirstMessage, TicketKnown
     DEF ReservationInv, MessagesOK, TypeOK, ControlOK, RedisTypeOK
<1>1. Delivery' = Delivery
  BY <1>0, QueueStep DEF HeadKept, Delivery, Worker
<1>2. ASSUME NEW c \in Calls, NEW e \in OrderEvent, Admit(c, e)
      PROVE  Unmoved(Delivery.request) /\ UNCHANGED workerVars
  <2>1. UNCHANGED Purchases /\ UNCHANGED workerVars
    BY <1>2 DEF Admit, orderVars, Purchases
  <2>2. status'[Delivery.request] = status[Delivery.request]
    BY <1>0, <1>2 DEF Admit, Reserve, Admissible, Known, redisVars
  <2> QED
    BY <1>1, <2>1, <2>2 DEF Unmoved, Bought
<1>3. ASSUME NEW c \in Calls, Handle(c)
      PROVE  Unmoved(Delivery.request) /\ UNCHANGED workerVars
  <2>1. UNCHANGED Purchases /\ UNCHANGED workerVars
    BY <1>3 DEF Handle, Publish, Confirm, CompensateCall, MarkCallFailed, orderVars, Purchases
  <2>2. status'[Delivery.request] = status[Delivery.request]
    <3>1. CASE Publish(c) \/ Confirm(c)
      BY <3>1 DEF Publish, Confirm, redisVars
    <3>2. CASE CompensateCall(c) \/ MarkCallFailed(c)
      <4>1. ev[c].request # Delivery.request
        BY <1>0, <3>2 DEF CompensateCall, MarkCallFailed, CallsOK, Unsent
      <4> QED
        BY <1>0, <3>2, <4>1 DEF CompensateCall, MarkCallFailed, Compensate, Release, Mark,
           redisVars
    <3> QED
      BY <1>3, <3>1, <3>2 DEF Handle
  <2> QED
    BY <1>1, <2>1, <2>2 DEF Unmoved, Bought
<1>4. ASSUME \/ WorkerCrash \/ WorkerStop \/ ActivityDeleted \/ OrderWrite \/ UNCHANGED vars
             \/ StartUp \/ ApiRestart \/ Intrusion
             \/ \E a \in Activities : AdminPublish(a) \/ Clock(a)
      PROVE  /\ Unmoved(Delivery.request)
             /\ (wpc' = wpc /\ (stopping => stopping')) \/ wpc' = "idle"
  <2>1. Unmoved(Delivery.request)
    BY <1>1, <1>4, OthersMove DEF Unmoved, Bought
  <2> QED
    BY <1>4, <2>1 DEF WorkerCrash, WorkerStop, ActivityDeleted, OrderWrite, vars, StartUp,
       ApiStart, Listen, WriteActivity, ApiRestart, AdminPublish, Intrusion, Clock, workerVars
<1>5. CASE ApiCrash
  BY <1>1, <1>5 DEF ApiCrash, Unmoved, Bought, Purchases, orderVars, redisVars, workerVars
<1> QED
  BY <1>1, <1>2, <1>3, <1>4, <1>5, TrackedNext DEF workerVars, ApiEvent

LEMMA WorkerStep ==
  ASSUME Tracked, TypeOK, ReservationInv, [Next]_vars
  PROVE  WorkerOK'
<1> USE Excluded
<1>0. WorkerOK /\ status \in [Requests -> RequestStatus]
  BY DEF ReservationInv, TypeOK, RedisTypeOK
<1>1. ASSUME wpc # "idle"
      PROVE  /\ queue # <<>> /\ Delivery # Malformed
             /\ Delivery.request \in Requests /\ Delivery.activity \in Activities
  BY <1>1, DeliveryType DEF TypeOK, ControlOK
<1>2. CASE wpc' \notin {"lookup", "find_activity", "create", "relookup", "mark_succeeded",
                     "compensate", "mark_failed"}
  BY <1>2 DEF WorkerOK
<1>3. CASE ~Worker /\ wpc' # "idle"
  <2>1. wpc # "idle"
    BY <1>3, TrackedNext DEF Admit, Handle, Publish, Confirm, CompensateCall, MarkCallFailed,
       StartUp, ApiStart, Listen, WriteActivity, WorkerCrash, WorkerStop, Intrusion, Clock,
       ActivityDeleted, OrderWrite, ApiEvent, ApiCrash, ApiRestart, AdminPublish, vars,
       workerVars
  <2>2. Delivery' = Delivery /\ Unmoved(Delivery.request) /\ wpc' = wpc /\ (stopping => stopping')
    BY <1>3, <2>1, DeliveryUnmoved
  <2>3. status'[Delivery.request] = status[Delivery.request]
    BY <2>2 DEF Unmoved
  <2>4. Bought(Delivery.request)' <=> Bought(Delivery.request)
    BY <2>2 DEF Unmoved, Bought
  <2> QED
    BY <1>0, <2>2, <2>3, <2>4 DEF WorkerOK, MayCrash
<1>4. CASE MarkProcessing /\ wpc' = "lookup"
  <2>1. /\ wpc = "idle" /\ queue # <<>> /\ Delivery # Malformed
        /\ Mark(Delivery.request, "PROCESSING") /\ UNCHANGED <<queue, Purchases>>
    BY <1>4 DEF MarkProcessing, WorkerRedis, queueVars, orderVars, Purchases
  <2>2. status'[Delivery.request] = "PROCESSING" /\ Delivery' = Delivery
    BY <1>0, <2>1, FirstMessage DEF Mark, Delivery
  <2>3. ~MayCrash => ~Bought(Delivery.request)
    BY <2>1, FirstMessage DEF ReservationInv, MessagesOK, Untouched
  <2>4. Bought(Delivery.request)' <=> Bought(Delivery.request)
    BY <2>1, <2>2 DEF Bought
  <2> QED
    BY <1>4, <2>2, <2>3, <2>4 DEF WorkerOK, MayCrash
<1>5. ASSUME Lookup \/ FindActivity \/ Create \/ Relookup
      PROVE  /\ Delivery' = Delivery
             /\ wpc # "idle" /\ stopping' = stopping
             /\ status'[Delivery.request] = "PROCESSING"
  <2>1. /\ UNCHANGED <<status, queue, stopping>>
        /\ wpc \in {"lookup", "find_activity", "create", "relookup"}
    BY <1>5 DEF Lookup, FindActivity, Create, Relookup, redisVars, queueVars, WorkerUnchanged
  <2> QED
    BY <1>0, <2>1 DEF WorkerOK, Delivery
<1>6. CASE Lookup
  <2>1. UNCHANGED Purchases /\ wpc = "lookup"
    BY <1>6 DEF Lookup, orderVars, Purchases
  <2>2. Bought(Delivery.request)' <=> Bought(Delivery.request)
    BY <1>5, <1>6, <2>1 DEF Bought
  <2>3. Bought(Delivery.request) => OrderedBy(Delivery.request)
    BY PurchaseTypes DEF Bought, OrderedBy
  <2>4. \/ wpc' = "mark_succeeded"
        \/ wpc' = "find_activity" /\ ~Bought(Delivery.request)
        \/ wpc' = "compensate" /\ ~Bought(Delivery.request) /\ ~MayCrash
    BY <1>0, <1>6, <2>1, <2>3 DEF Lookup, WorkerOK
  <2> QED
    BY <1>5, <1>6, <2>2, <2>4 DEF WorkerOK, MayCrash
<1>7. CASE Create
  <2>1. wpc = "create" /\ ~Bought(Delivery.request)
    BY <1>0, <1>7 DEF Create, WorkerOK
  <2>2. CASE wpc' = "mark_succeeded"
    BY <1>5, <1>7, <2>2 DEF WorkerOK
  <2>3. CASE wpc' = "relookup" /\ UNCHANGED orderVars /\ ~MayCrash
    <3>1. Bought(Delivery.request)' <=> Bought(Delivery.request)
      BY <1>5, <1>7, <2>3 DEF Bought, orderVars, Purchases
    <3> QED
      BY <1>5, <1>7, <2>1, <2>3, <3>1 DEF WorkerOK, MayCrash
  <2>4. CASE /\ wpc' = "relookup" /\ CreateSeckillOrder(DeliveredOrder)
             /\ "mysql_lost" \in Disturbances
    <3>1. orders' = orders \cup {DeliveredOrder}
      BY <2>4 DEF CreateSeckillOrder
    <3>2. DeliveredOrder.request = Delivery.request /\ DeliveredOrder.activity # NoActivity
      BY <1>1, <2>1, StoreAssumption DEF DeliveredOrder, SeckillOrder
    <3>3. Bought(Delivery.request)'
      <4>1. PurchaseOf(DeliveredOrder) \in
              {PurchaseOf(o) : o \in {x \in orders' : x.activity # NoActivity}}
        BY <3>1, <3>2
      <4>2. PurchaseOf(DeliveredOrder).request = Delivery.request
        BY <3>2 DEF PurchaseOf
      <4> QED
        BY <1>5, <1>7, <4>1, <4>2 DEF Bought, Purchases, PurchaseOf
    <3> QED
      BY <1>5, <1>7, <2>4, <3>3 DEF WorkerOK, MayCrash
  <2>5. MayCrash => ~SeckillOrderFails(DeliveredOrder)
    BY <2>1, CreateSucceeds
  <2> QED
    BY <1>7, <2>2, <2>3, <2>4, <2>5 DEF Create, SeckillOrderFails
<1>8. CASE Relookup
  <2>1. UNCHANGED Purchases /\ wpc = "relookup"
    BY <1>8 DEF Relookup, orderVars, Purchases
  <2>2. Bought(Delivery.request)' <=> Bought(Delivery.request)
    BY <1>5, <1>8, <2>1 DEF Bought
  <2>3. Bought(Delivery.request) => OrderedBy(Delivery.request)
    BY PurchaseTypes DEF Bought, OrderedBy
  <2>4. \/ wpc' = "mark_succeeded"
        \/ wpc' = "compensate" /\ ~Bought(Delivery.request) /\ ~MayCrash
    BY <1>0, <1>8, <2>1, <2>3 DEF Relookup, WorkerOK, Happens
  <2> QED
    BY <1>5, <1>8, <2>2, <2>4 DEF WorkerOK, MayCrash
<1>9. CASE MarkSucceeded /\ wpc' = "compensate"
  <2>1. stopping /\ stopping' = stopping
    BY <1>9 DEF MarkSucceeded, WorkerRedis, WorkerUnchanged
  <2> QED
    BY <1>9, <2>1 DEF WorkerOK
<1>10. CASE CompensateDelivery
  <2>1. /\ wpc = "compensate" /\ wpc' = "mark_failed"
        /\ UNCHANGED <<queue, stopping>>
        /\ ~stopping => Compensate(Delivery)
    BY <1>10 DEF CompensateDelivery, WorkerRedis, WorkerUnchanged, queueVars
  <2>2. MayCrash => stopping
    BY <1>0, <2>1 DEF WorkerOK
  <2>3. ~stopping => status'[Delivery.request] = "FAILED"
    BY <1>0, <1>1, <2>1 DEF WorkerOK, Compensate, Release, Decided
  <2> QED
    BY <2>1, <2>2, <2>3 DEF WorkerOK, MayCrash, Delivery
<1>11. CASE MarkFailed \/ SettleDelivery \/ RejectMalformed \/ WorkerExit
            \/ (MarkProcessing /\ wpc' # "lookup") \/ (MarkSucceeded /\ wpc' # "compensate")
  <2>1. wpc' \in {"idle", "nack", "ack"}
    BY <1>11 DEF MarkFailed, SettleDelivery, RejectMalformed, WorkerExit, MarkProcessing,
       MarkSucceeded, WorkerRedis
  <2> QED
    BY <1>2, <2>1
<1>12. CASE FindActivity
  <2>1. UNCHANGED Purchases /\ wpc = "find_activity"
    BY <1>12 DEF FindActivity, orderVars, Purchases
  <2>2. Bought(Delivery.request)' <=> Bought(Delivery.request)
    BY <1>5, <1>12, <2>1 DEF Bought
  <2>3. MayCrash => Delivery.activity \in rows
    BY <1>1, <2>1 DEF ReservationInv, PlentyOK
  <2>4. /\ ~Bought(Delivery.request)
        /\ wpc' = "create" \/ (wpc' = "compensate" /\ ~MayCrash)
    BY <1>0, <1>12, <2>1, <2>3 DEF FindActivity, WorkerOK
  <2> QED
    BY <1>5, <1>12, <2>2, <2>4 DEF WorkerOK, MayCrash
<1> QED
  BY <1>2, <1>3, <1>4, <1>6, <1>7, <1>8, <1>9, <1>10, <1>11, <1>12 DEF Worker

-----------------------------------------------------------------------------
(* The invariant *)

LEMMA ReservationInit ==
  ASSUME Tracked, Init
  PROVE  ReservationInv
<1>1. /\ queue = <<>> /\ confirms = <<>> /\ mu = NoCall /\ connected
      /\ \A c \in Calls : pc[c] = "idle"
      /\ api = "down" /\ publishing = {} /\ wpc = "idle"
      /\ orders = {} /\ available = TotalStock /\ stock = ProductStock
      /\ rows = Products \cup Activities /\ published = {}
      /\ \A r \in Requests : ticket[r] = NoTicket /\ status[r] = "NONE"
  BY DEF Init, OrdersInit, RedisInit, ColdRedis, QueueInit
<1>2. Purchases = {} /\ Positions = {}
  BY <1>1 DEF Purchases, Positions
<1>3. TicketsOK /\ PurchasesOK
  BY <1>1, <1>2 DEF TicketsOK, PurchasesOK
<1>4. PublisherOK /\ StartOK
  BY <1>1 DEF PublisherOK, StartOK, InFlight
<1>5. CallsOK /\ MessagesOK /\ WorkerOK
  BY <1>1, <1>2 DEF CallsOK, MessagesOK, WorkerOK, InFlight, Unsent
<1>6. PlentyOK
  BY <1>1 DEF PlentyOK, Tracked, Plentiful, Ordinary
<1>7. BalanceOK
  <2>1. Admitted = {}
    BY <1>1 DEF Admitted, Issued
  <2>2. Open = {}
    BY <2>1 DEF Open
  <2> QED
    BY <1>1, <2>2, FS_EmptySet DEF BalanceOK, ReservationsBacked
<1> QED
  BY <1>3, <1>4, <1>5, <1>6, <1>7 DEF ReservationInv

LEMMA ReservationStep ==
  ASSUME Tracked, FlowInv, ReservationInv, [Next]_vars
  PROVE  ReservationInv'
<1>1. TypeOK /\ TypeOK'
  BY FlowStep DEF FlowInv
<1>2. PublisherOK' /\ StartOK'
  BY <1>1, PublisherStep, StartStep
<1>3. TicketsOK' /\ PurchasesOK'
  BY <1>1, TicketsStep, PurchasesStep
<1>4. CallsOK' /\ MessagesOK' /\ WorkerOK'
  BY <1>1, CallsStep, MessagesStep, WorkerStep
<1>5. PlentyOK' /\ BalanceOK'
  BY <1>1, PlentyStep, BalanceStep
<1> QED
  BY <1>2, <1>3, <1>4, <1>5 DEF ReservationInv

\* The invariant holds from the start, and every step of what is tracked keeps it.
LEMMA ReservationInvariant ==
  ASSUME Tracked
  PROVE  Spec => [](FlowInv /\ ReservationInv)
<1>1. Init => ReservationInv
  BY ReservationInit
<1>2. FlowInv /\ ReservationInv /\ [Next]_vars => ReservationInv'
  BY ReservationStep
<1> QED
  BY <1>1, <1>2, FlowInvariant, PTL DEF Spec

\* Under what the design absorbs, for any number of buyers, calls, activities and
\* redeliveries: the stock left in Redis and the open admissions of an activity
\* are exactly the stock it has in MySQL.
THEOREM ReservationsInvariant ==
  ASSUME Absorbed
  PROVE  Spec => []ReservationsBacked
<1>1. ReservationInv => ReservationsBacked
  BY DEF ReservationInv, BalanceOK, Absorbed
<1>2. Tracked
  BY DEF Absorbed
<1> QED
  BY <1>1, <1>2, ReservationInvariant, PTL

\* When the stocks may part (a restarted API, a second publication, handlers that
\* died with their claims, a cancellation), they part only at the publication or
\* the cancellation itself, and by exactly as much as ImbalanceNeedsCause says:
\* no admission, compensation, order or redelivery moves the balance afterwards,
\* however wrong the stock in Redis has become.  (A failed request is not taken up
\* again under this hypothesis; the fourth cause is for the runs.)
THEOREM ImbalancesExplained ==
  ASSUME Tracked
  PROVE  Spec => ImbalanceNeedsCause
<1>1. ASSUME FlowInv, ReservationInv, [Next]_vars, NEW a \in published' \cap rows'
      PROVE  \/ a \in published /\ Gap(a)' = Gap(a)
             \/ \E w \in publishing \ publishing' :
                  /\ w.activity = a
                  /\ Gap(a)' = (w.stock - available[a]) + Cardinality(OpenOf(a))
             \/ a \in published /\ Cancelled(a) /\ Gap(a)' = Gap(a) - 1
             \/ a \in published /\ Reopened(a) /\ Gap(a)' = Gap(a) + 1
  <2>1. TypeOK'
    BY <1>1, FlowStep DEF FlowInv
  <2> QED
    BY <1>1, <2>1, GapStep DEF Kept, Rewritten
<1>2. FlowInv /\ ReservationInv /\ [Next]_vars =>
        [\A a \in published' \cap rows' :
           \/ a \in published /\ Gap(a)' = Gap(a)
           \/ \E w \in publishing \ publishing' :
                /\ w.activity = a
                /\ Gap(a)' = (w.stock - available[a]) + Cardinality(OpenOf(a))
           \/ a \in published /\ Cancelled(a) /\ Gap(a)' = Gap(a) - 1
           \/ a \in published /\ Reopened(a) /\ Gap(a)' = Gap(a) + 1]_vars
  BY <1>1
<1> QED
  BY <1>2, ReservationInvariant, PTL DEF Spec, ImbalanceNeedsCause

\* Nobody compensates or fails a request that has its order, and the buyer of an
\* order stays in the buyers set, also while the API dies and starts again.
THEOREM OrdersKeepReservations ==
  ASSUME Tracked
  PROVE  Spec => []OrderKeepsReservation
<1>1. ASSUME FlowInv, ReservationInv
      PROVE  OrderKeepsReservation
  <2> SUFFICES ASSUME NEW o \in orders, o.activity # NoActivity
               PROVE  o.user \in buyers[o.activity] /\ status[o.request] # "FAILED"
    BY DEF OrderKeepsReservation
  <2>1. /\ PurchaseOf(o) \in Purchases /\ Bought(o.request)
        /\ PurchaseOf(o).request = o.request /\ PurchaseOf(o).user = o.user
        /\ PurchaseOf(o).activity = o.activity
    BY OrderBought
  <2>2. /\ o.request \in Requests /\ ticket[o.request] # NoTicket
        /\ ticket[o.request] = [user |-> o.user, activity |-> o.activity]
        /\ status[o.request] # "FAILED"
    BY <1>1, <2>1, BoughtKnown DEF ReservationInv, FlowInv, PurchasesOK
  <2> QED
    BY <1>1, <2>2 DEF ReservationInv, TicketsOK
<1> QED
  BY <1>1, ReservationInvariant, PTL

-----------------------------------------------------------------------------
(* Who decides a request that is not decided *)

\* Nobody is left with a claim and no holder: no reply of the admission script is
\* lost, handlers do not die, and the worker's context is not cancelled.
Attended ==
  /\ Tracked
  /\ Disturbances \cap {"admission_lost", "api_crash", "worker_stop"} = {}

HasHolder(e) ==
  \/ \E c \in Calls : Unsent(c) /\ ev[c] = e
  \/ \E i \in DOMAIN queue : queue[i] = e

HoldersOK ==
  /\ ~stopping
  /\ wpc \in {"ack", "nack"} => status[Delivery.request] \in Decided
  /\ \A e \in Undecided : HasHolder(e)

LEMMA NobodyLeaves ==
  ASSUME Attended
  PROVE  /\ Tracked
         /\ ~Happens("admission_lost") /\ ~Happens("api_crash") /\ ~Happens("worker_stop")
BY DEF Attended, Happens

\* An open claim is an admitted event, and it was open before the step or is new.
LEMMA OpenBefore ==
  ASSUME Tracked, TypeOK, ReservationInv, [Next]_vars, TypeOK', NEW e \in Open'
  PROVE  /\ e \in OrderEvent /\ e.request \in Requests
         /\ TicketIs(e)'
         /\ e \in Open \/ Claims(e)
<1>1. /\ TicketsOK /\ PurchasesOK /\ TicketsOK' /\ PurchasesOK'
  BY TicketsStep, PurchasesStep DEF ReservationInv
<1>2. LedgerIsPerRequest'
  BY <1>1, Ledger, PTL
<1>3. e \in OrderEvent /\ TicketIs(e)'
  BY <1>2 DEF LedgerIsPerRequest
<1>4. e \in Open \/ Claims(e)
  <2>1. Quiet => Open' = Open
    BY <1>1, OpenStep
  <2>2. \A f \in OrderEvent : Claims(f) => Open' = Open \cup {f}
    BY <1>1, OpenStep
  <2>3. \A f \in OrderEvent : Wins(f) \/ Loses(f) => Open' = Open \ {f}
    BY <1>1, OpenStep
  <2> QED
    BY <2>1, <2>2, <2>3, QuietStep
<1> QED
  BY <1>3, <1>4 DEF OrderEvent

LEMMA OpenTicket ==
  ASSUME TypeOK, ReservationInv, NEW e \in Open
  PROVE  /\ e \in OrderEvent /\ e.request \in Requests /\ TicketIs(e)
         /\ status[e.request] # "NONE"
         /\ \A f \in OrderEvent : TicketIs(f) /\ f.request = e.request => f = e
<1>1. e \in OrderEvent /\ TicketIs(e)
  BY Ledger DEF ReservationInv, LedgerIsPerRequest
<1> QED
  BY <1>1, TicketKnown DEF ReservationInv

\* The worker acks or nacks what it has decided, and nothing else.
LEMMA SettledIsDecided ==
  ASSUME Attended, TypeOK, ReservationInv, HoldersOK, [Next]_vars,
         wpc' \in {"ack", "nack"}
  PROVE  status'[Delivery'.request] \in Decided
<1> USE NobodyLeaves, Excluded
<1>1. CASE ~Worker
  <2>1. wpc # "idle"
    BY <1>1, TrackedNext DEF Admit, Handle, Publish, Confirm, CompensateCall, MarkCallFailed,
       StartUp, ApiStart, Listen, WriteActivity, WorkerCrash, WorkerStop, Intrusion, Clock,
       ActivityDeleted, OrderWrite, ApiEvent, ApiCrash, ApiRestart, AdminPublish, vars,
       workerVars
  <2>2. Delivery' = Delivery /\ Unmoved(Delivery.request) /\ wpc' = wpc
    BY <1>1, <2>1, DeliveryUnmoved
  <2> QED
    BY <2>2 DEF HoldersOK, Unmoved
<1>2. CASE MarkSucceeded \/ MarkFailed
  <2>1. /\ wpc # "idle" /\ UNCHANGED queue
        /\ Mark(Delivery.request, "SUCCEEDED") \/ Mark(Delivery.request, "FAILED")
    BY <1>2 DEF MarkSucceeded, MarkFailed, WorkerRedis, HoldersOK, queueVars
  <2>2. Delivery.request \in Requests /\ Delivery' = Delivery
    BY <2>1, DeliveryType DEF TypeOK, ControlOK, Delivery
  <2> QED
    BY <2>1, <2>2 DEF Mark, TypeOK, RedisTypeOK, Decided
<1>3. CASE MarkProcessing
  BY <1>3 DEF MarkProcessing, WorkerRedis, HoldersOK
<1>4. CASE \/ Lookup \/ FindActivity \/ Create \/ Relookup \/ CompensateDelivery
           \/ SettleDelivery \/ RejectMalformed \/ WorkerExit
  BY <1>4 DEF Lookup, FindActivity, Create, Relookup, CompensateDelivery, WorkerRedis,
     SettleDelivery, RejectMalformed, WorkerExit
<1> QED
  BY <1>1, <1>2, <1>3, <1>4 DEF Worker

\* A handler passes its claim on to the queue, or loses it.
LEMMA HandlerKeepsHolder ==
  ASSUME Attended, TypeOK, ReservationInv, HoldersOK, NEW c \in Calls, Handle(c),
         NEW e \in Undecided, status'[e.request] \notin Decided
  PROVE  HasHolder(e)'
<1> USE NobodyLeaves, Excluded
<1>0. /\ pc \in [Calls -> {"idle"} \cup InFlight \cup Answered]
      /\ ev' = ev /\ pc[c] \in InFlight
      /\ \E l : pc' = [pc EXCEPT ![c] = l]
      /\ ev[c] \in OrderEvent /\ ev[c].request \in Requests
      /\ status \in [Requests -> RequestStatus]
      /\ queue \in Seq(OrderEvent \cup {Malformed})
  BY DEF Handle, Publish, Confirm, CompensateCall, MarkCallFailed, Goto, InFlight, TypeOK,
     ControlOK, RedisTypeOK, QueueTypeOK, OrderEvent
<1>1. \A d \in Calls : d # c => pc'[d] = pc[d]
  BY <1>0
<1>2. HasHolder(e)
  BY DEF HoldersOK
<1>3. CASE Publish(c)
  <2>1. pc[c] = "publish"
    BY <1>3 DEF Publish
  <2>2. CASE UNCHANGED queueVars
    <3>1. pc'[c] = "compensate"
      BY <1>0, <1>3, <2>2, HandlerServed, FlowAssumption DEF Publish, Goto, Send, queueVars
    <3>2. \A d \in Calls : Unsent(d) => Unsent(d)'
      BY <1>1, <2>2, <3>1 DEF Unsent, queueVars
    <3> QED
      BY <1>0, <1>2, <2>2, <3>2 DEF HasHolder, queueVars
  <2>3. ASSUME NEW k \in BOOLEAN, Send(c, ev[c], k)
        PROVE  HasHolder(e)'
    <3>1. /\ pc'[c] = "confirm" /\ confirms = <<>> /\ mu = NoCall
          /\ confirms' = Append(confirms, [of |-> c, ack |-> k])
          /\ queue' = IF k THEN Append(queue, ev[c]) ELSE queue
      BY <1>0, <1>3, <2>3, FlowAssumption, HandlerServed
         DEF Publish, Goto, Send, SendRefused, queueVars
    <3>2. \A d \in Calls : pc[d] # "confirm"
      BY <1>0, <3>1, FlowAssumption, HandlerServed
    <3>3. confirms' = <<[of |-> c, ack |-> k]>> /\ Head(confirms').ack = k
      BY <3>1
    <3>4. \A d \in Calls : d # c /\ Unsent(d) => Unsent(d)'
      BY <1>1, <3>2 DEF Unsent
    <3>5. CASE ~k
      <4>1. Unsent(c)'
        BY <3>1, <3>3, <3>5 DEF Unsent
      <4> QED
        BY <1>0, <1>2, <3>1, <3>4, <3>5, <4>1 DEF HasHolder
    <3>6. CASE k
      <4>1. /\ Len(queue) + 1 \in DOMAIN queue' /\ queue'[Len(queue) + 1] = ev[c]
            /\ \A i \in DOMAIN queue : i \in DOMAIN queue' /\ queue'[i] = queue[i]
        BY <1>0, <3>1, <3>6
      <4> QED
        BY <1>0, <1>2, <3>4, <4>1 DEF HasHolder
    <3> QED
      BY <3>5, <3>6
  <2> QED
    BY <1>3, <2>2, <2>3 DEF Publish, SendRefused
<1>4. CASE Confirm(c)
  <2>1. /\ UNCHANGED queue /\ pc[c] = "confirm" /\ mu = c /\ Head(confirms).ack \in BOOLEAN
        /\ pc'[c] = IF Head(confirms).ack THEN "queued" ELSE "compensate"
    <3>1. mu = c /\ \E k \in BOOLEAN : confirms = <<[of |-> mu, ack |-> k]>>
      BY <1>0, <1>4, HandlerServed, FlowAssumption DEF Confirm
    <3>2. confirms # <<>> /\ Head(confirms).ack \in BOOLEAN
      BY <3>1
    <3> QED
      BY <1>0, <1>4, <3>1, <3>2 DEF Confirm, Goto, ReadConfirm, ReadClosed
  <2>2. \A d \in Calls : d # c => pc[d] # "confirm"
    BY <1>0, <2>1, HandlerServed
  <2>3. \A d \in Calls : Unsent(d) => Unsent(d)'
    BY <1>1, <2>1, <2>2 DEF Unsent
  <2> QED
    BY <1>0, <1>2, <2>1, <2>3 DEF HasHolder
<1>5. CASE CompensateCall(c) \/ MarkCallFailed(c)
  <2>1. UNCHANGED <<queue, confirms>> /\ status'[ev[c].request] \in Decided
    BY <1>0, <1>5
       DEF CompensateCall, MarkCallFailed, Compensate, Release, Mark, Decided, queueVars, redisVars
  <2>2. \A d \in Calls : d # c /\ Unsent(d) => Unsent(d)'
    BY <1>1, <2>1 DEF Unsent
  <2> QED
    BY <1>0, <1>2, <2>1, <2>2 DEF HasHolder
<1> QED
  BY <1>3, <1>4, <1>5 DEF Handle

\* The worker takes a message away when its request is decided.
LEMMA WorkerKeepsHolder ==
  ASSUME Attended, TypeOK, ReservationInv, HoldersOK, Worker,
         NEW e \in Open, status'[e.request] \notin Decided
  PROVE  HasHolder(e)'
<1>0. /\ queue \in Seq(OrderEvent \cup {Malformed})
      /\ UNCHANGED <<pc, ev, confirms>>
  BY WorkerMoves DEF TypeOK, QueueTypeOK, callVars
<1>1. \A d \in Calls : Unsent(d) /\ ev[d] = e => Unsent(d)' /\ ev'[d] = e
  BY <1>0 DEF Unsent
<1>2. CASE ~UNCHANGED queue
  <2>1. /\ SettleDelivery \/ RejectMalformed
        /\ UNCHANGED status /\ queue # <<>> /\ queue' = Tail(queue)
    BY <1>2 DEF Worker, MarkProcessing, Lookup, FindActivity, Create, Relookup, MarkSucceeded,
       CompensateDelivery, MarkFailed, SettleDelivery, RejectMalformed, WorkerExit, WorkerRedis,
       queueVars, redisVars, Settle, TypeOK, ControlOK
  <2>2. queue[1] # e
    <3>1. Delivery = queue[1]
      BY <1>0, <2>1 DEF Delivery
    <3>2. CASE SettleDelivery
      BY <2>1, <3>1, <3>2 DEF SettleDelivery, HoldersOK
    <3>3. CASE RejectMalformed
      BY <3>1, <3>3, OpenTicket, FlowAssumption DEF RejectMalformed
    <3> QED
      BY <2>1, <3>2, <3>3
  <2>3. HasHolder(e)
    BY <2>1 DEF HoldersOK, Undecided
  <2>4. \A i \in DOMAIN queue : i # 1 => i - 1 \in DOMAIN queue' /\ queue'[i - 1] = queue[i]
    BY <1>0, <2>1
  <2> QED
    BY <1>1, <2>2, <2>3, <2>4 DEF HasHolder
<1>3. CASE UNCHANGED queue /\ status'[e.request] = status[e.request]
  BY <1>1, <1>3 DEF HoldersOK, Undecided, HasHolder
<1>4. CASE UNCHANGED queue /\ status'[e.request] # status[e.request]
  <2>1. queue # <<>> /\ Delivery # Malformed /\ Delivery.request = e.request
    BY <1>4, WorkerMoves, OpenTicket DEF Unmoved
  <2>2. Delivery = e /\ 1 \in DOMAIN queue /\ Delivery = queue[1]
    <3>1. Delivery \in OrderEvent /\ TicketIs(Delivery)
      BY <2>1, FirstMessage, DeliveryType DEF ReservationInv, MessagesOK
    <3> QED
      BY <1>0, <2>1, <3>1, OpenTicket DEF Delivery
  <2> QED
    BY <1>4, <2>2 DEF HasHolder
<1> QED
  BY <1>2, <1>3, <1>4

LEMMA HoldersStep ==
  ASSUME Attended, TypeOK, ReservationInv, HoldersOK, [Next]_vars, TypeOK'
  PROVE  HoldersOK'
<1> USE NobodyLeaves, Excluded
<1>1. ~stopping'
  <2>1. stopping' = stopping \/ stopping' = FALSE
    BY TrackedNext DEF Admit, Handle, Publish, Confirm, CompensateCall, MarkCallFailed,
       StartUp, ApiStart, Listen, WriteActivity, WorkerCrash, WorkerStop, Intrusion, Clock,
       ActivityDeleted, OrderWrite, ApiEvent, ApiCrash, ApiRestart, AdminPublish, vars,
       workerVars, Worker, MarkProcessing, Lookup, FindActivity, Create, Relookup, MarkSucceeded,
       CompensateDelivery, MarkFailed, SettleDelivery, RejectMalformed, WorkerExit, WorkerRedis,
       WorkerUnchanged
  <2> QED
    BY <2>1 DEF HoldersOK
<1>2. ASSUME NEW e \in Undecided'
      PROVE  HasHolder(e)'
  <2>1. /\ e \in Open' /\ status'[e.request] \notin Decided
        /\ e \in OrderEvent /\ e.request \in Requests
        /\ e \in Open \/ Claims(e)
    BY <1>2, OpenBefore DEF Undecided
  <2>2. ASSUME NEW c \in Calls, NEW f \in OrderEvent, Admit(c, f)
        PROVE  HasHolder(e)'
    <3>0. /\ pc \in [Calls -> {"idle"} \cup InFlight \cup Answered]
          /\ ev \in [Calls -> OrderEvent \cup {NoEvent}]
          /\ status \in [Requests -> RequestStatus]
          /\ ticket \in [Requests -> Ticket \cup {NoTicket}]
      BY DEF TypeOK, ControlOK, RedisTypeOK
    <3>1. /\ UNCHANGED <<queue, confirms>> /\ pc[c] = "idle" /\ ev' = [ev EXCEPT ![c] = f]
          /\ \E l : pc' = [pc EXCEPT ![c] = l]
      BY <2>2 DEF Admit, Goto, queueVars
    <3>2. \A d \in Calls : Unsent(d) => Unsent(d)' /\ ev'[d] = ev[d]
      BY <3>0, <3>1 DEF Unsent
    <3>3. CASE e \in Open /\ status'[e.request] = status[e.request]
      BY <2>1, <3>1, <3>2, <3>3 DEF HoldersOK, Undecided, HasHolder
    <3>4. CASE e \in Open /\ status'[e.request] # status[e.request]
      <4>1. Reserve(f) /\ f.request = e.request
        BY <2>1, <2>2, <3>0, <3>4 DEF Admit, Reserve, redisVars
      <4> QED
        BY <3>4, <4>1, OpenTicket DEF Reserve, Admissible, Known
    <3>5. CASE Claims(e)
      <4>1. /\ status'[e.request] # status[e.request]
            /\ ticket'[e.request] = [user |-> e.user, activity |-> e.activity]
        BY <2>1, <3>0, <3>5 DEF Claims, Reserve, Admissible, Known
      <4>2. Reserve(f) /\ f.request = e.request
        BY <2>1, <2>2, <3>0, <4>1 DEF Admit, Reserve, redisVars
      <4>3. ticket'[e.request] = [user |-> f.user, activity |-> f.activity]
        BY <2>1, <3>0, <4>2 DEF Reserve
      <4>4. e = f
        BY <2>1, <4>1, <4>2, <4>3 DEF OrderEvent
      <4>5. pc'[c] = "publish" /\ ev'[c] = e
        BY <2>2, <3>0, <3>1, <4>2, <4>4
           DEF Admit, Goto, Reserve, Admissible, Known, Replayed, Refused
      <4> QED
        BY <4>5 DEF HasHolder, Unsent
    <3> QED
      BY <2>1, <3>3, <3>4, <3>5
  <2>3. ASSUME NEW c \in Calls, Handle(c)
        PROVE  HasHolder(e)'
    <3>1. ~Claims(e)
      BY <2>1, <2>3 DEF Handle, Publish, Confirm, CompensateCall, MarkCallFailed, Claims, Reserve,
         Admissible, Known, Compensate, Release, Mark, redisVars, TypeOK, RedisTypeOK
    <3>2. e \in Undecided
      <4>1. ev[c].request \in Requests
        BY <2>3 DEF Handle, Publish, Confirm, CompensateCall, MarkCallFailed, InFlight, TypeOK,
           ControlOK, OrderEvent
      <4> QED
        BY <2>1, <2>3, <3>1, <4>1 DEF Undecided, Handle, Publish, Confirm, CompensateCall,
           MarkCallFailed, Compensate, Release, Mark, Decided, redisVars, TypeOK, RedisTypeOK
    <3> QED
      BY <2>1, <2>3, <3>2, HandlerKeepsHolder
  <2>4. CASE Worker
    <3>1. ~Claims(e)
      <4>1. ticket' = ticket /\ ticket \in [Requests -> Ticket \cup {NoTicket}]
        BY <2>4, WorkerMoves DEF TypeOK, RedisTypeOK
      <4>2. [user |-> e.user, activity |-> e.activity] # NoTicket
        BY <2>1, TicketAssumption DEF Ticket, OrderEvent
      <4>3. Claims(e) => ticket[e.request] = NoTicket
        BY <2>1 DEF Claims, Reserve, Admissible, Known, ReservationInv, TicketsOK
      <4> QED
        BY <2>1, <4>1, <4>2, <4>3 DEF Claims, Reserve
    <3> QED
      BY <2>1, <2>4, <3>1, WorkerKeepsHolder
  <2>5. ASSUME \/ WorkerCrash \/ WorkerStop \/ ActivityDeleted \/ OrderWrite \/ UNCHANGED vars
               \/ StartUp \/ ApiRestart \/ Intrusion
               \/ \E a \in Activities : AdminPublish(a) \/ Clock(a)
        PROVE  HasHolder(e)'
    <3>1. UNCHANGED <<pc, ev, status>>
      BY <2>5, OthersMove DEF callVars
    <3>2. ~Claims(e)
      BY <2>1, <3>1 DEF Claims, Reserve, Admissible, Known, TypeOK, RedisTypeOK
    <3>3. HasHolder(e)
      BY <2>1, <3>1, <3>2 DEF HoldersOK, Undecided
    <3>4. \A i \in DOMAIN queue : i \in DOMAIN queue' /\ queue'[i] = queue[i]
      <4>1. CASE Intrusion
        BY <4>1 DEF Intrusion, Inject, TypeOK, QueueTypeOK
      <4>2. CASE UNCHANGED queue
        BY <4>2
      <4> QED
        BY <2>5, <4>1, <4>2 DEF WorkerCrash, WorkerStop, ActivityDeleted, OrderWrite, vars, StartUp,
           ApiStart, Reconnect, Listen, WriteActivity, ApiRestart, AdminPublish, Clock, queueVars
    <3>5. \A c \in Calls : Unsent(c) => Unsent(c)'
      <4>1. CASE ApiStart
        BY <4>1 DEF ApiStart, ReservationInv, PublisherOK, Unsent, InFlight
      <4>2. CASE UNCHANGED confirms
        BY <3>1, <4>2 DEF Unsent
      <4> QED
        BY <2>5, <4>1, <4>2 DEF WorkerCrash, WorkerStop, ActivityDeleted, OrderWrite, vars, StartUp,
           Listen, WriteActivity, ApiRestart, AdminPublish, Clock, Intrusion, Inject, queueVars
    <3> QED
      BY <3>1, <3>3, <3>4, <3>5 DEF HasHolder
  <2> QED
    BY <2>2, <2>3, <2>4, <2>5, TrackedNext DEF ApiEvent, ApiCrash
<1> QED
  BY <1>1, <1>2, SettledIsDecided DEF HoldersOK

\* As long as no reply of the admission script is lost, no handler dies and the
\* worker is not told to stop, whoever is answered 202 can rely on somebody to
\* decide the request: redeliveries, restarts, failing publications and failing
\* transactions lose no claim.
THEOREM NoClaimIsOrphaned ==
  ASSUME Attended
  PROVE  Spec => []ClaimsAreHeld
<1>1. Tracked
  BY NobodyLeaves
<1>2. Init => HoldersOK
  <2>1. Init => Admitted = {}
    BY DEF Init, RedisInit, ColdRedis, Admitted, Issued
  <2> QED
    BY <2>1 DEF Init, HoldersOK, Undecided, Open
<1>3. FlowInv /\ ReservationInv /\ HoldersOK /\ [Next]_vars => HoldersOK'
  BY FlowStep, HoldersStep DEF FlowInv
<1>4. HoldersOK => ClaimsAreHeld
  BY DEF HoldersOK, ClaimsAreHeld, HasHolder, Unsent, InFlight
<1> QED
  BY <1>1, <1>2, <1>3, <1>4, ReservationInvariant, PTL DEF Spec

-----------------------------------------------------------------------------
(* The contract *)

\* The whole path (handlers, publisher, queue, worker and three stores)
\* implements the contract: its steps claim, win or lose one claim as
\* SeckillContract allows, or leave the claims alone.
THEOREM ContractKept ==
  ASSUME Absorbed
  PROVE  Spec => KeepsContract
<1>0. Tracked
  BY DEF Absorbed
<1>1. ASSUME Init
      PROVE  Contract!Init
  <2>1. published = {} /\ orders = {} /\ \A r \in Requests : ticket[r] = NoTicket
    BY <1>1 DEF Init, OrdersInit, RedisInit, ColdRedis
  <2>2. Left = TotalStock
    BY <2>1, StoreAssumption DEF Left
  <2>3. Admitted = {}
    BY <2>1 DEF Admitted, Issued
  <2> QED
    BY <2>2, <2>3 DEF Contract!Init, Left, Won, Lost, Open
<1>2. ASSUME FlowInv, ReservationInv, [Next]_vars
      PROVE  [Contract!Next]_Contract!vars
  <2>0. /\ TypeOK /\ TicketsOK /\ PurchasesOK
        /\ TypeOK' /\ TicketsOK' /\ PurchasesOK'
    BY <1>0, <1>2, FlowStep, ReservationStep DEF FlowInv, ReservationInv
  <2>1. CASE Quiet /\ UNCHANGED Left
    <3>1. UNCHANGED <<Left, Open, Won, Lost>>
      BY <2>0, <2>1, OpenStep
    <3> QED
      BY <3>1 DEF Contract!vars, Left
  <2>2. ASSUME NEW e \in OrderEvent, Claims(e)
        PROVE  Contract!Claim(e)
    <3>1. e.activity \in published /\ e.activity \in Activities /\ e.request \in Requests
      BY <2>2 DEF Claims, Reserve, Admissible, Selling, OrderEvent
    <3>2. Left[e.activity] > 0
      BY <2>2, <3>1 DEF Claims, Reserve, Admissible, Left
    <3>3. \A x \in Open \cup Won \cup Lost : x.request # e.request
      <4>1. \A x \in Open \cup Won \cup Lost : x \in OrderEvent /\ TicketIs(x)
        BY <2>0, Ledger DEF LedgerIsPerRequest
      <4>2. status[e.request] = "NONE"
        BY <2>2 DEF Claims, Reserve, Admissible, Known
      <4> QED
        BY <2>0, <4>1, <4>2, TicketKnown
    <3>4. \A x \in Open \cup Won : ~(x.user = e.user /\ x.activity = e.activity)
      <4>1. \A x \in Open \cup Won :
              x \in OrderEvent /\ TicketIs(x) /\ status[x.request] # "FAILED"
        BY <2>0, Ledger, BoughtKnown DEF LedgerIsPerRequest
      <4>2. e.user \notin buyers[e.activity]
        BY <2>2 DEF Claims, Reserve, Admissible
      <4>3. ASSUME NEW x \in Open \cup Won PROVE x.user \in buyers[x.activity]
        <5>1. /\ x.request \in Requests /\ ticket[x.request] # NoTicket
              /\ ticket[x.request].user = x.user /\ ticket[x.request].activity = x.activity
          BY <2>0, <4>1, TicketKnown
        <5> QED
          BY <2>0, <4>1, <5>1 DEF TicketsOK
      <4> QED
        BY <4>2, <4>3
    <3>5. Left' = [Left EXCEPT ![e.activity] = @ - 1]
      BY <2>0, <2>2, <3>1 DEF Claims, Reserve, Left, TypeOK, RedisTypeOK
    <3>6. Open' = Open \cup {e} /\ UNCHANGED <<Won, Lost>>
      BY <2>0, <2>2, OpenStep
    <3> QED
      BY <3>2, <3>3, <3>4, <3>5, <3>6 DEF Contract!Claim, Left
  <2>3. ASSUME NEW e \in OrderEvent, Wins(e)
        PROVE  Contract!Win(e)
    <3>1. Left' = Left
      BY <2>3 DEF Wins, redisVars, Left
    <3>2. e \in Open /\ Open' = Open \ {e} /\ Won' = Won \cup {e} /\ UNCHANGED Lost
      BY <2>0, <2>3, OpenStep
    <3> QED
      BY <3>1, <3>2 DEF Contract!Win, Left
  <2>4. ASSUME NEW e \in OrderEvent, Loses(e)
        PROVE  Contract!Lose(e)
    <3>1. e.activity \in published /\ e.activity \in Activities
      BY <2>0, <2>4, TicketKnown DEF Loses
    <3>2. Left' = [Left EXCEPT ![e.activity] = @ + 1]
      BY <2>0, <2>4, <3>1 DEF Loses, Release, Left, TypeOK, RedisTypeOK
    <3>3. e \in Open /\ Open' = Open \ {e} /\ Lost' = Lost \cup {e} /\ UNCHANGED Won
      BY <2>0, <2>4, OpenStep
    <3> QED
      BY <3>2, <3>3 DEF Contract!Lose, Left
  <2> QED
    BY <1>2, <2>0, <2>1, <2>2, <2>3, <2>4, BalancedLedgerStep
       DEF Contract!Next, Contract!OrderEvent, OrderEvent
<1> QED
  BY <1>0, <1>1, <1>2, ReservationInvariant, PTL DEF Spec, KeepsContract, Contract!Spec

-----------------------------------------------------------------------------
(* Final statuses *)

\* A status a buyer has seen as final is never replaced.  A worker that dies
\* after SUCCEEDED marks the redelivered request PROCESSING again, so this needs
\* a worker that does not crash.
THEOREM DecisionsAreFinal ==
  ASSUME Tracked, ~MayCrash
  PROVE  Spec => DecidedIsFinal
<1> USE Excluded
<1>1. ASSUME FlowInv, ReservationInv, [Next]_vars, NEW r \in Requests, status[r] \in Decided
      PROVE  status'[r] = status[r]
  <2>0. TypeOK /\ CallsOK /\ MessagesOK /\ WorkerOK /\ status \in [Requests -> RequestStatus]
    BY <1>1 DEF FlowInv, ReservationInv, TypeOK, RedisTypeOK
  <2>1. CASE \E c \in Calls : \E e \in OrderEvent : Admit(c, e)
    BY <1>1, <2>0, <2>1 DEF Admit, Reserve, Admissible, Known, Decided, redisVars
  <2>2. ASSUME NEW c \in Calls, Handle(c)
        PROVE  status'[r] = status[r]
    <3>1. CASE Publish(c) \/ Confirm(c)
      BY <3>1 DEF Publish, Confirm, redisVars
    <3>2. CASE CompensateCall(c)
      BY <1>1, <2>0, <3>2 DEF CompensateCall, Compensate, Release, redisVars
    <3>3. CASE MarkCallFailed(c)
      BY <1>1, <2>0, <3>3 DEF MarkCallFailed, Mark, CallsOK, redisVars
    <3> QED
      BY <2>2, <3>1, <3>2, <3>3 DEF Handle
  <2>3. CASE Worker
    <3>1. CASE MarkProcessing
      <4>1. queue # <<>> /\ Delivery # Malformed /\ wpc = "idle"
        BY <3>1 DEF MarkProcessing
      <4>2. status[Delivery.request] = "ACCEPTED"
        BY <2>0, <4>1, FirstMessage DEF MessagesOK, Untouched
      <4> QED
        BY <1>1, <2>0, <3>1, <4>2 DEF MarkProcessing, WorkerRedis, Mark, Decided, redisVars
    <3>2. CASE MarkSucceeded
      BY <1>1, <2>0, <3>2 DEF MarkSucceeded, WorkerRedis, WorkerOK, Mark, Decided, redisVars
    <3>3. CASE CompensateDelivery
      BY <1>1, <2>0, <3>3 DEF CompensateDelivery, WorkerRedis, Compensate, Release, redisVars
    <3>4. CASE MarkFailed
      BY <1>1, <2>0, <3>4 DEF MarkFailed, WorkerRedis, WorkerOK, Mark, redisVars
    <3>5. CASE \/ Lookup \/ FindActivity \/ Create \/ Relookup
               \/ SettleDelivery \/ RejectMalformed \/ WorkerExit
      BY <3>5 DEF Lookup, FindActivity, Create, Relookup, SettleDelivery, RejectMalformed,
         WorkerExit, redisVars
    <3> QED
      BY <2>3, <3>1, <3>2, <3>3, <3>4, <3>5 DEF Worker
  <2>4. CASE \/ WorkerStop \/ ActivityDeleted \/ OrderWrite \/ UNCHANGED vars
             \/ StartUp \/ ApiRestart \/ Intrusion
             \/ \E a \in Activities : AdminPublish(a) \/ Clock(a)
    BY <2>0, <2>4, OthersMove
  <2>5. CASE ApiCrash
    BY <2>5 DEF ApiCrash, redisVars
  <2> QED
    BY <1>1, <2>1, <2>2, <2>3, <2>4, <2>5, TrackedNext DEF ApiEvent
<1>2. FlowInv /\ ReservationInv /\ [Next]_vars =>
        [\A r \in Requests : status[r] \in Decided => status'[r] = status[r]]_vars
  BY <1>1
<1> QED
  BY <1>2, ReservationInvariant, PTL DEF Spec, DecidedIsFinal

-----------------------------------------------------------------------------
(* Confirmations, under every disturbance but a confirmation timeout *)

\* The handler that has the mutex waits for the only confirmation on its way.
MutexInv ==
  \/ confirms = <<>>
  \/ mu # NoCall /\ \E k \in BOOLEAN : confirms = <<[of |-> mu, ack |-> k]>>

LEMMA MutexStep ==
  ASSUME "publish_timeout" \notin Disturbances, TypeOK, MutexInv, [Next]_vars
  PROVE  MutexInv'
<1>1. ASSUME NEW c \in Calls, Publish(c)
      PROVE  MutexInv'
  <2>1. ASSUME NEW k \in BOOLEAN, Send(c, ev[c], k)
        PROVE  MutexInv'
    <3>1. confirms = <<>> /\ mu' = c /\ c # NoCall
      BY <2>1, FlowAssumption DEF Send, MutexInv
    <3>2. confirms' = <<[of |-> c, ack |-> k]>>
      BY <2>1, <3>1 DEF Send
    <3> QED
      BY <3>1, <3>2 DEF MutexInv
  <2>2. CASE UNCHANGED queueVars
    BY <2>2 DEF queueVars, MutexInv
  <2> QED
    BY <1>1, <2>1, <2>2 DEF Publish, SendRefused
<1>2. ASSUME NEW c \in Calls, Confirm(c)
      PROVE  MutexInv'
  <2>1. \/ confirms # <<>> /\ confirms' = Tail(confirms)
        \/ confirms' = <<>>
    BY <1>2 DEF Confirm, ReadConfirm, ReadClosed, Happens
  <2>2. ASSUME NEW k, confirms = <<[of |-> mu, ack |-> k]>>
        PROVE  Tail(confirms) = <<>>
    BY <2>2
  <2>3. confirms' = <<>>
    BY <2>1, <2>2 DEF MutexInv
  <2> QED
    BY <2>3 DEF MutexInv
<1>3. CASE ApiStart
  BY <1>3 DEF ApiStart, Reconnect, MutexInv
<1>4. CASE BrokerConnectionLost
  <2>1. mu' = mu /\ (confirms' = <<>> \/ (confirms # <<>> /\ confirms' = <<Head(confirms)>>))
    BY <1>4 DEF BrokerConnectionLost, LoseConnection
  <2>2. confirms' = <<>> \/ confirms' = confirms
    BY <2>1 DEF MutexInv
  <2> QED
    BY <2>1, <2>2 DEF MutexInv
<1>5. ASSUME \/ \E c \in Calls : (\E e \in OrderEvent : Admit(c, e))
                                 \/ CompensateCall(c) \/ MarkCallFailed(c)
             \/ Listen \/ ApiCrash \/ ApiRestart \/ WorkerCrash \/ WorkerStop
             \/ RedisLosesKeys \/ ActivityDeleted \/ OtherOrders \/ UNCHANGED vars
             \/ Worker \/ Intrusion
             \/ \E w \in publishing : WriteActivity(w)
             \/ \E a \in Activities : AdminPublish(a) \/ Clock(a)
      PROVE  UNCHANGED <<mu, confirms>>
  BY <1>5 DEF Admit, CompensateCall, MarkCallFailed, Listen, ApiCrash, ApiRestart, WorkerCrash,
     WorkerStop, RedisLosesKeys, ActivityDeleted, OtherOrders, vars, Worker, MarkProcessing,
     Lookup, FindActivity, Create, Relookup, MarkSucceeded, CompensateDelivery, MarkFailed,
     SettleDelivery, RejectMalformed, WorkerExit, WorkerRedis, Settle, Intrusion, Inject,
     WriteActivity,
     AdminPublish, Clock, queueVars
<1>6. CASE UNCHANGED <<mu, confirms>>
  BY <1>6 DEF MutexInv
<1> QED
  BY <1>1, <1>2, <1>3, <1>4, <1>5, <1>6 DEF Next, Handle, StartUp

\* Unless a handler gives up after five seconds, a confirmation is read by the
\* handler whose message it confirms, through crashes, restarts, a lost
\* connection and every failure of the stores.
THEOREM ConfirmationsAreOwn ==
  ASSUME "publish_timeout" \notin Disturbances
  PROVE  Spec => []OwnConfirmations
<1>1. Init => MutexInv
  BY DEF Init, QueueInit, MutexInv
<1>2. TypeOK /\ MutexInv /\ [Next]_vars => MutexInv'
  BY MutexStep
<1>3. MutexInv => OwnConfirmations
  BY DEF MutexInv, OwnConfirmations
<1> QED
  BY <1>1, <1>2, <1>3, TypesInvariant, PTL DEF Spec


-----------------------------------------------------------------------------
(* What the contract guarantees, carried over to the path that implements it *)

Promise ==
  INSTANCE SeckillContractProofs WITH
    left   <- [a \in Activities |->
                 IF a \in published THEN redisStock[a] ELSE TotalStock[a]],
    claims <- Open,
    won    <- Won,
    lost   <- Lost

\* internal/redisstore/store.go: no more requests are under way or won than the
\* activity has units.  With a crashing worker and transactions that fail a
\* redelivery returns a unit twice and this fails (see Reopened).
THEOREM NobodyIsOveradmitted ==
  ASSUME Absorbed
  PROVE  Spec => []NoOveradmission
<1>1. KeepsContract => []Promise!ContractInv
  <2>1. TotalStock \in [Activities -> Nat]
    BY StoreAssumption
  <2>2. Promise!Spec => []Promise!ContractInv
    BY <2>1, Promise!ContractInvariant
  <2>3. Contract!Init => Promise!Init
    BY DEF Contract!Init, Promise!Init
  <2>4. [Contract!Next]_Contract!vars => [Promise!Next]_Promise!vars
    BY DEF Contract!Next, Contract!vars, Contract!Claim, Contract!Win, Contract!Lose,
       Contract!OrderEvent,
       Promise!Next, Promise!vars, Promise!Claim, Promise!Win, Promise!Lose,
       Promise!OrderEvent
  <2> QED
    BY <2>2, <2>3, <2>4, PTL DEF KeepsContract, Contract!Spec, Promise!Spec
<1>2. ASSUME Promise!ContractInv
      PROVE  NoOveradmission
  <2>1. \A S : Promise!IsFiniteSet(S) => IsFiniteSet(S)
    BY DEF Promise!IsFiniteSet, IsFiniteSet
  <2>2. \A S : Promise!Cardinality(S) = Cardinality(S)
    BY DEF Promise!Cardinality, Cardinality
  <2> SUFFICES ASSUME NEW a \in Activities
               PROVE  Cardinality({e \in Admitted : e.activity = a
                                                 /\ status[e.request] # "FAILED"})
                        <= TotalStock[a]
    BY DEF NoOveradmission
  <2> DEFINE Counted == {e \in Admitted : e.activity = a /\ status[e.request] # "FAILED"}
             Held    == {e \in Open \cup Won : e.activity = a}
  <2>3. Counted \subseteq Held
    BY DEF Open, Lost, Won
  <2>4. Held = Promise!Taken(a)
    BY DEF Promise!Taken
  <2>5. Cardinality(Counted) <= Cardinality(Held) /\ Cardinality(Held) \in Nat
        /\ Cardinality(Counted) \in Nat
    <3>1. IsFiniteSet(Open \cup Won)
      BY <1>2, <2>1 DEF Promise!ContractInv, Promise!ContractTypeOK
    <3>2. IsFiniteSet(Held) /\ Held \subseteq Open \cup Won
      BY <3>1, FS_Subset
    <3> QED
      BY <2>3, <3>2, FS_Subset, FS_CardinalityType
  <2>6. /\ Left[a] \in Nat /\ Left[a] + Cardinality(Held) = TotalStock[a]
        /\ TotalStock[a] \in Nat
    BY <1>2, <2>2, <2>4, StoreAssumption
       DEF Promise!ContractInv, Promise!ContractTypeOK, Promise!Balanced, Left
  <2> QED
    BY <2>5, <2>6
<1> QED
  BY <1>1, <1>2, ContractKept, PTL
=============================================================================
