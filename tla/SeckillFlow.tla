------------------------------ MODULE SeckillFlow ------------------------------
(***************************************************************************)
(* The asynchronous seckill path: the optimized API process (cmd/api), the  *)
(* worker process (cmd/worker), and the MySQL, Redis and RabbitMQ they      *)
(* share.  A step is one round trip to a store, or one local decision of    *)
(* the process that depends on a race.                                      *)
(*                                                                         *)
(* Calls are one-shot POST /seckill/activities/:id/requests.  The worker    *)
(* handles one delivery at a time.  Everything that is not the normal path  *)
(* (a failing store, a lost reply, a timeout, a crash, a restart, expiry,   *)
(* orders that do not come through the queue) is a disturbance: an instance *)
(* enables the kinds in Disturbances and at most MaxDisturbances of them    *)
(* happen.                                                                  *)
(*                                                                         *)
(* In MySQL every activity is ACTIVE here and an administrator may delete   *)
(* it; how activities and products are edited is the subject of Catalog.    *)
(***************************************************************************)
EXTENDS OrderStore, RedisStore, MessageQueue

CONSTANTS
  Disturbances,     \* the kinds of disturbance that may happen
  MaxDisturbances,  \* how many may happen in a behaviour
  NoEvent           \* the event of a call that has not arrived

DisturbanceKinds ==
  {"redis_down", "redis_lost", "admission_lost", "redis_wipe", "expiry",
   "mysql_down", "mysql_lost",
   "publish_reject", "publish_error", "publish_timeout", "conn_lost",
   "api_crash", "api_restart", "worker_crash", "worker_stop",
   "malformed", "admin_publish", "activity_delete",
   "direct_order", "normal_order", "cancel", "payment"}

ASSUME FlowAssumption ==
  /\ Disturbances \subseteq DisturbanceKinds
  /\ MaxDisturbances \in Nat
  /\ NoCall \notin Calls
  /\ NoEvent \notin OrderEvent
  /\ Malformed \notin OrderEvent

VARIABLES
  pc,          \* where the handler of a call is
  ev,          \* what the call asks for
  api,         \* the API process
  publishing,  \* activities read from MySQL and not yet written to Redis
  wpc,         \* where the worker is with the delivery at hand
  stopping,    \* the worker got SIGTERM: its context is cancelled
  disturbed    \* disturbances so far

callVars   == <<pc, ev>>
apiVars    == <<api, publishing>>
workerVars == <<wpc, stopping>>
vars == <<orderVars, redisVars, window, queueVars, callVars, apiVars, workerVars, disturbed>>

InFlight == {"publish", "confirm", "compensate", "mark_failed"}
\* 202 after a confirmation, 202 for a known request, 409, 503, connection reset
Answered == {"queued", "replayed", "refused", "unavailable", "dead"}

WorkerSteps ==
  {"idle", "lookup", "find_activity", "create", "relookup", "mark_succeeded",
   "ack", "compensate", "mark_failed", "nack"}

\* A row in the hands of PublishActivity: the available_stock that was read, and
\* a number that tells two publications of one activity apart
Publication == [activity : Activities, stock : Nat, number : Nat]

Init ==
  /\ OrdersInit
  /\ RedisInit
  /\ QueueInit
  /\ pc = [c \in Calls |-> "idle"]
  /\ ev = [c \in Calls |-> NoEvent]
  /\ api = "down"
  /\ publishing = {}
  /\ wpc = "idle"
  /\ stopping = FALSE
  /\ disturbed = 0

Happens(d) ==
  /\ d \in Disturbances
  /\ disturbed < MaxDisturbances
  /\ disturbed' = disturbed + 1

Calm == UNCHANGED disturbed

-----------------------------------------------------------------------------
(* The handler of one call: optimized.Service.Admit *)

Goto(c, l) == pc' = [pc EXCEPT ![c] = l]

Admit(c, e) ==
  /\ pc[c] = "idle"
  /\ api = "up"
  /\ ev' = [ev EXCEPT ![c] = e]
  /\ \/ Reserve(e) /\ Goto(c, "publish") /\ Calm
     \/ Replayed(e) /\ Goto(c, "replayed") /\ UNCHANGED redisVars /\ Calm
     \/ Refused(e) /\ Goto(c, "refused") /\ UNCHANGED redisVars /\ Calm
     \/ Happens("redis_down") /\ Goto(c, "unavailable") /\ UNCHANGED redisVars
     \* The script ran and its reply was lost: the client's own retry of EVAL
     \* finds the request known, or the retries fail too.
     \/ /\ Happens("admission_lost")
        /\ Reserve(e)
        /\ Goto(c, "replayed") \/ Goto(c, "unavailable")
  /\ UNCHANGED <<orderVars, window, queueVars, apiVars, workerVars>>

Publish(c) ==
  /\ pc[c] = "publish"
  /\ \/ Send(c, ev[c], TRUE) /\ Goto(c, "confirm") /\ Calm
     \/ Send(c, ev[c], FALSE) /\ Goto(c, "confirm") /\ Happens("publish_reject")
     \/ SendRefused /\ Goto(c, "compensate") /\ Calm
     \/ /\ mu = NoCall
        /\ Happens("publish_error")
        /\ Goto(c, "compensate")
        /\ UNCHANGED queueVars
  /\ UNCHANGED <<orderVars, redisVars, window, ev, apiVars, workerVars>>

\* Faulty variant of Confirm: a nack is answered without compensation
ConfirmDrops(c) ==
  /\ pc[c] = "confirm"
  /\ \/ ReadConfirm(c, TRUE) /\ Goto(c, "queued")
     \/ ReadConfirm(c, FALSE) /\ Goto(c, "unavailable")
     \/ ReadClosed(c) /\ Goto(c, "compensate")
  /\ Calm
  /\ UNCHANGED <<orderVars, redisVars, window, ev, apiVars, workerVars>>

Confirm(c) ==
  /\ pc[c] = "confirm"
  /\ \/ ReadConfirm(c, TRUE) /\ Goto(c, "queued") /\ Calm
     \/ ReadConfirm(c, FALSE) /\ Goto(c, "compensate") /\ Calm
     \/ ReadClosed(c) /\ Goto(c, "compensate") /\ Calm
     \/ GiveUp(c) /\ Goto(c, "compensate") /\ Happens("publish_timeout")
  /\ UNCHANGED <<orderVars, redisVars, window, ev, apiVars, workerVars>>

\* Both commands' errors are ignored.
CompensateCall(c) ==
  /\ pc[c] = "compensate"
  /\ Goto(c, "mark_failed")
  /\ \/ Compensate(ev[c]) /\ Calm
     \/ Happens("redis_down") /\ UNCHANGED redisVars
  /\ UNCHANGED <<orderVars, window, queueVars, ev, apiVars, workerVars>>

MarkCallFailed(c) ==
  /\ pc[c] = "mark_failed"
  /\ Goto(c, "unavailable")
  /\ \/ Mark(ev[c].request, "FAILED") /\ Calm
     \/ Happens("redis_down") /\ UNCHANGED redisVars
  /\ UNCHANGED <<orderVars, window, queueVars, ev, apiVars, workerVars>>

Handle(c) == Publish(c) \/ Confirm(c) \/ CompensateCall(c) \/ MarkCallFailed(c)

-----------------------------------------------------------------------------
(* The API process: cmd/api, and the admin endpoint that publishes again *)

RowRead(a, n) == [activity |-> a, stock |-> available[a], number |-> n]

\* mq.New, then ListActivities, whose failure skips the warm-up
ApiStart ==
  /\ api = "down"
  /\ api' = "warming"
  /\ \/ publishing' = {RowRead(a, disturbed) : a \in Activities \cap rows} /\ Calm
     \/ publishing' = {} /\ Happens("mysql_down")
  /\ Reconnect
  /\ UNCHANGED <<orderVars, redisVars, window, callVars, workerVars>>

\* PublishActivityByID: FindActivityByID reads the row; another publication of
\* the same activity may be under way ...
AdminPublish(a) ==
  /\ api = "up"
  /\ a \in rows
  /\ Happens("admin_publish")
  /\ publishing' = publishing \cup {RowRead(a, disturbed')}
  /\ UNCHANGED <<orderVars, redisVars, window, queueVars, callVars, api, workerVars>>

\* ... and Store.PublishActivity writes what was read.
WriteActivity(w) ==
  /\ publishing' = publishing \ {w}
  /\ \/ PublishActivity(w.activity, w.stock) /\ Calm
     \/ Happens("redis_down") /\ UNCHANGED redisVars
  /\ UNCHANGED <<orderVars, window, queueVars, callVars, api, workerVars>>

Listen ==
  /\ api = "warming"
  /\ publishing = {}
  /\ api' = "up"
  /\ UNCHANGED <<orderVars, redisVars, window, queueVars, callVars, publishing,
                 workerVars, disturbed>>

StartUp == ApiStart \/ Listen \/ \E w \in publishing : WriteActivity(w)

\* The process dies with its handlers.
ApiCrash ==
  /\ api # "down"
  /\ Happens("api_crash")
  /\ api' = "down"
  /\ publishing' = {}
  /\ pc' = [c \in Calls |-> IF pc[c] \in InFlight THEN "dead" ELSE pc[c]]
  /\ UNCHANGED <<orderVars, redisVars, window, queueVars, ev, workerVars>>

\* SIGTERM: Server.Shutdown waits for the handlers.
ApiRestart ==
  /\ api = "up"
  /\ publishing = {}
  /\ \A c \in Calls : pc[c] \notin InFlight
  /\ Happens("api_restart")
  /\ api' = "down"
  /\ UNCHANGED <<orderVars, redisVars, window, queueVars, callVars, publishing,
                 workerVars>>

-----------------------------------------------------------------------------
(* The worker: optimized.Worker.Run and optimized.Service.ProcessEvent *)

WorkerUnchanged == UNCHANGED <<window, callVars, apiVars, stopping>>

\* A Redis command of the worker: it succeeds; it fails, as every command
\* does once the context is cancelled; or it is done and its reply is lost.
WorkerRedis(command, ok, failed) ==
  /\ \/ ~stopping /\ command /\ wpc' = ok /\ Calm
     \/ stopping /\ wpc' = failed /\ UNCHANGED redisVars /\ Calm
     \/ Happens("redis_down") /\ wpc' = failed /\ UNCHANGED redisVars
     \/ ~stopping /\ command /\ wpc' = failed /\ Happens("redis_lost")
  /\ WorkerUnchanged
  /\ UNCHANGED <<orderVars, queueVars>>

MarkProcessing ==
  /\ wpc = "idle"
  /\ queue # <<>>
  /\ Delivery # Malformed
  /\ WorkerRedis(Mark(Delivery.request, "PROCESSING"), "lookup", "nack")

\* Faulty variant of Lookup: a redelivery of a finished order is not marked
LookupAcks ==
  /\ wpc = "lookup"
  /\ wpc' = IF OrderedBy(Delivery.request) THEN "ack" ELSE "find_activity"
  /\ Calm
  /\ WorkerUnchanged
  /\ UNCHANGED <<orderVars, redisVars, queueVars>>

\* Faulty variant of Lookup: an existing order is an error
LookupRejects ==
  /\ wpc = "lookup"
  /\ wpc' = IF OrderedBy(Delivery.request) THEN "compensate" ELSE "find_activity"
  /\ Calm
  /\ WorkerUnchanged
  /\ UNCHANGED <<orderVars, redisVars, queueVars>>

\* FindOrderByRequestID
Lookup ==
  /\ wpc = "lookup"
  /\ \/ OrderedBy(Delivery.request) /\ wpc' = "mark_succeeded" /\ Calm
     \/ ~OrderedBy(Delivery.request) /\ wpc' = "find_activity" /\ Calm
     \/ wpc' = "compensate" /\ Happens("mysql_down")
  /\ WorkerUnchanged
  /\ UNCHANGED <<orderVars, redisVars, queueVars>>

\* FindActivityByID
FindActivity ==
  /\ wpc = "find_activity"
  /\ \/ Delivery.activity \in rows /\ wpc' = "create" /\ Calm
     \/ Delivery.activity \notin rows /\ wpc' = "compensate" /\ Calm
     \/ wpc' = "compensate" /\ Happens("mysql_down")
  /\ WorkerUnchanged
  /\ UNCHANGED <<orderVars, redisVars, queueVars>>

DeliveredOrder ==
  SeckillOrder(Delivery.user, Delivery.activity, Delivery.request)

Create ==
  /\ wpc = "create"
  /\ \/ CreateSeckillOrder(DeliveredOrder) /\ wpc' = "mark_succeeded" /\ Calm
     \/ SeckillOrderFails(DeliveredOrder) /\ wpc' = "relookup" /\ Calm
     \/ UNCHANGED orderVars /\ wpc' = "relookup" /\ Happens("mysql_down")
     \* committed, but the reply to COMMIT is lost
     \/ CreateSeckillOrder(DeliveredOrder) /\ wpc' = "relookup" /\ Happens("mysql_lost")
  /\ WorkerUnchanged
  /\ UNCHANGED <<redisVars, queueVars>>

\* Faulty variants of Relookup: a failed transaction counts as a duplicate, or
\* as rolled back, without looking
RelookupTrusts ==
  /\ wpc = "relookup"
  /\ wpc' = "mark_succeeded"
  /\ Calm
  /\ WorkerUnchanged
  /\ UNCHANGED <<orderVars, redisVars, queueVars>>

RelookupGivesUp ==
  /\ wpc = "relookup"
  /\ wpc' = "compensate"
  /\ Calm
  /\ WorkerUnchanged
  /\ UNCHANGED <<orderVars, redisVars, queueVars>>

Relookup ==
  /\ wpc = "relookup"
  /\ \/ OrderedBy(Delivery.request) /\ wpc' = "mark_succeeded" /\ Calm
     \/ ~OrderedBy(Delivery.request) /\ wpc' = "compensate" /\ Calm
     \/ wpc' = "compensate" /\ Happens("mysql_down")
  /\ WorkerUnchanged
  /\ UNCHANGED <<orderVars, redisVars, queueVars>>

MarkSucceeded ==
  /\ wpc = "mark_succeeded"
  /\ WorkerRedis(Mark(Delivery.request, "SUCCEEDED"), "ack", "compensate")

\* Faulty variant of CompensateDelivery: a failure is only recorded
RecordOnly ==
  /\ wpc = "compensate"
  /\ wpc' = "mark_failed"
  /\ Calm
  /\ WorkerUnchanged
  /\ UNCHANGED <<orderVars, redisVars, queueVars>>

CompensateDelivery ==
  /\ wpc = "compensate"
  /\ WorkerRedis(Compensate(Delivery), "mark_failed", "mark_failed")

MarkFailed ==
  /\ wpc = "mark_failed"
  /\ WorkerRedis(Mark(Delivery.request, "FAILED"), "nack", "nack")

\* Faulty variant of SettleDelivery: Nack with requeue
Requeue ==
  /\ wpc \in {"ack", "nack"}
  /\ wpc' = "idle"
  /\ IF wpc = "ack" THEN Settle ELSE UNCHANGED queueVars
  /\ WorkerUnchanged
  /\ UNCHANGED <<orderVars, redisVars, disturbed>>

\* d.Ack(false) after success, d.Nack(false, false) after failure
SettleDelivery ==
  /\ wpc \in {"ack", "nack"}
  /\ wpc' = "idle"
  /\ Settle
  /\ WorkerUnchanged
  /\ UNCHANGED <<orderVars, redisVars, disturbed>>

\* Faulty variant of RejectMalformed: Reject with requeue
RequeueMalformed ==
  /\ wpc = "idle"
  /\ queue # <<>>
  /\ Delivery = Malformed
  /\ UNCHANGED vars

\* d.Reject(false)
RejectMalformed ==
  /\ wpc = "idle"
  /\ queue # <<>>
  /\ Delivery = Malformed
  /\ Settle
  /\ WorkerUnchanged
  /\ UNCHANGED <<orderVars, redisVars, wpc, disturbed>>

\* The select sees ctx.Done(); the restart policy starts a new process.
WorkerExit ==
  /\ stopping
  /\ wpc = "idle"
  /\ stopping' = FALSE
  /\ UNCHANGED <<orderVars, redisVars, window, queueVars, callVars, apiVars, wpc, disturbed>>

Worker ==
  \/ MarkProcessing \/ Lookup \/ FindActivity \/ Create \/ Relookup
  \/ MarkSucceeded \/ CompensateDelivery \/ MarkFailed
  \/ SettleDelivery \/ RejectMalformed \/ WorkerExit

\* The process dies, or loses its broker connection and exits; the broker
\* delivers the message again to its successor.
WorkerCrash ==
  /\ wpc # "idle"
  /\ Happens("worker_crash")
  /\ wpc' = "idle"
  /\ stopping' = FALSE
  /\ UNCHANGED <<orderVars, redisVars, window, queueVars, callVars, apiVars>>

WorkerStop ==
  /\ ~stopping
  /\ Happens("worker_stop")
  /\ stopping' = TRUE
  /\ UNCHANGED <<orderVars, redisVars, window, queueVars, callVars, apiVars, wpc>>

-----------------------------------------------------------------------------
(* What happens to the stores without the two processes *)

Clock(a) ==
  /\ Tick(a)
  /\ UNCHANGED <<orderVars, redisVars, queueVars, callVars, apiVars, workerVars, disturbed>>

RedisLosesKeys ==
  /\ \/ Happens("redis_wipe") /\ Wipe
     \/ Happens("expiry") /\ \E r \in Requests : Expire(r)
  /\ UNCHANGED <<orderVars, window, queueVars, callVars, apiVars, workerVars>>

BrokerConnectionLost ==
  /\ Happens("conn_lost")
  /\ LoseConnection
  /\ UNCHANGED <<orderVars, redisVars, window, callVars, apiVars, workerVars>>

Intrusion ==
  /\ Happens("malformed")
  /\ Inject
  /\ UNCHANGED <<orderVars, redisVars, window, callVars, apiVars, workerVars>>

\* ActivityService.Delete: Redis keeps what was published of the activity.
ActivityDeleted ==
  /\ Happens("activity_delete")
  /\ \E a \in Activities \cap rows : DeleteActivity(a)
  /\ UNCHANGED <<redisVars, window, queueVars, callVars, apiVars, workerVars>>

\* Committed transactions of the synchronous endpoints, which the same router
\* serves next to the asynchronous one.  They check the activity's times before
\* the transaction, so a commit may come after end_at but not before start_at.
DirectOrder ==
  /\ Happens("direct_order")
  /\ \E u \in Users, a \in Activities, r \in Requests :
       window[a] # "before" /\ CreateSeckillOrder(SeckillOrder(u, a, r))

NormalOrder ==
  /\ Happens("normal_order")
  /\ \E u \in Users, p \in Products, r \in Requests :
       CreateProductOrder(ProductOrder(u, p, r, 1))

Cancellation ==
  /\ Happens("cancel")
  /\ \E o \in orders : CancelOrderAndRestoreStock(o)

Payment ==
  /\ Happens("payment")
  /\ \E o \in orders : UpdateOrderStatus(o, "PENDING", "PAID")

OtherOrders ==
  /\ DirectOrder \/ NormalOrder \/ Cancellation \/ Payment
  /\ UNCHANGED <<redisVars, window, queueVars, callVars, apiVars, workerVars>>

Next ==
  \/ \E c \in Calls : (\E e \in OrderEvent : Admit(c, e)) \/ Handle(c)
  \/ StartUp
  \/ \E a \in Activities : AdminPublish(a) \/ Clock(a)
  \/ Worker
  \/ ApiCrash \/ ApiRestart \/ WorkerCrash \/ WorkerStop
  \/ RedisLosesKeys \/ BrokerConnectionLost \/ Intrusion
  \/ ActivityDeleted \/ OtherOrders

Spec == Init /\ [][Next]_vars

-----------------------------------------------------------------------------
(* Fairness: every handler goroutine, the worker and the API process's start *)
(* go on while they can; the compose file restarts both processes.  Nothing  *)
(* is assumed of calls that have not arrived, of the clock or of             *)
(* disturbances.                                                             *)

Fairness ==
  /\ \A c \in Calls : WF_vars(Handle(c))
  /\ WF_vars(Worker)
  /\ WF_vars(StartUp)

FairSpec == Spec /\ Fairness

-----------------------------------------------------------------------------
(* Properties that hold under every disturbance, with StockConserved and     *)
(* OneOrder of OrderStore                                                    *)

ControlOK ==
  /\ pc \in [Calls -> {"idle"} \cup InFlight \cup Answered]
  /\ ev \in [Calls -> OrderEvent \cup {NoEvent}]
  /\ \A c \in Calls : pc[c] # "idle" => ev[c] \in OrderEvent
  /\ api \in {"down", "warming", "up"}
  /\ publishing \in SUBSET Publication
  /\ wpc \in WorkerSteps
  /\ wpc # "idle" => queue # <<>> /\ Delivery # Malformed
  /\ stopping \in BOOLEAN
  /\ disturbed \in Nat

TypeOK ==
  OrdersTypeOK /\ RedisTypeOK /\ QueueTypeOK(OrderEvent) /\ ControlOK

\* A request that a buyer sees as SUCCEEDED has an order in MySQL
\* (ProcessEvent marks it only after it found or committed one).
SucceededHasOrder ==
  \A r \in Requests : status[r] = "SUCCEEDED" => OrderedBy(r)

-----------------------------------------------------------------------------
(* Properties that hold under the disturbances the design absorbs *)

Issued == {r \in Requests : ticket[r] # NoTicket}

EventOf(r) ==
  [request |-> r, user |-> ticket[r].user, activity |-> ticket[r].activity]

Ordered(e) ==
  \E o \in orders :
    o.request = e.request /\ o.user = e.user /\ o.activity = e.activity

Admitted == {EventOf(r) : r \in Issued}
Won  == {e \in Admitted : Ordered(e)}
Lost == {e \in Admitted : status[e.request] = "FAILED"} \ Won
Open == Admitted \ (Won \cup Lost)

OpenOf(a) == {e \in Open : e.activity = a}

\* Units that Redis has handed out or may hand out beyond those MySQL has left
Gap(a) == redisStock[a] + Cardinality(OpenOf(a)) - available[a]

\* Every unit the admission script may still hand out, and every open
\* admission, is backed by a unit of activity stock in MySQL, so an admitted
\* buyer is not turned away by the transaction (Admit, Compensate, ProcessEvent).
ReservationsBacked ==
  \A a \in published \cap rows : Gap(a) = 0

Cancelled(a) ==
  \E o \in orders' \ orders : o.activity = a /\ o.status = "CANCELLED"

\* A request that had failed, and had its unit returned, is undecided again.
Reopened(a) == \E e \in Lost : e.activity = a /\ e \in Open'

\* When the API is restarted, or an activity published again, with admissions
\* under way, the balance is lost by exactly the number of open admissions and
\* by what was sold or returned since the row was read, at the moment of that
\* write; a cancellation moves it by the one unit Redis does not hear of, and a
\* redelivery to a new worker by one when it takes up a request that had failed.
\* Nothing else moves it, whatever admissions, orders and compensations follow and
\* though handlers have died with their claims: a wrong stock in Redis does not
\* make the worker or a handler lose or return one more unit
\* (main's warm-up, PublishActivityByID, ProcessEvent, Compensate).
ImbalanceNeedsCause ==
  [][\A a \in published' \cap rows' :
       \/ a \in published /\ Gap(a)' = Gap(a)
       \/ \E w \in publishing \ publishing' :
            /\ w.activity = a
            /\ Gap(a)' = (w.stock - available[a]) + Cardinality(OpenOf(a))
       \/ a \in published /\ Cancelled(a) /\ Gap(a)' = Gap(a) - 1
       \/ a \in published /\ Reopened(a) /\ Gap(a)' = Gap(a) + 1]_vars

Undecided == {e \in Open : status[e.request] \notin Decided}

\* Whoever is answered 202 for a request that is not decided yet, also by the
\* replay of a first call that has published nothing so far, can rely on somebody
\* to decide it: the handler that is to publish or compensate it, or a message in
\* the queue (Admit, Publish, ProcessEvent, RunWorker).
ClaimsAreHeld ==
  \A e \in Undecided :
    \/ \E c \in Calls : pc[c] \in InFlight /\ ev[c] = e
    \/ \E i \in DOMAIN queue : queue[i] = e

\* Every confirmation that waits to be read while a handler has the mutex
\* belongs to that handler, so no message's ack or nack is taken for another's
\* (Publish reads the next confirmation without looking at its delivery tag).
OwnConfirmations ==
  mu # NoCall => \A i \in DOMAIN confirms : confirms[i].of = mu

\* A status the buyer has seen as final is never replaced.
DecidedIsFinal ==
  [][\A r \in Requests : status[r] \in Decided => status'[r] = status[r]]_vars

\* FAILED and an order exclude each other, and an order's buyer keeps the place
\* in the buyers set that stops a second admission: compensation never returns
\* what an existing order has taken.
OrderKeepsReservation ==
  \A o \in orders :
    o.activity # NoActivity =>
      o.user \in buyers[o.activity] /\ status[o.request] # "FAILED"

\* The admission script does not oversell: no more requests are under way or won
\* than the activity has units, although units come back and are taken again
\* (the stock check of the script, Compensate).
NoOveradmission ==
  \A a \in Activities :
    Cardinality({e \in Admitted : e.activity = a /\ status[e.request] # "FAILED"})
      <= TotalStock[a]

Contract ==
  INSTANCE SeckillContract WITH
    left   <- [a \in Activities |->
                 IF a \in published THEN redisStock[a] ELSE TotalStock[a]],
    claims <- Open,
    won    <- Won,
    lost   <- Lost

\* Claims are taken, won and lost as the contract says.
KeepsContract == Contract!Spec

\* Every admission becomes an order or is given up, through redeliveries and
\* failing stores, also when its message was never published.
ClaimsAreDecided == Contract!ClaimsEnd

\* A request answered with 202 for a message the broker confirmed ends as
\* SUCCEEDED or FAILED, for good.
QueuedIsDecided ==
  \A r \in Requests :
    (\E c \in Calls : pc[c] = "queued" /\ ev[c].request = r)
      ~> [](status[r] \in Decided)

\* Every call that was admitted is answered, though all of them wait for one
\* publisher mutex (or its connection is reset with the process).
CallsAnswered == \A c \in Calls : pc[c] \in InFlight ~> pc[c] \in Answered

\* The worker always comes back to an empty queue.
QueueDrains == []<>(queue = <<>>)

-----------------------------------------------------------------------------
(* What the documentation and comments state and the code does not keep      *)

\* internal/optimized/service.go:106: "Treat it as success so compensation never
\* returns inventory for an existing order": the buyer of an order stays in the
\* buyers set.
CompensationSparesOrders ==
  [][\A o \in orders :
       /\ o.activity # NoActivity
       /\ o.user \in buyers[o.activity]
       => o.user \in buyers'[o.activity]]_vars

\* docs/PROJECT-INTRODUCTION.md:226: "SUCCEEDED: the MySQL order is created and
\* its id recorded": the order is the one the request was admitted for.
SucceededIsMine ==
  \A e \in Admitted : status[e.request] = "SUCCEEDED" => Ordered(e)

\* docs/PROJECT-INTRODUCTION.md:227: "FAILED: the order was not written to the
\* database": once the queue is empty and every handler has answered, a request
\* that reads FAILED has no order.
FailedHasNoOrder ==
  queue = <<>> /\ (\A c \in Calls : pc[c] \notin InFlight) =>
    \A e \in Admitted : status[e.request] = "FAILED" => ~Ordered(e)

=============================================================================
