--------------------------- MODULE SeckillFlowProofs ---------------------------
(***************************************************************************)
(* What the asynchronous path keeps under every disturbance, for any number *)
(* of buyers, requests, activities, calls and disturbances.                 *)
(***************************************************************************)
EXTENDS SeckillFlow, OrderStoreProofs, SequenceTheorems

-----------------------------------------------------------------------------
(* What a step does to each store *)

\* While the worker is busy, the delivery it works on is at the head.
LEMMA DeliveryType ==
  ASSUME TypeOK, wpc # "idle" \/ (queue # <<>> /\ Delivery # Malformed)
  PROVE  /\ queue # <<>>
         /\ Delivery \in OrderEvent
         /\ Delivery.request \in Requests
         /\ Delivery.user \in Users
         /\ Delivery.activity \in Activities
<1>1. /\ queue \in Seq(OrderEvent \cup {Malformed})
      /\ queue # <<>> /\ Delivery # Malformed
  BY DEF TypeOK, QueueTypeOK, ControlOK
<1>2. Head(queue) \in OrderEvent \cup {Malformed}
  BY <1>1
<1> QED
  BY <1>1, <1>2 DEF Delivery, OrderEvent

\* A step writes the order tables through one of the transactions, or not.
LEMMA OrdersStep ==
  ASSUME TypeOK, [Next]_vars
  PROVE  [OrdersNext]_orderVars
<1>1. CASE \E c \in Calls : (\E e \in OrderEvent : Admit(c, e)) \/ Handle(c)
  BY <1>1 DEF Admit, Handle, Publish, Confirm, CompensateCall, MarkCallFailed
<1>2. CASE StartUp \/ ApiCrash \/ ApiRestart \/ WorkerCrash \/ WorkerStop
  BY <1>2 DEF StartUp, ApiStart, Listen, WriteActivity, ApiCrash, ApiRestart,
              WorkerCrash, WorkerStop
<1>3. CASE \E a \in Activities : AdminPublish(a) \/ Clock(a)
  BY <1>3 DEF AdminPublish, Clock
<1>4. CASE Worker
  <2>1. CASE Create
    <3>1. wpc # "idle"
      BY <2>1 DEF Create
    <3>2. CreateSeckillOrder(DeliveredOrder) \/ UNCHANGED orderVars
      BY <2>1 DEF Create, SeckillOrderFails
    <3> QED
      BY <3>1, <3>2, DeliveryType DEF DeliveredOrder, OrdersNext
  <2> QED
    BY <1>4, <2>1 DEF Worker, MarkProcessing, Lookup, FindActivity, Relookup, MarkSucceeded,
                      CompensateDelivery, MarkFailed, SettleDelivery,
                      RejectMalformed, WorkerExit, WorkerRedis
<1>5. CASE RedisLosesKeys \/ BrokerConnectionLost \/ Intrusion
  BY <1>5 DEF RedisLosesKeys, BrokerConnectionLost, Intrusion
<1>6. CASE ActivityDeleted \/ OtherOrders
  <2>1. CASE ActivityDeleted
    BY <2>1 DEF ActivityDeleted, OrdersNext
  <2>2. CASE DirectOrder \/ NormalOrder
    <3>1. 1 \in Nat \ {0}
      OBVIOUS
    <3> QED
      BY <2>2, <3>1 DEF DirectOrder, NormalOrder, OrdersNext
  <2>3. CASE Cancellation \/ Payment
    BY <2>3 DEF Cancellation, Payment, OrdersNext
  <2> QED
    BY <1>6, <2>1, <2>2, <2>3 DEF OtherOrders
<1>7. CASE UNCHANGED vars
  BY <1>7 DEF vars
<1> QED
  BY <1>1, <1>2, <1>3, <1>4, <1>5, <1>6, <1>7 DEF Next

\* A step writes the Redis keys through one of the commands, or not.
LEMMA RedisStep ==
  ASSUME TypeOK, [Next]_vars
  PROVE  /\ [RedisNext]_redisVars
         /\ UNCHANGED window \/ \E a \in Activities : Tick(a)
<1>1. CASE \E c \in Calls : \E e \in OrderEvent : Admit(c, e)
  BY <1>1 DEF Admit, RedisNext
<1>2. ASSUME NEW c \in Calls, Handle(c)
      PROVE  [RedisNext]_redisVars /\ UNCHANGED window
  <2>1. CASE Publish(c) \/ Confirm(c)
    BY <2>1 DEF Publish, Confirm
  <2>2. CASE CompensateCall(c)
    <3>1. ev[c] \in OrderEvent
      BY <2>2 DEF CompensateCall, TypeOK, ControlOK
    <3> QED
      BY <2>2, <3>1 DEF CompensateCall, Compensate, RedisNext
  <2>3. CASE MarkCallFailed(c)
    <3>1. ev[c] \in OrderEvent
      BY <2>3 DEF MarkCallFailed, TypeOK, ControlOK
    <3>2. ev[c].request \in Requests
      BY <3>1 DEF OrderEvent
    <3> QED
      BY <2>3, <3>2 DEF MarkCallFailed, RedisNext, RequestStatus
  <2> QED
    BY <1>2, <2>1, <2>2, <2>3 DEF Handle
<1>3. CASE ApiStart \/ Listen \/ ApiCrash \/ ApiRestart \/ WorkerCrash \/ WorkerStop
  BY <1>3 DEF ApiStart, Listen, ApiCrash, ApiRestart, WorkerCrash, WorkerStop
<1>4. CASE \E w \in publishing : WriteActivity(w)
  <2>1. \A w \in publishing : w.activity \in Activities /\ w.stock \in Nat
    BY DEF TypeOK, ControlOK, Publication
  <2> QED
    BY <1>4, <2>1 DEF WriteActivity, RedisNext
<1>5. CASE \E a \in Activities : AdminPublish(a) \/ Clock(a)
  BY <1>5 DEF AdminPublish, Clock
<1>6. CASE Worker
  <2>1. CASE \/ Lookup \/ FindActivity \/ Create \/ Relookup \/ SettleDelivery
             \/ RejectMalformed \/ WorkerExit
    BY <2>1 DEF Lookup, FindActivity, Create, Relookup, SettleDelivery, RejectMalformed, WorkerExit,
                WorkerUnchanged
  <2>2. CASE MarkProcessing \/ MarkSucceeded \/ MarkFailed
    <3>1. Delivery.request \in Requests
      BY <2>2, DeliveryType DEF MarkProcessing, MarkSucceeded, MarkFailed
    <3>2. /\ \/ \E s \in RequestStatus : Mark(Delivery.request, s)
             \/ UNCHANGED redisVars
          /\ UNCHANGED window
      BY <2>2 DEF MarkProcessing, MarkSucceeded, MarkFailed, WorkerRedis,
                  WorkerUnchanged, RequestStatus
    <3> QED
      BY <3>1, <3>2 DEF RedisNext
  <2>3. CASE CompensateDelivery
    <3>1. Delivery \in OrderEvent
      BY <2>3, DeliveryType DEF CompensateDelivery
    <3>2. (Release(Delivery) \/ UNCHANGED redisVars) /\ UNCHANGED window
      BY <2>3 DEF CompensateDelivery, WorkerRedis, WorkerUnchanged, Compensate
    <3> QED
      BY <3>1, <3>2 DEF RedisNext
  <2> QED
    BY <1>6, <2>1, <2>2, <2>3 DEF Worker
<1>7. CASE RedisLosesKeys
  BY <1>7 DEF RedisLosesKeys, RedisNext
<1>8. CASE BrokerConnectionLost \/ Intrusion \/ ActivityDeleted \/ OtherOrders
  BY <1>8 DEF BrokerConnectionLost, Intrusion, ActivityDeleted, OtherOrders
<1>9. CASE UNCHANGED vars
  BY <1>9 DEF vars
<1> QED
  BY <1>1, <1>2, <1>3, <1>4, <1>5, <1>6, <1>7, <1>8, <1>9 DEF Next, StartUp

\* Every command on Redis keeps the keys well formed.
LEMMA RedisKeeps ==
  ASSUME RedisTypeOK, [RedisNext]_redisVars,
         UNCHANGED window \/ \E a \in Activities : Tick(a)
  PROVE  RedisTypeOK'
<1>1. window' \in [Activities -> {"before", "during", "after"}]
  BY DEF RedisTypeOK, Tick
<1>2. CASE \E e \in OrderEvent : Reserve(e) \/ Release(e)
  BY <1>1, <1>2 DEF RedisTypeOK, Reserve, Release, Admissible, RequestStatus, Ticket, OrderEvent
<1>3. CASE \E r \in Requests, s \in RequestStatus : Mark(r, s)
  BY <1>1, <1>3 DEF RedisTypeOK, Mark
<1>4. CASE \E a \in Activities, n \in Nat : PublishActivity(a, n)
  BY <1>1, <1>4 DEF RedisTypeOK, PublishActivity
<1>5. CASE \E r \in Requests : Expire(r)
  BY <1>1, <1>5 DEF RedisTypeOK, Expire, RequestStatus
<1>6. CASE Wipe
  BY <1>1, <1>6 DEF RedisTypeOK, Wipe, ColdRedis, RequestStatus
<1>7. CASE UNCHANGED redisVars
  BY <1>1, <1>7 DEF RedisTypeOK, redisVars
<1> QED
  BY <1>2, <1>3, <1>4, <1>5, <1>6, <1>7 DEF RedisNext

\* The delivery at hand stays where it is until the worker settles it.
HeadKept == queue # <<>> => (queue' # <<>> /\ Head(queue') = Head(queue))

LEMMA QueueStep ==
  ASSUME TypeOK, [Next]_vars
  PROVE  QueueTypeOK(OrderEvent)' /\ (SettleDelivery \/ RejectMalformed \/ HeadKept)
<1> USE DEF QueueTypeOK
<1>0. /\ queue \in Seq(OrderEvent \cup {Malformed}) /\ confirms \in Seq(Confirmation)
      /\ mu \in Calls \cup {NoCall} /\ connected \in BOOLEAN
  BY DEF TypeOK
<1>1. CASE UNCHANGED queueVars
  BY <1>0, <1>1 DEF queueVars, HeadKept
<1>2. ASSUME NEW c \in Calls, Publish(c)
      PROVE  QueueTypeOK(OrderEvent)' /\ HeadKept
  <2>1. ev[c] \in OrderEvent
    BY <1>2 DEF Publish, TypeOK, ControlOK
  <2>2. ASSUME NEW kept \in BOOLEAN, Send(c, ev[c], kept)
        PROVE  QueueTypeOK(OrderEvent)' /\ HeadKept
    <3>0. [of |-> c, ack |-> kept] \in Confirmation
      BY DEF Confirmation
    <3>1. confirms' \in Seq(Confirmation) /\ mu' \in Calls /\ connected' \in BOOLEAN
      BY <1>0, <2>2, <3>0, AppendProperties DEF Send
    <3>2. CASE kept
      <4>1. queue' = Append(queue, ev[c])
        BY <2>2, <3>2 DEF Send
      <4>2. queue' \in Seq(OrderEvent \cup {Malformed}) /\ queue' # <<>>
        BY <1>0, <2>1, <4>1, AppendProperties
      <4>3. queue # <<>> => Head(queue') = Head(queue)
        BY <1>0, <4>1, HeadTailAppend
      <4> QED
        BY <3>1, <4>2, <4>3 DEF HeadKept
    <3>3. CASE ~kept
      BY <1>0, <2>2, <3>1, <3>3 DEF Send, HeadKept
    <3> QED
      BY <3>2, <3>3
  <2>3. (\E kept \in BOOLEAN : Send(c, ev[c], kept)) \/ UNCHANGED queueVars
    BY <1>2 DEF Publish, SendRefused
  <2>4. CASE UNCHANGED queueVars
    BY <1>0, <2>4 DEF queueVars, HeadKept
  <2> QED
    BY <2>2, <2>3, <2>4
<1>3. ASSUME NEW c \in Calls, Confirm(c)
      PROVE  QueueTypeOK(OrderEvent)' /\ HeadKept
  <2>1. queue' = queue /\ connected' = connected /\ mu' = NoCall
    BY <1>3 DEF Confirm, ReadConfirm, ReadClosed, GiveUp
  <2>2. confirms' = confirms \/ (confirms # <<>> /\ confirms' = Tail(confirms))
    BY <1>3 DEF Confirm, ReadConfirm, ReadClosed, GiveUp
  <2>3. confirms' \in Seq(Confirmation)
    BY <1>0, <2>2, HeadTailProperties
  <2> QED
    BY <1>0, <2>1, <2>3 DEF HeadKept
<1>4. CASE ApiStart
  BY <1>0, <1>4 DEF ApiStart, Reconnect, HeadKept
<1>5. CASE SettleDelivery \/ RejectMalformed
  <2>1. queue # <<>> /\ Settle
    BY <1>5, DeliveryType DEF SettleDelivery, RejectMalformed
  <2>2. queue' \in Seq(OrderEvent \cup {Malformed})
    BY <1>0, <2>1, HeadTailProperties DEF Settle
  <2> QED
    BY <1>0, <1>5, <2>1, <2>2 DEF Settle
<1>6. CASE BrokerConnectionLost
  <2>1. queue' = queue /\ connected' = FALSE /\ mu' = mu
    BY <1>6 DEF BrokerConnectionLost, LoseConnection
  <2>2. confirms' = <<>> \/ (confirms # <<>> /\ confirms' = <<Head(confirms)>>)
    BY <1>6 DEF BrokerConnectionLost, LoseConnection
  <2>3. confirms' \in Seq(Confirmation)
    <3>1. CASE confirms' = <<>>
      BY <3>1
    <3>2. CASE confirms # <<>> /\ confirms' = <<Head(confirms)>>
      <4>1. Head(confirms) \in Confirmation
        BY <1>0, <3>2, HeadTailProperties
      <4> QED
        BY <3>2, <4>1
    <3> QED
      BY <2>2, <3>1, <3>2
  <2> QED
    BY <1>0, <2>1, <2>3 DEF HeadKept
<1>10. CASE Intrusion
  <2>1. /\ queue' = Append(queue, Malformed)
        /\ UNCHANGED <<confirms, mu, connected>>
    BY <1>10 DEF Intrusion, Inject
  <2>2. queue' \in Seq(OrderEvent \cup {Malformed}) /\ queue' # <<>>
    BY <1>0, <2>1, AppendProperties
  <2>3. queue # <<>> => Head(queue') = Head(queue)
    BY <1>0, <2>1, HeadTailAppend
  <2> QED
    BY <1>0, <2>1, <2>2, <2>3 DEF HeadKept
<1>7. ASSUME \E c \in Calls : (\E e \in OrderEvent : Admit(c, e))
                              \/ CompensateCall(c) \/ MarkCallFailed(c)
      PROVE  UNCHANGED queueVars
  BY <1>7 DEF Admit, CompensateCall, MarkCallFailed
<1>8. ASSUME \/ Listen \/ ApiCrash \/ ApiRestart \/ WorkerCrash \/ WorkerStop
             \/ RedisLosesKeys \/ ActivityDeleted \/ OtherOrders \/ UNCHANGED vars
             \/ \E w \in publishing : WriteActivity(w)
             \/ \E a \in Activities : AdminPublish(a) \/ Clock(a)
      PROVE  UNCHANGED queueVars
  BY <1>8 DEF Listen, ApiCrash, ApiRestart, WorkerCrash, WorkerStop, RedisLosesKeys,
              ActivityDeleted, OtherOrders, WriteActivity, AdminPublish, Clock, vars
<1>9. ASSUME \/ MarkProcessing \/ Lookup \/ FindActivity \/ Create \/ Relookup \/ MarkSucceeded
             \/ CompensateDelivery \/ MarkFailed \/ WorkerExit
      PROVE  UNCHANGED queueVars
  BY <1>9 DEF MarkProcessing, Lookup, FindActivity, Create, Relookup, MarkSucceeded,
              CompensateDelivery, MarkFailed, WorkerExit, WorkerRedis
<1> QED
  BY <1>1, <1>2, <1>3, <1>4, <1>5, <1>6, <1>7, <1>8, <1>9, <1>10
     DEF Next, Handle, StartUp, Worker

\* The processes stay in the places the code has.
LEMMA ControlStep ==
  ASSUME TypeOK, [Next]_vars
  PROVE  ControlOK'
<1> USE DEF ControlOK
<1>0. ControlOK
  BY DEF TypeOK
<1>1. wpc' # "idle" => queue' # <<>> /\ Delivery' # Malformed
  <2>1. wpc' # "idle" => wpc # "idle" \/ MarkProcessing
    BY DEF Next, Handle, Publish, Confirm, CompensateCall, MarkCallFailed, Admit,
           StartUp, ApiStart, Listen, WriteActivity, AdminPublish, Clock,
           Worker, Lookup, FindActivity, Create, Relookup, MarkSucceeded, CompensateDelivery,
           MarkFailed, SettleDelivery, RejectMalformed, WorkerExit, WorkerRedis,
           ApiCrash, ApiRestart, WorkerCrash, WorkerStop, RedisLosesKeys,
           BrokerConnectionLost, Intrusion, ActivityDeleted, OtherOrders, vars, workerVars
  <2>2. wpc' # "idle" => queue # <<>> /\ Delivery # Malformed
    BY <1>0, <2>1 DEF MarkProcessing
  <2>3. SettleDelivery \/ RejectMalformed => wpc' = "idle"
    BY DEF SettleDelivery, RejectMalformed
  <2> QED
    BY <2>2, <2>3, QueueStep DEF HeadKept, Delivery
<1>2. disturbed' \in Nat
  <2>1. \A d : Happens(d) => disturbed' = disturbed + 1
    BY DEF Happens
  <2>2. Calm <=> disturbed' = disturbed
    BY DEF Calm
  <2>3. disturbed' = disturbed \/ disturbed' = disturbed + 1
    <3>1. CASE \E c \in Calls : (\E e \in OrderEvent : Admit(c, e)) \/ Handle(c)
      BY <2>1, <2>2, <3>1 DEF Admit, Handle, Publish, Confirm, CompensateCall, MarkCallFailed
    <3>2. CASE StartUp \/ \E a \in Activities : AdminPublish(a) \/ Clock(a)
      BY <2>1, <2>2, <3>2 DEF StartUp, ApiStart, Listen, WriteActivity, AdminPublish, Clock
    <3>3. CASE Worker
      BY <2>1, <2>2, <3>3 DEF Worker, MarkProcessing, Lookup, FindActivity, Create, Relookup,
         MarkSucceeded,
             CompensateDelivery, MarkFailed, SettleDelivery, RejectMalformed, WorkerExit,
             WorkerRedis
    <3>4. CASE ApiCrash \/ ApiRestart \/ WorkerCrash \/ WorkerStop
      BY <2>1, <3>4 DEF ApiCrash, ApiRestart, WorkerCrash, WorkerStop
    <3>5. CASE \/ RedisLosesKeys \/ BrokerConnectionLost \/ Intrusion
               \/ ActivityDeleted \/ OtherOrders
      BY <2>1, <3>5 DEF RedisLosesKeys, BrokerConnectionLost, Intrusion, ActivityDeleted,
             OtherOrders, DirectOrder, NormalOrder, Cancellation, Payment
    <3>6. CASE UNCHANGED vars
      BY <3>6 DEF vars
    <3> QED
      BY <3>1, <3>2, <3>3, <3>4, <3>5, <3>6 DEF Next
  <2> QED
    BY <1>0, <2>3
<1>3. wpc' \in WorkerSteps /\ stopping' \in BOOLEAN
  BY <1>0 DEF Next, Handle, Publish, Confirm, CompensateCall, MarkCallFailed, Admit,
           StartUp, ApiStart, Listen, WriteActivity, AdminPublish, Clock,
           Worker, MarkProcessing, Lookup, FindActivity, Create, Relookup, MarkSucceeded,
           CompensateDelivery,
           MarkFailed, SettleDelivery, RejectMalformed, WorkerExit, WorkerRedis, WorkerUnchanged,
           WorkerSteps,
           ApiCrash, ApiRestart, WorkerCrash, WorkerStop, RedisLosesKeys,
           BrokerConnectionLost, Intrusion, ActivityDeleted, OtherOrders, vars, workerVars
<1>4. api' \in {"down", "warming", "up"}
  BY <1>0 DEF Next, Handle, Publish, Confirm, CompensateCall, MarkCallFailed, Admit,
         StartUp, ApiStart, Listen, WriteActivity, AdminPublish, Clock,
         Worker, MarkProcessing, Lookup, FindActivity, Create, Relookup, MarkSucceeded,
         CompensateDelivery, MarkFailed, SettleDelivery, RejectMalformed, WorkerExit,
         WorkerRedis, WorkerUnchanged,
         ApiCrash, ApiRestart, WorkerCrash, WorkerStop, RedisLosesKeys,
         BrokerConnectionLost, Intrusion, ActivityDeleted, OtherOrders, vars, apiVars
<1>6. publishing' \in SUBSET Publication
  <2>1. \A a \in Activities, n \in Nat : RowRead(a, n) \in Publication
    BY DEF TypeOK, OrdersTypeOK, RowRead, Publication
  <2>2. CASE ApiStart
    BY <1>0, <2>1, <2>2 DEF ApiStart
  <2>3. CASE \E a \in Activities : AdminPublish(a)
    BY <1>0, <1>2, <2>1, <2>3 DEF AdminPublish
  <2>4. CASE ApiCrash
    BY <2>4 DEF ApiCrash
  <2>5. CASE \E w \in publishing : WriteActivity(w)
    BY <1>0, <2>5 DEF WriteActivity
  <2>6. ASSUME \/ \E c \in Calls : (\E e \in OrderEvent : Admit(c, e)) \/ Handle(c)
               \/ Listen \/ ApiRestart \/ Worker \/ WorkerCrash \/ WorkerStop
               \/ RedisLosesKeys \/ BrokerConnectionLost \/ Intrusion
               \/ ActivityDeleted \/ OtherOrders \/ UNCHANGED vars
               \/ \E a \in Activities : Clock(a)
        PROVE  UNCHANGED publishing
    BY <2>6 DEF Handle, Publish, Confirm, CompensateCall, MarkCallFailed, Admit, Listen,
                ApiRestart, Clock, Worker, MarkProcessing, Lookup, FindActivity, Create,
                Relookup, MarkSucceeded, CompensateDelivery, MarkFailed, SettleDelivery,
                RejectMalformed, WorkerExit, WorkerRedis, WorkerUnchanged, WorkerCrash,
                WorkerStop, RedisLosesKeys, BrokerConnectionLost, Intrusion,
                ActivityDeleted, OtherOrders, vars, apiVars
  <2> QED
    BY <1>0, <2>2, <2>3, <2>4, <2>5, <2>6 DEF Next, StartUp
<1>5. /\ pc' \in [Calls -> {"idle"} \cup InFlight \cup Answered]
      /\ ev' \in [Calls -> OrderEvent \cup {NoEvent}]
      /\ \A c \in Calls : pc'[c] # "idle" => ev'[c] \in OrderEvent
  <2> USE <1>0 DEF InFlight, Answered
  <2>1. CASE \E c \in Calls, e \in OrderEvent : Admit(c, e)
    BY <2>1 DEF Admit, Goto
  <2>2. CASE \E c \in Calls : Publish(c)
    BY <2>2 DEF Publish, Goto
  <2>3. CASE \E c \in Calls : Confirm(c)
    BY <2>3 DEF Confirm, Goto
  <2>4. CASE \E c \in Calls : CompensateCall(c) \/ MarkCallFailed(c)
    BY <2>4 DEF CompensateCall, MarkCallFailed, Goto
  <2>5. CASE ApiCrash
    BY <2>5 DEF ApiCrash
  <2>6. ASSUME \/ StartUp \/ ApiRestart \/ Worker \/ WorkerCrash \/ WorkerStop
               \/ RedisLosesKeys \/ BrokerConnectionLost \/ Intrusion
               \/ ActivityDeleted \/ OtherOrders \/ UNCHANGED vars
               \/ \E a \in Activities : AdminPublish(a) \/ Clock(a)
        PROVE  UNCHANGED callVars
    BY <2>6 DEF StartUp, ApiStart, Listen, WriteActivity, ApiRestart, AdminPublish,
                Clock, Worker, MarkProcessing, Lookup, FindActivity, Create, Relookup,
                MarkSucceeded,
                CompensateDelivery, MarkFailed, SettleDelivery, RejectMalformed,
                WorkerExit, WorkerRedis, WorkerUnchanged, WorkerCrash, WorkerStop,
                RedisLosesKeys, BrokerConnectionLost, Intrusion, ActivityDeleted,
                OtherOrders, vars
  <2>7. CASE UNCHANGED callVars
    BY <2>7 DEF callVars
  <2> QED
    BY <2>1, <2>2, <2>3, <2>4, <2>5, <2>6, <2>7 DEF Next, Handle
<1> QED
  BY <1>1, <1>2, <1>3, <1>4, <1>5, <1>6

-----------------------------------------------------------------------------
(* Types, stock and uniqueness of orders *)

\* OrdersInv makes the stock argument inductive: it bounds each order of an
\* activity to one unit and keeps orders countable.
FlowInv == TypeOK /\ OrdersInv

LEMMA InitFlow == ASSUME Init PROVE FlowInv
<1>1. OrdersInv
  BY InitOrders DEF Init
<1>2. RedisTypeOK
  BY DEF Init, RedisInit, ColdRedis, RedisTypeOK, RequestStatus
<1>3. QueueTypeOK(OrderEvent)
  BY DEF Init, QueueInit, QueueTypeOK
<1>4. ControlOK
  BY DEF Init, ControlOK, WorkerSteps
<1> QED
  BY <1>1, <1>2, <1>3, <1>4 DEF FlowInv, TypeOK, OrdersInv

LEMMA FlowStep == ASSUME FlowInv, [Next]_vars PROVE FlowInv'
<1>1. OrdersInv'
  BY OrdersStep, OrdersNextKeeps DEF FlowInv
<1>2. RedisTypeOK'
  BY RedisStep, RedisKeeps DEF FlowInv, TypeOK
<1>3. QueueTypeOK(OrderEvent)'
  BY QueueStep DEF FlowInv
<1>4. ControlOK'
  BY ControlStep DEF FlowInv
<1> QED
  BY <1>1, <1>2, <1>3, <1>4 DEF FlowInv, TypeOK, OrdersInv

LEMMA FlowInvariant == Spec => []FlowInv
BY InitFlow, FlowStep, PTL DEF Spec

\* Every state of the two processes and the three stores has its type.
THEOREM TypesInvariant == Spec => []TypeOK
BY FlowInvariant, PTL DEF FlowInv

\* No interleaving of crashes, redeliveries, lost replies, wiped keys and
\* synchronous orders oversells an activity in MySQL or leaks a unit of it.
THEOREM StockInvariant == Spec => []StockConserved
<1>1. FlowInv => StockConserved
  BY DEF FlowInv, OrdersInv
<1> QED
  BY FlowInvariant, <1>1, PTL

\* Nor does any give a buyer or a request id two orders.
THEOREM UniqueOrders == Spec => []OneOrder
<1>1. FlowInv => OneOrder
  BY DEF FlowInv, OrdersInv
<1> QED
  BY FlowInvariant, <1>1, PTL

-----------------------------------------------------------------------------
(* SUCCEEDED means that there is an order *)

\* SucceededHasOrder is not inductive: the worker marks a request long after it
\* looked for the order, so the order has to stay and the delivery at hand has
\* to be the one that was looked up.
SucceededInv ==
  /\ wpc = "mark_succeeded" => OrderedBy(Delivery.request)
  /\ SucceededHasOrder

\* Orders are never deleted, and keep their request id.
LEMMA OrderedStays ==
  ASSUME OrdersTypeOK, [OrdersNext]_orderVars, NEW r, OrderedBy(r)
  PROVE  OrderedBy(r)'
<1>1. ASSUME NEW o, orders' = orders \cup {o}
      PROVE  OrderedBy(r)'
  BY <1>1 DEF OrderedBy
<1>2. ASSUME NEW o \in orders, NEW to, SetStatus(o, to)
      PROVE  OrderedBy(r)'
  <2>1. [o EXCEPT !.status = to].request = o.request
    BY DEF OrdersTypeOK, Order
  <2> QED
    BY <1>2, <2>1 DEF OrderedBy, SetStatus
<1>3. CASE UNCHANGED orders
  BY <1>3 DEF OrderedBy
<1> QED
  BY <1>1, <1>2, <1>3 DEF OrdersNext, orderVars, CreateSeckillOrder, CreateProductOrder,
     UpdateOrderStatus, CancelOrderAndRestoreStock, DeleteActivity

\* Only the worker's last step before the acknowledgement writes SUCCEEDED.
LEMMA SucceededWrites ==
  ASSUME TypeOK, [Next]_vars, NEW r \in Requests,
         status'[r] = "SUCCEEDED", status[r] # "SUCCEEDED"
  PROVE  wpc = "mark_succeeded" /\ r = Delivery.request
<1> USE DEF TypeOK, RedisTypeOK
<1>1. CASE \E c \in Calls : \E e \in OrderEvent : Admit(c, e)
  BY <1>1 DEF Admit, Reserve, redisVars
<1>2. CASE \E c \in Calls : Handle(c)
  BY <1>2 DEF Handle, Publish, Confirm, CompensateCall, MarkCallFailed, Compensate,
              Release, Mark, redisVars
<1>3. CASE StartUp \/ \E a \in Activities : AdminPublish(a) \/ Clock(a)
  BY <1>3 DEF StartUp, ApiStart, Listen, WriteActivity, AdminPublish, Clock,
              PublishActivity, redisVars
<1>4. CASE Worker
  <2>1. CASE MarkProcessing \/ MarkFailed \/ CompensateDelivery
    BY <2>1 DEF MarkProcessing, MarkFailed, CompensateDelivery, WorkerRedis, Mark,
                Compensate, Release, redisVars
  <2>2. CASE MarkSucceeded
    BY <2>2 DEF MarkSucceeded, WorkerRedis, Mark, redisVars
  <2>3. CASE \/ Lookup \/ FindActivity \/ Create \/ Relookup \/ SettleDelivery
             \/ RejectMalformed \/ WorkerExit
    BY <2>3 DEF Lookup, FindActivity, Create, Relookup, SettleDelivery, RejectMalformed, WorkerExit,
                redisVars
  <2> QED
    BY <1>4, <2>1, <2>2, <2>3 DEF Worker
<1>5. CASE ApiCrash \/ ApiRestart \/ WorkerCrash \/ WorkerStop
  BY <1>5 DEF ApiCrash, ApiRestart, WorkerCrash, WorkerStop, redisVars
<1>6. CASE RedisLosesKeys
  BY <1>6 DEF RedisLosesKeys, Wipe, Expire, ColdRedis
<1>7. CASE \/ BrokerConnectionLost \/ Intrusion \/ ActivityDeleted \/ OtherOrders
           \/ UNCHANGED vars
  BY <1>7 DEF BrokerConnectionLost, Intrusion, ActivityDeleted, OtherOrders, vars, redisVars
<1> QED
  BY <1>1, <1>2, <1>3, <1>4, <1>5, <1>6, <1>7 DEF Next

\* The worker comes to that step only with an order in MySQL.
LEMMA FoundBeforeMarked ==
  ASSUME TypeOK, [Next]_vars, wpc' = "mark_succeeded", wpc # "mark_succeeded"
  PROVE  OrderedBy(Delivery.request)' /\ UNCHANGED queue
<1>1. Lookup \/ Create \/ Relookup
  BY DEF Next, Handle, Publish, Confirm, CompensateCall, MarkCallFailed, Admit,
         StartUp, ApiStart, Listen, WriteActivity, AdminPublish, Clock,
         Worker, MarkProcessing, FindActivity, MarkSucceeded, CompensateDelivery,
         MarkFailed, SettleDelivery, RejectMalformed, WorkerExit, WorkerRedis,
         ApiCrash, ApiRestart, WorkerCrash, WorkerStop, RedisLosesKeys,
         BrokerConnectionLost, Intrusion, ActivityDeleted, OtherOrders, vars, workerVars
<1>2. UNCHANGED queue
  BY <1>1 DEF Lookup, Create, Relookup, queueVars
<1>3. CASE Lookup \/ Relookup
  <2>1. OrderedBy(Delivery.request) /\ UNCHANGED orders
    BY <1>3 DEF Lookup, Relookup, orderVars
  <2> QED
    BY <1>2, <2>1 DEF OrderedBy, Delivery
<1>4. CASE Create
  <2>1. orders' = orders \cup {DeliveredOrder}
    BY <1>4 DEF Create, CreateSeckillOrder
  <2>2. DeliveredOrder.request = Delivery.request
    BY DEF DeliveredOrder, SeckillOrder
  <2> QED
    BY <1>2, <2>1, <2>2 DEF OrderedBy, Delivery
<1> QED
  BY <1>1, <1>2, <1>3, <1>4

LEMMA SucceededStep ==
  ASSUME FlowInv, SucceededInv, [Next]_vars
  PROVE  SucceededInv'
<1>1. TypeOK /\ OrdersTypeOK /\ [OrdersNext]_orderVars
  BY OrdersStep DEF FlowInv, TypeOK
<1>2. \A r : OrderedBy(r) => OrderedBy(r)'
  BY <1>1, OrderedStays
<1>3. ASSUME wpc' = "mark_succeeded"
      PROVE  OrderedBy(Delivery.request)'
  <2>1. CASE wpc = "mark_succeeded"
    <3>1. queue # <<>> /\ ~SettleDelivery /\ ~RejectMalformed
      BY <1>1, <2>1, DeliveryType DEF SettleDelivery, RejectMalformed
    <3>2. Delivery' = Delivery
      BY <1>1, <3>1, QueueStep DEF HeadKept, Delivery
    <3>3. OrderedBy(Delivery.request)
      BY <2>1 DEF SucceededInv
    <3> QED
      BY <1>2, <3>2, <3>3 DEF OrderedBy
  <2> QED
    BY <1>1, <1>3, <2>1, FoundBeforeMarked
<1>4. ASSUME NEW r \in Requests, status'[r] = "SUCCEEDED"
      PROVE  OrderedBy(r)'
  <2>1. CASE status[r] = "SUCCEEDED"
    BY <1>2, <2>1 DEF SucceededInv, SucceededHasOrder
  <2>2. CASE status[r] # "SUCCEEDED"
    <3>1. wpc = "mark_succeeded" /\ r = Delivery.request
      BY <1>1, <1>4, <2>2, SucceededWrites
    <3> QED
      BY <1>2, <3>1 DEF SucceededInv
  <2> QED
    BY <2>1, <2>2
<1> QED
  BY <1>3, <1>4 DEF SucceededInv, SucceededHasOrder

\* Under every disturbance a request that reads SUCCEEDED has an order in MySQL.
THEOREM SucceededInvariant == Spec => []SucceededHasOrder
<1>1. Init => SucceededInv
  BY DEF Init, RedisInit, ColdRedis, SucceededInv, SucceededHasOrder
<1>2. FlowInv /\ SucceededInv /\ [Next]_vars => SucceededInv'
  BY SucceededStep
<1>3. SucceededInv => SucceededHasOrder
  BY DEF SucceededInv
<1> QED
  BY <1>1, <1>2, <1>3, FlowInvariant, PTL DEF Spec

=============================================================================
