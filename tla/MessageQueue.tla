----------------------------- MODULE MessageQueue -----------------------------
(***************************************************************************)
(* internal/mq/rabbitmq.go and the durable queue behind it.                 *)
(*                                                                         *)
(* One publisher is shared by all API handlers: a mutex admits one handler, *)
(* which sends a persistent message and then reads one confirmation from    *)
(* the channel NotifyPublish fills.  Publish does not look at the delivery  *)
(* tag of a confirmation (`of` below), and a handler that gives up after    *)
(* five seconds leaves its confirmation for whoever reads next.             *)
(*                                                                         *)
(* One consumer handles deliveries in order.  A message stays at the head   *)
(* of the queue until Ack or Nack(requeue = false) removes it, so a         *)
(* consumer that dies finds it there again.  A message that is not the JSON *)
(* of an OrderEvent can only come from outside the system.                  *)
(***************************************************************************)
EXTENDS Sequences

CONSTANTS
  Calls,      \* HTTP calls, each handled by one goroutine
  NoCall,     \* nobody holds the mutex
  Malformed   \* a message that json.Unmarshal refuses

VARIABLES
  queue,      \* messages the broker holds
  confirms,   \* confirmations sent and not yet read
  mu,         \* who holds Publisher.mu
  connected   \* the publisher's connection is open

queueVars == <<queue, confirms, mu, connected>>

Confirmation == [of : Calls, ack : BOOLEAN]

QueueTypeOK(Message) ==
  /\ queue \in Seq(Message \cup {Malformed})
  /\ confirms \in Seq(Confirmation)
  /\ mu \in Calls \cup {NoCall}
  /\ connected \in BOOLEAN

QueueInit ==
  /\ queue = <<>>
  /\ confirms = <<>>
  /\ mu = NoCall
  /\ connected = TRUE

-----------------------------------------------------------------------------
(* Publisher.Publish *)

\* Faulty variant of Send: the mutex is not held until the confirmation
SendUnlocked(c, m, kept) ==
  /\ connected
  /\ mu' = c
  /\ queue' = IF kept THEN Append(queue, m) ELSE queue
  /\ confirms' = Append(confirms, [of |-> c, ack |-> kept])
  /\ UNCHANGED connected

\* PublishWithContext reaches the broker, which keeps the message and acks it,
\* or drops it and nacks it.
Send(c, m, kept) ==
  /\ mu = NoCall
  /\ connected
  /\ mu' = c
  /\ queue' = IF kept THEN Append(queue, m) ELSE queue
  /\ confirms' = Append(confirms, [of |-> c, ack |-> kept])
  /\ UNCHANGED connected

\* conn.IsClosed(): Publish returns ErrUnavailable without sending.
SendRefused == mu = NoCall /\ ~connected /\ UNCHANGED queueVars

\* Faulty variant of ReadConfirm: the mutex stays locked
ReadConfirmLocked(c, acked) ==
  /\ mu = c
  /\ confirms # <<>>
  /\ acked = Head(confirms).ack
  /\ confirms' = Tail(confirms)
  /\ UNCHANGED <<queue, mu, connected>>

\* case confirmation := <-p.confirms
ReadConfirm(c, acked) ==
  /\ mu = c
  /\ confirms # <<>>
  /\ acked = Head(confirms).ack
  /\ confirms' = Tail(confirms)
  /\ mu' = NoCall
  /\ UNCHANGED <<queue, connected>>

\* The same case on a closed channel: the zero Confirmation has Ack = false.
ReadClosed(c) ==
  /\ mu = c
  /\ confirms = <<>>
  /\ ~connected
  /\ mu' = NoCall
  /\ UNCHANGED <<queue, confirms, connected>>

\* case <-time.After(5 * time.Second)
GiveUp(c) ==
  /\ mu = c
  /\ mu' = NoCall
  /\ UNCHANGED <<queue, confirms, connected>>

\* The connection, or its channel, closes; of the confirmations on their way at most the one
\* in the channel's buffer can still be read.
LoseConnection ==
  /\ connected
  /\ connected' = FALSE
  /\ \/ confirms' = <<>>
     \/ confirms # <<>> /\ confirms' = <<Head(confirms)>>
  /\ UNCHANGED <<queue, mu>>

\* New publisher and new channel of a restarted API process
Reconnect ==
  /\ confirms' = <<>>
  /\ mu' = NoCall
  /\ connected' = TRUE
  /\ UNCHANGED queue

-----------------------------------------------------------------------------
(* Consumer.Run *)

Delivery == Head(queue)

\* Somebody else publishes to the queue.
Inject ==
  /\ queue' = Append(queue, Malformed)
  /\ UNCHANGED <<confirms, mu, connected>>

\* d.Ack(false), d.Nack(false, false) and d.Reject(false) remove the message.
Settle ==
  /\ queue' = Tail(queue)
  /\ UNCHANGED <<confirms, mu, connected>>

=============================================================================
