------------------------------ MODULE RedisStore ------------------------------
(***************************************************************************)
(* The Redis keys of internal/redisstore/store.go and the commands on them. *)
(* Redis runs a Lua script or an HSET to completion before the next one, so *)
(* each operation below is one atomic step.                                 *)
(*                                                                         *)
(*   seckill:activity:{id}   published, redisStock (status and stock)       *)
(*   seckill:buyers:{id}     buyers                                         *)
(*   seckill:request:{id}    status, ticket (user_id and activity_id)       *)
(*                                                                         *)
(* The clock is abstracted to the side of [start_at, end_at) it is on.      *)
(***************************************************************************)
EXTENDS ShopDomain, Integers, FiniteSets

CONSTANT
  NoTicket   \* the request hash has no user_id and activity_id fields

VARIABLES
  published,   \* activities whose hash says ACTIVE
  redisStock,  \* the pre-deducted stock
  buyers,      \* users admitted to an activity
  status,      \* status of a request, "NONE" when its key does not exist
  ticket,      \* who the request was admitted for, and for which activity
  window       \* where the clock is relative to start_at and end_at

redisVars == <<published, redisStock, buyers, status, ticket>>

RequestStatus == {"NONE", "ACCEPTED", "PROCESSING", "SUCCEEDED", "FAILED"}
Decided == {"SUCCEEDED", "FAILED"}

Ticket == [user : Users, activity : Activities]

ASSUME TicketAssumption == NoTicket \notin Ticket

RedisTypeOK ==
  /\ published \in SUBSET Activities
  /\ redisStock \in [Activities -> Nat]
  /\ buyers \in [Activities -> SUBSET Users]
  /\ status \in [Requests -> RequestStatus]
  /\ ticket \in [Requests -> Ticket \cup {NoTicket}]
  /\ window \in [Activities -> {"before", "during", "after"}]

ColdRedis ==
  [published |-> {},
   stock     |-> [a \in Activities |-> 0],
   buyers    |-> [a \in Activities |-> {}],
   status    |-> [r \in Requests |-> "NONE"],
   ticket    |-> [r \in Requests |-> NoTicket]]

RedisInit ==
  /\ published = ColdRedis.published
  /\ redisStock = ColdRedis.stock
  /\ buyers = ColdRedis.buyers
  /\ status = ColdRedis.status
  /\ ticket = ColdRedis.ticket
  /\ window = [a \in Activities |-> "before"]

-----------------------------------------------------------------------------
(* admissionScript, one definition per return code *)

\* Faulty variant of Known: the script does not look the request up
NeverKnown(e) == FALSE

Known(e) == status[e.request] # "NONE"

Foreign(e) ==
  ticket[e.request] # NoTicket /\ ticket[e.request].user # e.user

Selling(a) == a \in published /\ window[a] = "during"

\* {1, status}: the request is known and not another user's
Replayed(e) == Known(e) /\ ~Foreign(e)

\* Faulty variant of Admissible: no check of the stock
AdmissibleUnstocked(e) ==
  ~Known(e) /\ Selling(e.activity) /\ e.user \notin buyers[e.activity]

Admissible(e) ==
  /\ ~Known(e)
  /\ Selling(e.activity)
  /\ e.user \notin buyers[e.activity]
  /\ redisStock[e.activity] > 0

\* {5, ...}, {4, ...}, {3, ...} and {2, ...}: nothing is written
Refused(e) == ~Replayed(e) /\ ~Admissible(e)

\* {0, 'ACCEPTED'}
Reserve(e) ==
  /\ Admissible(e)
  /\ redisStock' = [redisStock EXCEPT ![e.activity] = @ - 1]
  /\ buyers' = [buyers EXCEPT ![e.activity] = @ \cup {e.user}]
  /\ status' = [status EXCEPT ![e.request] = "ACCEPTED"]
  /\ ticket' = [ticket EXCEPT ![e.request] =
                  [user |-> e.user, activity |-> e.activity]]
  /\ UNCHANGED published

-----------------------------------------------------------------------------
(* The other commands *)

\* HSET of the status; it creates the hash when the key has expired.
Mark(r, s) ==
  /\ status' = [status EXCEPT ![r] = s]
  /\ UNCHANGED <<published, redisStock, buyers, ticket>>

\* Faulty variant of Release: it forgets the HINCRBY
ReleaseWithoutUnit(e) ==
  /\ status[e.request] \notin Decided
  /\ buyers' = [buyers EXCEPT ![e.activity] = @ \ {e.user}]
  /\ status' = [status EXCEPT ![e.request] = "FAILED"]
  /\ UNCHANGED <<published, redisStock, ticket>>

Release(e) ==
  /\ status[e.request] \notin Decided
  /\ redisStock' = [redisStock EXCEPT ![e.activity] = @ + 1]
  /\ buyers' = [buyers EXCEPT ![e.activity] = @ \ {e.user}]
  /\ status' = [status EXCEPT ![e.request] = "FAILED"]
  /\ UNCHANGED <<published, ticket>>

Compensate(e) ==
  \/ Release(e)
  \/ status[e.request] \in Decided /\ UNCHANGED redisVars

\* HSET of status, start_at, end_at and stock of an ACTIVE activity
PublishActivity(a, n) ==
  /\ published' = published \cup {a}
  /\ redisStock' = [redisStock EXCEPT ![a] = n]
  /\ UNCHANGED <<buyers, status, ticket>>

-----------------------------------------------------------------------------
(* Redis and time on their own *)

\* EXPIRE 86400 was set by the admission script; a hash that Mark or
\* Compensate created has no TTL (and no user_id).
Expire(r) ==
  /\ ticket[r] # NoTicket
  /\ status' = [status EXCEPT ![r] = "NONE"]
  /\ ticket' = [ticket EXCEPT ![r] = NoTicket]
  /\ UNCHANGED <<published, redisStock, buyers>>

\* Redis comes back without its data.
Wipe ==
  /\ published' = ColdRedis.published
  /\ redisStock' = ColdRedis.stock
  /\ buyers' = ColdRedis.buyers
  /\ status' = ColdRedis.status
  /\ ticket' = ColdRedis.ticket

Tick(a) ==
  \/ window[a] = "before" /\ window' = [window EXCEPT ![a] = "during"]
  \/ window[a] = "during" /\ window' = [window EXCEPT ![a] = "after"]

-----------------------------------------------------------------------------
(* Every write of the keys, whoever issues it *)

RedisNext ==
  \/ \E e \in OrderEvent : Reserve(e) \/ Release(e)
  \/ \E r \in Requests, s \in RequestStatus : Mark(r, s)
  \/ \E a \in Activities, n \in Nat : PublishActivity(a, n)
  \/ \E r \in Requests : Expire(r)
  \/ Wipe

=============================================================================
