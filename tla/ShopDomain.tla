------------------------------ MODULE ShopDomain ------------------------------
(***************************************************************************)
(* The identities that MySQL rows, Redis keys and queue messages share.     *)
(***************************************************************************)
CONSTANTS
  Users,       \* buyers (users.id)
  Requests,    \* client-generated request ids
  Activities   \* seckill activities (seckill_activities.id)

\* What an admission hands to the queue: mq.OrderEvent, redisstore.OrderEvent
OrderEvent == [request : Requests, user : Users, activity : Activities]

=============================================================================
