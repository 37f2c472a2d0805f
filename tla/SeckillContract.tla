---------------------------- MODULE SeckillContract ----------------------------
(***************************************************************************)
(* What the asynchronous seckill promises its buyers, without the stores    *)
(* and processes that keep the promise: a claim takes one unit of an        *)
(* activity's stock, at most one per buyer; it ends as an order, or is      *)
(* given up and its unit returns; either end is final.                      *)
(***************************************************************************)
EXTENDS ShopDomain, Integers

CONSTANT TotalStock   \* units each activity has to sell

VARIABLES
  left,    \* units not claimed
  claims,  \* claims not decided yet
  won,     \* claims that became orders
  lost     \* claims given up

vars == <<left, claims, won, lost>>

Init ==
  /\ left = TotalStock
  /\ claims = {}
  /\ won = {}
  /\ lost = {}

Claim(e) ==
  /\ left[e.activity] > 0
  /\ \A x \in claims \cup won \cup lost : x.request # e.request
  /\ \A x \in claims \cup won : ~(x.user = e.user /\ x.activity = e.activity)
  /\ left' = [left EXCEPT ![e.activity] = @ - 1]
  /\ claims' = claims \cup {e}
  /\ UNCHANGED <<won, lost>>

Win(e) ==
  /\ e \in claims
  /\ claims' = claims \ {e}
  /\ won' = won \cup {e}
  /\ UNCHANGED <<left, lost>>

Lose(e) ==
  /\ e \in claims
  /\ claims' = claims \ {e}
  /\ lost' = lost \cup {e}
  /\ left' = [left EXCEPT ![e.activity] = @ + 1]
  /\ UNCHANGED won

Next == \E e \in OrderEvent : Claim(e) \/ Win(e) \/ Lose(e)

Spec == Init /\ [][Next]_vars

\* No claim stays open for ever.
ClaimsEnd == \A e \in OrderEvent : e \in claims ~> e \in won \cup lost

=============================================================================
