---------------------------- MODULE MCSeckillFlow ----------------------------
(* Instances of SeckillFlow for TLC. *)
EXTENDS SeckillFlow, TLC

CONSTANTS u1, u2, r1, r2, r3, a1, a2, p1, c1, c2, c3

\* One activity, or two that sell the same product
OneProductOf  == (a1 :> p1)
BothProductOf == (a1 :> p1 @@ a2 :> p1)

OneUnit      == (a1 :> 1)
TwoUnits     == (a1 :> 2)
OneUnitEach  == (a1 :> 1 @@ a2 :> 1)

OneInStock == (p1 :> 1)
TwoInStock == (p1 :> 2)

\* No property tells one buyer, request or call from another.
Alike == Permutations(Users) \cup Permutations(Requests) \cup Permutations(Calls)

=============================================================================
