--------------------------- MODULE MCBaselineOrders ---------------------------
(* Instances of BaselineOrders for TLC. *)
EXTENDS BaselineOrders, TLC

CONSTANTS u1, u2, r1, r2, a1, p1, c1, c2, c3

MCProductOf  == (a1 :> p1)
OneUnit      == (a1 :> 1)
ThreeInStock == (p1 :> 3)

Alike == Permutations(Users) \cup Permutations(Requests) \cup Permutations(Calls)

=============================================================================
