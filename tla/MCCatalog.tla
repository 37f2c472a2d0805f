------------------------------ MODULE MCCatalog ------------------------------
(* Instances of Catalog for TLC. *)
EXTENDS Catalog, TLC

CONSTANTS u1, u2, r1, r2, a1, a2, p1, p2, e1, e2, e3

OneProductOf == (a1 :> p1)
TwoProductOf == (a1 :> p1 @@ a2 :> p1)
OneUnit      == (a1 :> 1)
TwoUnits     == (a1 :> 2 @@ a2 :> 0)
OneInStock   == (p1 :> 2)
TwoInStock   == (p1 :> 2 @@ p2 :> 0)

Alike == Permutations(Users) \cup Permutations(Requests) \cup Permutations(Editors)

=============================================================================
