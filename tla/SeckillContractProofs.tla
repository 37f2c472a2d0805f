------------------------- MODULE SeckillContractProofs -------------------------
(***************************************************************************)
(* What the contract alone guarantees: units are claimed out of the total   *)
(* stock and nowhere else, so an activity is never sold or promised beyond  *)
(* it, and a buyer has at most one claim on it that was not given up.       *)
(* What implements the contract inherits both.                              *)
(***************************************************************************)
EXTENDS SeckillContract, FiniteSets, FiniteSetTheorems, TLAPS

\* The claims on an activity that are open or won
Taken(a) == {e \in claims \cup won : e.activity = a}

ContractTypeOK ==
  /\ left \in [Activities -> Nat]
  /\ claims \subseteq OrderEvent /\ won \subseteq OrderEvent
  /\ IsFiniteSet(claims \cup won)
  /\ claims \cap won = {}

\* Each unit of an activity is either left or in one claim.
Balanced ==
  \A a \in Activities : left[a] + Cardinality(Taken(a)) = TotalStock[a]

\* Nobody holds two claims on one activity.
OneClaim ==
  \A d, e \in claims \cup won : d.user = e.user /\ d.activity = e.activity => d = e

ContractInv == ContractTypeOK /\ Balanced /\ OneClaim

LEMMA TakenType ==
  ASSUME ContractTypeOK, NEW a
  PROVE  IsFiniteSet(Taken(a)) /\ Cardinality(Taken(a)) \in Nat
<1>1. Taken(a) \subseteq claims \cup won
  BY DEF Taken
<1> QED
  BY <1>1, FS_Subset, FS_CardinalityType DEF ContractTypeOK

LEMMA ContractInit ==
  ASSUME TotalStock \in [Activities -> Nat], Init
  PROVE  ContractInv
<1>1. claims \cup won = {} /\ \A a : Taken(a) = {}
  BY DEF Init, Taken
<1> QED
  BY <1>1, FS_EmptySet DEF Init, ContractInv, ContractTypeOK, Balanced, OneClaim

LEMMA ClaimKeeps ==
  ASSUME ContractInv, TotalStock \in [Activities -> Nat], NEW e \in OrderEvent, Claim(e)
  PROVE  ContractInv'
<1>1. e \notin claims \cup won /\ e.activity \in Activities
  BY DEF Claim, OrderEvent
<1>2. claims' \cup won' = (claims \cup won) \cup {e}
  BY DEF Claim
<1>3. ContractTypeOK'
  <2>1. left' \in [Activities -> Nat]
    BY <1>1 DEF Claim, ContractInv, ContractTypeOK
  <2>2. IsFiniteSet(claims' \cup won')
    BY <1>1, <1>2, FS_AddElement DEF ContractInv, ContractTypeOK
  <2> QED
    BY <1>1, <2>1, <2>2 DEF Claim, ContractInv, ContractTypeOK
<1>4. Balanced'
  <2> SUFFICES ASSUME NEW a \in Activities
               PROVE  left'[a] + Cardinality(Taken(a)') = TotalStock[a]
    BY DEF Balanced
  <2>1. /\ left \in [Activities -> Nat] /\ left[a] + Cardinality(Taken(a)) = TotalStock[a]
        /\ IsFiniteSet(Taken(a)) /\ Cardinality(Taken(a)) \in Nat
    BY TakenType DEF ContractInv, ContractTypeOK, Balanced
  <2>2. CASE a = e.activity
    <3>1. Taken(a)' = Taken(a) \cup {e} /\ e \notin Taken(a)
      BY <1>1, <1>2, <2>2 DEF Taken
    <3>2. Cardinality(Taken(a)') = Cardinality(Taken(a)) + 1
      BY <2>1, <3>1, FS_AddElement
    <3>3. left'[a] = left[a] - 1
      BY <2>1, <2>2 DEF Claim
    <3> QED
      BY <2>1, <3>2, <3>3
  <2>3. CASE a # e.activity
    <3>1. Taken(a)' = Taken(a)
      BY <1>2, <2>3 DEF Taken
    <3>2. left'[a] = left[a]
      BY <2>1, <2>3 DEF Claim
    <3> QED
      BY <2>1, <3>1, <3>2
  <2> QED
    BY <2>2, <2>3
<1>5. OneClaim'
  BY <1>2 DEF Claim, ContractInv, OneClaim
<1> QED
  BY <1>3, <1>4, <1>5 DEF ContractInv

LEMMA WinKeeps ==
  ASSUME ContractInv, NEW e \in OrderEvent, Win(e)
  PROVE  ContractInv'
<1>1. claims' \cup won' = claims \cup won /\ \A a : Taken(a)' = Taken(a)
  BY DEF Win, Taken
<1> QED
  BY <1>1 DEF Win, ContractInv, ContractTypeOK, Balanced, OneClaim

LEMMA LoseKeeps ==
  ASSUME ContractInv, TotalStock \in [Activities -> Nat], NEW e \in OrderEvent, Lose(e)
  PROVE  ContractInv'
<1>1. e \in claims \cup won /\ e.activity \in Activities
  BY DEF Lose, OrderEvent
<1>2. claims' \cup won' = (claims \cup won) \ {e}
  BY DEF Lose, ContractInv, ContractTypeOK
<1>3. ContractTypeOK'
  <2>1. left' \in [Activities -> Nat]
    BY <1>1 DEF Lose, ContractInv, ContractTypeOK
  <2>2. IsFiniteSet(claims' \cup won')
    BY <1>1, <1>2, FS_RemoveElement DEF ContractInv, ContractTypeOK
  <2> QED
    BY <1>1, <2>1, <2>2 DEF Lose, ContractInv, ContractTypeOK
<1>4. Balanced'
  <2> SUFFICES ASSUME NEW a \in Activities
               PROVE  left'[a] + Cardinality(Taken(a)') = TotalStock[a]
    BY DEF Balanced
  <2>1. /\ left \in [Activities -> Nat] /\ left[a] + Cardinality(Taken(a)) = TotalStock[a]
        /\ IsFiniteSet(Taken(a)) /\ Cardinality(Taken(a)) \in Nat
    BY TakenType DEF ContractInv, ContractTypeOK, Balanced
  <2>2. CASE a = e.activity
    <3>1. Taken(a)' = Taken(a) \ {e} /\ e \in Taken(a)
      BY <1>1, <1>2, <2>2 DEF Taken
    <3>2. Cardinality(Taken(a)') = Cardinality(Taken(a)) - 1
      BY <2>1, <3>1, FS_RemoveElement
    <3>3. left'[a] = left[a] + 1
      BY <2>1, <2>2 DEF Lose
    <3> QED
      BY <2>1, <3>2, <3>3
  <2>3. CASE a # e.activity
    <3>1. Taken(a)' = Taken(a)
      BY <1>2, <2>3 DEF Taken
    <3>2. left'[a] = left[a]
      BY <2>1, <2>3 DEF Lose
    <3> QED
      BY <2>1, <3>1, <3>2
  <2> QED
    BY <2>2, <2>3
<1>5. OneClaim'
  BY <1>2 DEF ContractInv, OneClaim
<1> QED
  BY <1>3, <1>4, <1>5 DEF ContractInv

LEMMA ContractStep ==
  ASSUME ContractInv, TotalStock \in [Activities -> Nat], [Next]_vars
  PROVE  ContractInv'
<1>1. CASE UNCHANGED vars
  <2>1. \A a : Taken(a)' = Taken(a)
    BY <1>1 DEF vars, Taken
  <2> QED
    BY <1>1, <2>1 DEF vars, ContractInv, ContractTypeOK, Balanced, OneClaim
<1> QED
  BY <1>1, ClaimKeeps, WinKeeps, LoseKeeps DEF Next

\* Each unit of an activity is left or in one claim, and nobody has two claims,
\* whatever becomes of them (Admit, Compensate and ProcessEvent in the abstract).
THEOREM ContractInvariant ==
  ASSUME TotalStock \in [Activities -> Nat]
  PROVE  Spec => []ContractInv
BY ContractInit, ContractStep, PTL DEF Spec

=============================================================================
