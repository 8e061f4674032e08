----------------------------- MODULE SmallSets -----------------------------
(***************************************************************************)
(* Sets with at most one element, which is what a mutex, a flag or an      *)
(* owner comes down to, and their cardinality.                             *)
(***************************************************************************)
EXTENDS FiniteSetTheorems, TLAPS

NoDuplicate(S) == \A x, y \in S : x = y

\* A set without two different elements has at most one.
LEMMA AtMostOne ==
    ASSUME NEW S, NoDuplicate(S)
    PROVE  /\ IsFiniteSet(S) /\ Cardinality(S) <= 1
           /\ Cardinality(S) = 0 <=> S = {}
<1>1. CASE S = {}
  BY <1>1, FS_EmptySet
<1>2. ASSUME NEW x \in S PROVE IsFiniteSet(S) /\ Cardinality(S) = 1 /\ S # {}
  <2>1. S = {x}
    BY DEF NoDuplicate
  <2>2. IsFiniteSet({x}) /\ Cardinality({x}) = 1
    BY FS_Singleton
  <2> QED BY <2>1, <2>2, Zenon
<1> QED BY <1>1, <1>2

=============================================================================
