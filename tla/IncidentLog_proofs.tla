------------------------- MODULE IncidentLog_proofs -------------------------
(***************************************************************************)
(* Proofs that the safety properties of IncidentLog hold for all ids and   *)
(* quotas, however long the process runs and whichever writes fail.        *)
(***************************************************************************)
EXTENDS IncidentLog, SequenceTheorems, FiniteSetTheorems, WellFoundedInduction, TLAPS

Incident == [id : Ids, downAt : Nat, upAt : Nat]

\* The newest incident of i is open and of the outage that began at the time at.
HasNewest(log, i, at) ==
    \E k \in Of(log, i) : /\ \A j \in Of(log, i) : k <= j
                          /\ log[k].upAt = 0 /\ log[k].downAt = at

Quotas(log) ==
    /\ Len(log) <= MaxGlobal
    /\ \A i \in Ids : Cardinality(Of(log, i)) <= MaxPerProxy

-----------------------------------------------------------------------------
(* Positions in the log.                                                   *)

LEMMA OfIsFinite ==
    ASSUME NEW log \in Seq(Incident), NEW i
    PROVE  /\ Of(log, i) \subseteq 1..Len(log) /\ IsFiniteSet(Of(log, i))
           /\ Cardinality(Of(log, i)) \in Nat
<1>1. Of(log, i) \subseteq 1..Len(log)
  BY LenProperties DEF Of
<1>2. IsFiniteSet(1..Len(log))
  BY LenProperties, FS_Interval
<1> QED BY <1>1, <1>2, FS_Subset, FS_CardinalityType

\* A set of positions has a last one.
LEMMA LastExists ==
    ASSUME NEW n \in Nat, NEW S, S \subseteq 1..n, S # {}
    PROVE  Max(S) \in S /\ \A x \in S : x <= Max(S)
<1> DEFINE Rest == {n - x : x \in S}
           Less == OpToRel(<, Nat)
<1>1. Rest \subseteq Nat /\ Rest # {}
  OBVIOUS
<1>2. PICK r \in Rest : \A y \in Rest : ~(<<y, r>> \in Less)
  BY <1>1, NatLessThanWellFounded, WFMin
<1>3. \A y \in Rest : ~(y < r)
  BY <1>1, <1>2 DEF OpToRel
<1>4. PICK x \in S : r = n - x
  OBVIOUS
<1>5. \A y \in S : y <= x
  BY <1>3, <1>4
<1>6. \E z \in S : \A y \in S : z >= y
  BY <1>5
<1> QED BY <1>6 DEF Max

\* Cutting one element out of a sequence moves those behind it.
LEMMA RemoveAtEffect ==
    ASSUME NEW log \in Seq(Incident), NEW k \in 1..Len(log)
    PROVE  LET kept == RemoveAt(log, k)
           IN  /\ kept \in Seq(Incident) /\ Len(kept) = Len(log) - 1
               /\ \A p \in 1..Len(kept) : kept[p] = log[IF p < k THEN p ELSE p + 1]
<1> DEFINE before == SubSeq(log, 1, k - 1)
           behind == SubSeq(log, k + 1, Len(log))
<1>0. Len(log) \in Nat /\ \A p \in 1..Len(log) : log[p] \in Incident
  BY LenProperties, ElementOfSeq
<1>1. /\ before \in Seq(Incident) /\ Len(before) = k - 1
      /\ \A p \in 1..(k - 1) : before[p] = log[p]
  BY <1>0, SubSeqProperties
<1>2. /\ behind \in Seq(Incident) /\ Len(behind) = Len(log) - k
      /\ \A p \in 1..(Len(log) - k) : behind[p] = log[p + k]
  BY <1>0, SubSeqProperties
<1> HIDE DEF before, behind
<1>3. /\ before \o behind \in Seq(Incident) /\ Len(before \o behind) = Len(log) - 1
      /\ \A p \in 1..(Len(log) - 1) :
            (before \o behind)[p] = IF p < k THEN before[p] ELSE behind[p - (k - 1)]
  <2>1. /\ before \o behind \in Seq(Incident)
        /\ Len(before \o behind) = Len(before) + Len(behind)
        /\ \A p \in 1..Len(before) + Len(behind) : (before \o behind)[p] =
              IF p <= Len(before) THEN before[p] ELSE behind[p - Len(before)]
    BY <1>1, <1>2, ConcatProperties
  <2>2. Len(before) + Len(behind) = Len(log) - 1
    BY <1>0, <1>1, <1>2
  <2> QED BY <1>0, <1>1, <2>1, <2>2
<1>4. \A p \in 1..(Len(log) - 1) : (before \o behind)[p] = log[IF p < k THEN p ELSE p + 1]
  BY <1>0, <1>1, <1>2, <1>3
<1> QED BY <1>3, <1>4 DEF RemoveAt, before, behind

\* A new element in front moves all others, and the last may fall off.
LEMMA PrependEffect ==
    ASSUME NEW kept \in Seq(Incident), NEW inc \in Incident
    PROVE  LET n == Min({MaxGlobal, Len(kept) + 1})
               log == SubSeq(<<inc>> \o kept, 1, n)
           IN  /\ n \in Nat \ {0} /\ n <= MaxGlobal /\ n <= Len(kept) + 1
               /\ n = MaxGlobal \/ n = Len(kept) + 1
               /\ log \in Seq(Incident) /\ Len(log) = n /\ log[1] = inc
               /\ \A p \in 2..n : log[p] = kept[p - 1]
<1> DEFINE n == Min({MaxGlobal, Len(kept) + 1})
           long == <<inc>> \o kept
<1>0. Len(kept) \in Nat /\ MaxGlobal \in Nat \ {0}
  BY LenProperties, StatsAssumption
<1>1. /\ n \in Nat \ {0} /\ n <= MaxGlobal /\ n <= Len(kept) + 1
      /\ n = MaxGlobal \/ n = Len(kept) + 1
  <2> DEFINE S == {MaxGlobal, Len(kept) + 1}
  <2>1. \E x \in S : \A y \in S : x =< y
    BY <1>0
  <2>2. Min(S) \in S /\ \A y \in S : Min(S) =< y
    BY <2>1 DEF Min
  <2> QED BY <1>0, <2>2
<1>2. <<inc>> \in Seq(Incident) /\ Len(<<inc>>) = 1 /\ <<inc>>[1] = inc
  OBVIOUS
<1>3. /\ long \in Seq(Incident) /\ Len(long) = Len(kept) + 1
      /\ \A p \in 1..(Len(kept) + 1) : long[p] = IF p <= 1 THEN inc ELSE kept[p - 1]
  BY <1>0, <1>2, ConcatProperties
<1> HIDE DEF n, long
<1>4. \A p \in 1..n : long[p] \in Incident
  BY <1>0, <1>1, <1>3, ElementOfSeq
<1>5. /\ SubSeq(long, 1, n) \in Seq(Incident) /\ Len(SubSeq(long, 1, n)) = n
      /\ \A p \in 1..n : SubSeq(long, 1, n)[p] = long[p]
  <2>1. 1 \in Int /\ n \in Int /\ 1 <= n /\ n - 1 + 1 = n
    BY <1>1
  <2> QED BY <1>4, <2>1, SubSeqProperties
<1>6. SubSeq(long, 1, n)[1] = inc /\ \A p \in 2..n : SubSeq(long, 1, n)[p] = kept[p - 1]
  BY <1>0, <1>1, <1>3, <1>5
<1> QED BY <1>1, <1>5, <1>6 DEF n, long

\* Where the incidents of log are found after another was added: k is the position of
\* the one that made room for it, or the one behind the last.
Old(k, p) == IF p - 1 < k THEN p - 1 ELSE p
Moved(k, q) == IF q < k THEN q + 1 ELSE q

AtQuota(log, i) == Cardinality(Of(log, i)) >= MaxPerProxy

Shifted(log, new, inc, k) ==
    /\ new \in Seq(Incident) /\ Len(new) \in 1..MaxGlobal /\ new[1] = inc
    /\ IF AtQuota(log, inc.id)
       THEN k \in Of(log, inc.id) /\ \A x \in Of(log, inc.id) : x <= k
       ELSE k = Len(log) + 1
    /\ \/ Len(log) >= MaxGlobal /\ Len(new) = MaxGlobal
       \/ Len(new) = IF AtQuota(log, inc.id) THEN Len(log) ELSE Len(log) + 1
    /\ \A p \in 2..Len(new) : /\ Old(k, p) \in 1..Len(log) /\ Old(k, p) # k
                              /\ new[p] = log[Old(k, p)]

LEMMA AddIncidentShifts ==
    ASSUME NEW log \in Seq(Incident), NEW inc \in Incident
    PROVE  \E k \in 1..Len(log) + 1 : Shifted(log, AddIncident(log, inc), inc, k)
<1> DEFINE own == Of(log, inc.id)
           full == AtQuota(log, inc.id)
           kept == IF full THEN RemoveAt(log, Max(own)) ELSE log
           k == IF full THEN Max(own) ELSE Len(log) + 1
           n == Min({MaxGlobal, Len(kept) + 1})
           new == SubSeq(<<inc>> \o kept, 1, n)
<1>1. Len(log) \in Nat /\ MaxGlobal \in Nat \ {0} /\ MaxPerProxy \in Nat \ {0}
  BY LenProperties, StatsAssumption
<1>2. full => /\ Max(own) \in own /\ \A x \in own : x <= Max(own)
              /\ Max(own) \in 1..Len(log)
  <2> SUFFICES ASSUME full PROVE /\ Max(own) \in own /\ \A x \in own : x <= Max(own)
                                 /\ Max(own) \in 1..Len(log)
    OBVIOUS
  <2>1. own \subseteq 1..Len(log) /\ IsFiniteSet(own) /\ Cardinality(own) \in Nat
    BY OfIsFinite
  <2>2. own # {}
    BY <1>1, <2>1, FS_EmptySet DEF AtQuota
  <2>3. Max(own) \in own /\ \A x \in own : x <= Max(own)
    BY <1>1, <2>1, <2>2, LastExists
  <2> QED BY <2>1, <2>3
<1>3. /\ kept \in Seq(Incident) /\ Len(kept) = IF full THEN Len(log) - 1 ELSE Len(log)
      /\ \A p \in 1..Len(kept) : kept[p] = log[IF p < k THEN p ELSE p + 1]
  <2>1. CASE full
    BY <1>2, <2>1, RemoveAtEffect
  <2>2. CASE ~full
    BY <1>1, <2>2
  <2> QED BY <2>1, <2>2
<1>4. k \in 1..Len(log) + 1 /\ (full => k \in own /\ k <= Len(log) /\ \A x \in own : x <= k)
  BY <1>1, <1>2
<1>5. AddIncident(log, inc) = new
  BY DEF AddIncident, AtQuota
<1> HIDE DEF kept, full, k
<1>6. /\ n \in Nat \ {0} /\ n <= MaxGlobal /\ n <= Len(kept) + 1
      /\ n = MaxGlobal \/ n = Len(kept) + 1
      /\ new \in Seq(Incident) /\ Len(new) = n /\ new[1] = inc
      /\ \A p \in 2..n : new[p] = kept[p - 1]
  BY <1>3, PrependEffect
<1> HIDE DEF new, n
<1>7. /\ Len(new) \in 1..MaxGlobal
      /\ \/ Len(log) >= MaxGlobal /\ Len(new) = MaxGlobal
         \/ Len(new) = IF full THEN Len(log) ELSE Len(log) + 1
  BY <1>1, <1>3, <1>6
<1>8. ASSUME NEW p \in 2..Len(new)
      PROVE  /\ Old(k, p) \in 1..Len(log) /\ Old(k, p) # k
             /\ new[p] = log[Old(k, p)]
  <2>1. p - 1 \in 1..Len(kept) /\ new[p] = kept[p - 1]
    BY <1>1, <1>3, <1>6
  <2>2. kept[p - 1] = log[Old(k, p)]
    BY <1>3, <2>1 DEF Old
  <2>3. Old(k, p) \in 1..Len(log) /\ Old(k, p) # k
    BY <1>1, <1>3, <1>4, <2>1 DEF Old, k
  <2> QED BY <2>1, <2>2, <2>3
<1>9. Shifted(log, new, inc, k)
  BY <1>4, <1>6, <1>7, <1>8 DEF Shifted, full, k
<1> QED BY <1>4, <1>5, <1>9

\* The incidents that stay are told apart as before, and a new one comes in front.
LEMMA ShiftCounts ==
    ASSUME NEW log \in Seq(Incident), NEW inc \in Incident,
           NEW new, NEW k \in 1..Len(log) + 1, Shifted(log, new, inc, k), NEW i
    PROVE  /\ Cardinality(Of(new, i) \ {1}) <= Cardinality(Of(log, i) \ {k})
           /\ Len(log) < MaxGlobal =>
                 Cardinality(Of(log, i) \ {k}) <= Cardinality(Of(new, i) \ {1})
<1> DEFINE A == Of(new, i) \ {1}
           B == Of(log, i) \ {k}
<1>1. /\ Len(log) \in Nat /\ Len(new) \in Nat /\ k \in Nat
      /\ DOMAIN log = 1..Len(log) /\ DOMAIN new = 1..Len(new)
  BY LenProperties DEF Shifted
<1>2. IsFiniteSet(A) /\ IsFiniteSet(B)
  BY OfIsFinite, FS_RemoveElement DEF Shifted
<1>3. \A p \in A : p \in 2..Len(new) /\ Old(k, p) \in B
  <2> SUFFICES ASSUME NEW p \in A PROVE p \in 2..Len(new) /\ Old(k, p) \in B
    OBVIOUS
  <2>1. p \in 1..Len(new) /\ p # 1 /\ new[p].id = i
    BY <1>1 DEF Of
  <2>2. p \in 2..Len(new)
    BY <1>1, <2>1
  <2>3. Old(k, p) \in 1..Len(log) /\ Old(k, p) # k /\ new[p] = log[Old(k, p)]
    BY <2>2 DEF Shifted
  <2> QED BY <1>1, <2>1, <2>2, <2>3 DEF Of
<1>4. Cardinality(A) <= Cardinality(B)
  <2> DEFINE f == [p \in A |-> Old(k, p)]
  <2>1. f \in [A -> B]
    BY <1>3
  <2>2. \A p, q \in A : f[p] = f[q] => p = q
    <3> SUFFICES ASSUME NEW p \in A, NEW q \in A, Old(k, p) = Old(k, q) PROVE p = q
      OBVIOUS
    <3>1. p \in 2..Len(new) /\ q \in 2..Len(new) /\ Old(k, p) # k /\ Old(k, q) # k
      BY <1>3 DEF Shifted
    <3> QED BY <1>1, <3>1 DEF Old
  <2>3. f \in Injection(A, B)
    BY <2>1, <2>2 DEF Injection, IsInjective
  <2> QED BY <1>2, <2>3, FS_Injection
<1>5. Len(log) < MaxGlobal => Cardinality(B) <= Cardinality(A)
  <2> SUFFICES ASSUME Len(log) < MaxGlobal PROVE Cardinality(B) <= Cardinality(A)
    OBVIOUS
  <2> DEFINE g == [q \in B |-> Moved(k, q)]
  <2>1. \A q \in B : /\ Moved(k, q) \in 2..Len(new) /\ Old(k, Moved(k, q)) = q
    <3> SUFFICES ASSUME NEW q \in B
                 PROVE  /\ Moved(k, q) \in 2..Len(new) /\ Old(k, Moved(k, q)) = q
      OBVIOUS
    <3>1. q \in 1..Len(log) /\ q # k
      BY <1>1 DEF Of
    <3>2. Len(new) = IF AtQuota(log, inc.id) THEN Len(log) ELSE Len(log) + 1
      <4>1. ~(Len(log) >= MaxGlobal)
        BY <1>1, StatsAssumption
      <4> QED BY <4>1 DEF Shifted
    <3>3. IF AtQuota(log, inc.id) THEN k \in 1..Len(log) ELSE k = Len(log) + 1
      BY OfIsFinite DEF Shifted
    <3>4. CASE q < k
      BY <1>1, <3>1, <3>2, <3>3, <3>4 DEF Moved, Old
    <3>5. CASE ~(q < k)
      BY <1>1, <3>1, <3>2, <3>3, <3>5 DEF Moved, Old
    <3> QED BY <3>4, <3>5
  <2>2. \A q \in B : Moved(k, q) \in A
    <3> SUFFICES ASSUME NEW q \in B PROVE Moved(k, q) \in A
      OBVIOUS
    <3>1. q \in Of(log, i) /\ log[q].id = i
      BY DEF Of
    <3>2. Moved(k, q) \in 2..Len(new) /\ new[Moved(k, q)] = log[q]
      BY <2>1 DEF Shifted
    <3> QED BY <1>1, <3>1, <3>2 DEF Of
  <2>3. g \in [B -> A] /\ \A p, q \in B : g[p] = g[q] => p = q
    BY <2>1, <2>2
  <2>4. g \in Injection(B, A)
    BY <2>3 DEF Injection, IsInjective
  <2> QED BY <1>2, <2>4, FS_Injection
<1> QED BY <1>4, <1>5

\* The incident takes the place of one of its own, or is one more.
LEMMA ShiftKeepsQuotas ==
    ASSUME NEW log \in Seq(Incident), NEW inc \in Incident, Quotas(log),
           NEW new, NEW k \in 1..Len(log) + 1, Shifted(log, new, inc, k)
    PROVE  /\ Quotas(new)
           /\ Len(log) = MaxGlobal => Len(new) = MaxGlobal
           /\ Len(log) < MaxGlobal =>
                 \A i \in Ids : Cardinality(Of(log, i)) <= Cardinality(Of(new, i))
<1>1. /\ Len(log) \in Nat /\ Len(new) \in Nat /\ MaxGlobal \in Nat /\ MaxPerProxy \in Nat
      /\ Len(log) <= MaxGlobal /\ Len(new) >= 1 /\ Len(new) <= MaxGlobal
      /\ DOMAIN log = 1..Len(log) /\ DOMAIN new = 1..Len(new)
  BY LenProperties, StatsAssumption DEF Shifted, Quotas
<1>2. ASSUME NEW i \in Ids
      PROVE  /\ Cardinality(Of(new, i)) <= MaxPerProxy
             /\ Len(log) < MaxGlobal => Cardinality(Of(log, i)) <= Cardinality(Of(new, i))
  <2> DEFINE c == Cardinality(Of(log, i))
             d == Cardinality(Of(new, i))
             cRest == Cardinality(Of(log, i) \ {k})
             dRest == Cardinality(Of(new, i) \ {1})
  <2>1. /\ c \in Nat /\ d \in Nat /\ c <= MaxPerProxy
        /\ cRest = IF k \in Of(log, i) THEN c - 1 ELSE c
        /\ dRest = IF 1 \in Of(new, i) THEN d - 1 ELSE d
    BY OfIsFinite, FS_RemoveElement DEF Shifted, Quotas
  <2>2. dRest <= cRest /\ (Len(log) < MaxGlobal => cRest <= dRest)
    BY ShiftCounts
  <2>3. 1 \in Of(new, i) <=> i = inc.id
    <3>1. new[1] = inc
      BY DEF Shifted
    <3> QED BY <1>1, <3>1 DEF Of
  <2>4. k \in Of(log, i) <=> (i = inc.id /\ AtQuota(log, i))
    <3>1. CASE i = inc.id /\ AtQuota(log, i)
      BY <3>1 DEF Shifted
    <3>0. IF AtQuota(log, inc.id) THEN k \in Of(log, inc.id) ELSE k = Len(log) + 1
      BY DEF Shifted
    <3>2. CASE ~AtQuota(log, inc.id)
      BY <1>1, <3>0, <3>2 DEF Of
    <3>3. CASE AtQuota(log, inc.id) /\ i # inc.id
      BY <1>1, <3>0, <3>3 DEF Of
    <3> QED BY <3>1, <3>2, <3>3
  <2>5. AtQuota(log, i) <=> c >= MaxPerProxy
    BY DEF AtQuota
  <2> HIDE DEF c, d, cRest, dRest
  <2>6. d <= MaxPerProxy
    BY <1>1, <2>1, <2>2, <2>3, <2>4, <2>5
  <2>7. Len(log) < MaxGlobal => c <= d
    BY <1>1, <2>1, <2>2, <2>3, <2>4, <2>5
  <2> QED BY <2>6, <2>7 DEF c, d
<1>3. Len(log) = MaxGlobal => Len(new) = MaxGlobal
  <2>1. \/ Len(new) = MaxGlobal
        \/ Len(new) = Len(log) \/ Len(new) = Len(log) + 1
    BY DEF Shifted
  <2>2. \A a, b, g \in Nat : b <= g /\ a = g => b # a + 1
    OBVIOUS
  <2> QED BY <1>1, <2>1, <2>2, Zenon
<1> QED BY <1>1, <1>2, <1>3 DEF Quotas

\* The newest incident of another id stays the newest, unless the log is full.
LEMMA ShiftKeepsNewest ==
    ASSUME NEW log \in Seq(Incident), NEW inc \in Incident,
           NEW new, NEW k \in 1..Len(log) + 1, Shifted(log, new, inc, k),
           NEW i, i # inc.id, NEW at, HasNewest(log, i, at)
    PROVE  HasNewest(new, i, at) \/ Len(new) = MaxGlobal
<1> SUFFICES ASSUME Len(new) # MaxGlobal PROVE HasNewest(new, i, at)
  OBVIOUS
<1>1. /\ Len(log) \in Nat /\ Len(new) \in Nat
      /\ DOMAIN log = 1..Len(log) /\ DOMAIN new = 1..Len(new)
      /\ Len(new) = IF AtQuota(log, inc.id) THEN Len(log) ELSE Len(log) + 1
  BY LenProperties DEF Shifted
<1>2. IF AtQuota(log, inc.id)
      THEN k \in 1..Len(log) /\ log[k].id = inc.id
      ELSE k = Len(log) + 1
  BY <1>1 DEF Shifted, Of
<1>3. PICK q \in Of(log, i) : /\ \A j \in Of(log, i) : q <= j
                              /\ log[q].upAt = 0 /\ log[q].downAt = at
  BY DEF HasNewest
<1>4. q \in 1..Len(log) /\ q # k /\ log[q].id = i
  BY <1>1, <1>2, <1>3 DEF Of
<1>5. Moved(k, q) \in 2..Len(new) /\ Old(k, Moved(k, q)) = q
  <2>1. CASE q < k
    BY <1>1, <1>2, <1>4, <2>1 DEF Moved, Old
  <2>2. CASE ~(q < k)
    BY <1>1, <1>2, <1>4, <2>2 DEF Moved, Old
  <2> QED BY <2>1, <2>2
<1>6. new[Moved(k, q)] = log[q]
  BY <1>5 DEF Shifted
<1>7. Moved(k, q) \in Of(new, i)
  BY <1>1, <1>4, <1>5, <1>6 DEF Of
<1>8. ASSUME NEW p \in Of(new, i) PROVE Moved(k, q) <= p
  <2>1. p \in 1..Len(new) /\ new[p].id = i /\ new[1].id = inc.id
    BY <1>1 DEF Of, Shifted
  <2>2. p \in 2..Len(new)
    BY <1>1, <2>1
  <2>3. Old(k, p) \in 1..Len(log) /\ Old(k, p) # k /\ new[p] = log[Old(k, p)]
    BY <2>2 DEF Shifted
  <2>4. q <= Old(k, p)
    BY <1>1, <1>3, <2>1, <2>3 DEF Of
  <2> QED BY <1>1, <1>4, <2>2, <2>3, <2>4 DEF Moved, Old
<1> QED BY <1>3, <1>6, <1>7, <1>8 DEF HasNewest

-----------------------------------------------------------------------------
(* The operations of the StatsStore.                                       *)

EntryState == [down : BOOLEAN, downAt : Nat, total : Nat]

StoreTyped(m) ==
    /\ m = [stats |-> m.stats, log |-> m.log]
    /\ DOMAIN m.stats \subseteq Ids /\ \A i \in DOMAIN m.stats : m.stats[i] \in EntryState
    /\ m.log \in Seq(Incident) /\ Quotas(m.log)

\* CurrentOutageIsLogged of memory or file.
Logged(m) ==
    \A i \in DOMAIN m.stats :
        m.stats[i].down => Len(m.log) = MaxGlobal \/ HasNewest(m.log, i, m.stats[i].downAt)

StoreOK(m) == StoreTyped(m) /\ Logged(m)

\* What is counted for an id by the time t was down before t, and before the outage
\* that lasts.
Counted(e, t) == e.downAt <= t /\ e.total < (IF e.down THEN e.downAt ELSE t)

\* The history of every id in a is kept in b.
HistoryKept(a, b) ==
    Len(a) < MaxGlobal => \A j \in Ids : Cardinality(Of(a, j)) <= Cardinality(Of(b, j))

LEMMA AddIncidentEffect ==
    ASSUME NEW log \in Seq(Incident), Quotas(log), NEW i \in Ids, NEW now \in Nat
    PROVE  LET new == AddIncident(log, [id |-> i, downAt |-> now, upAt |-> 0])
           IN  /\ new \in Seq(Incident) /\ Quotas(new) /\ HistoryKept(log, new)
               /\ HasNewest(new, i, now)
               /\ Len(log) = MaxGlobal => Len(new) = MaxGlobal
               /\ \A j \in Ids \ {i}, at \in Nat :
                     HasNewest(log, j, at) => HasNewest(new, j,
                     at) \/ Len(new) = MaxGlobal
<1> DEFINE inc == [id |-> i, downAt |-> now, upAt |-> 0]
           new == AddIncident(log, inc)
<1>0. inc \in Incident /\ inc.id = i
  BY DEF Incident
<1>1. PICK k \in 1..Len(log) + 1 : Shifted(log, new, inc, k)
  BY <1>0, AddIncidentShifts
<1> HIDE DEF new
<1>2. /\ new \in Seq(Incident) /\ new[1] = inc /\ Len(new) \in Nat /\ Len(new) >= 1
      /\ DOMAIN new = 1..Len(new)
  BY <1>1, LenProperties, StatsAssumption DEF Shifted
<1>3. Quotas(new) /\ HistoryKept(log, new) /\ (Len(log) = MaxGlobal => Len(new) = MaxGlobal)
  BY <1>0, <1>1, ShiftKeepsQuotas DEF HistoryKept
<1>4. HasNewest(new, i, now)
  <2>1. 1 \in Of(new, i) /\ \A j \in Of(new, i) : 1 <= j
    BY <1>2 DEF Of
  <2> QED BY <1>2, <2>1 DEF HasNewest
<1>5. \A j \in Ids \ {i}, at \in Nat :
         HasNewest(log, j, at) => HasNewest(new, j, at) \/ Len(new) = MaxGlobal
  BY <1>0, <1>1, ShiftKeepsNewest
<1> QED BY <1>2, <1>3, <1>4, <1>5 DEF new

LEMMA CloseAllEffect ==
    ASSUME NEW log \in Seq(Incident), NEW i \in Ids, NEW now \in Nat
    PROVE  LET new == CloseAll(log, i, now)
           IN  /\ new \in Seq(Incident) /\ Len(new) = Len(log)
               /\ \A j : Of(new, j) = Of(log, j)
               /\ \A j \in Ids \ {i}, at \in Nat :
                     HasNewest(log, j, at) => HasNewest(new, j, at)
<1> DEFINE new == CloseAll(log, i, now)
<1>1. /\ Len(log) \in Nat /\ DOMAIN log = 1..Len(log)
      /\ \A k \in 1..Len(log) : log[k] \in Incident
  BY LenProperties, ElementOfSeq
<1>2. /\ new = [k \in 1..Len(log) |-> new[k]]
      /\ \A k \in 1..Len(log) : /\ new[k] \in Incident /\ new[k].id = log[k].id
                                /\ new[k].downAt = log[k].downAt
                                /\ log[k].id # i => new[k] = log[k]
  BY <1>1 DEF CloseAll, Of, Open, Incident
<1> HIDE DEF new
<1>3. new \in [1..Len(log) -> Incident]
  BY <1>2
<1>4. new \in Seq(Incident)
  BY <1>1, <1>3, SeqDef
<1>5. Len(new) = Len(log)
  BY <1>1, <1>3, <1>4, LenProperties
<1>6. \A j : Of(new, j) = Of(log, j)
  BY <1>1, <1>2, <1>3 DEF Of
<1>7. ASSUME NEW j \in Ids \ {i}, NEW at \in Nat, HasNewest(log, j, at)
      PROVE  HasNewest(new, j, at)
  BY <1>1, <1>2, <1>6, <1>7 DEF HasNewest, Of
<1> QED BY <1>4, <1>5, <1>6, <1>7 DEF new

LEMMA CheckedEffect ==
    ASSUME NEW m, StoreOK(m), NEW i \in Ids
    PROVE  LET n == Checked(m, i)
           IN  /\ StoreOK(n) /\ n.log = m.log
               /\ DOMAIN n.stats = DOMAIN m.stats \cup {i}
               /\ n.stats[i] = (IF i \in DOMAIN m.stats THEN m.stats[i] ELSE NewEntry)
               /\ \A j \in DOMAIN m.stats : n.stats[j] = m.stats[j]
<1> DEFINE n == Checked(m, i)
<1>1. n = [stats |-> Put(m.stats, i, Entry(m, i)), log |-> m.log]
  BY DEF Checked, WithEntry, StoreOK, StoreTyped
<1>2. Entry(m, i) = (IF i \in DOMAIN m.stats THEN m.stats[i] ELSE NewEntry)
      /\ Entry(m, i) \in EntryState /\ ~NewEntry.down
  BY DEF Entry, NewEntry, EntryState, StoreOK, StoreTyped
<1>3. /\ DOMAIN n.stats = DOMAIN m.stats \cup {i} /\ n.stats[i] = Entry(m, i)
      /\ \A j \in DOMAIN m.stats : n.stats[j] = m.stats[j]
      /\ n = [stats |-> n.stats, log |-> n.log] /\ n.log = m.log
  BY <1>1, <1>2 DEF Put
<1> HIDE DEF n
<1>4. StoreTyped(n)
  BY <1>2, <1>3 DEF StoreOK, StoreTyped
<1>5. Logged(n)
  BY <1>2, <1>3 DEF StoreOK, Logged
<1> QED BY <1>2, <1>3, <1>4, <1>5 DEF StoreOK, n

LEMMA RecordDownEffect ==
    ASSUME NEW m, StoreOK(m), NEW i \in DOMAIN m.stats, NEW now \in Nat,
           Counted(m.stats[i], now)
    PROVE  LET n == RecordDown(m, i, now)
           IN  /\ StoreOK(n) /\ HistoryKept(m.log, n.log)
               /\ DOMAIN n.stats = DOMAIN m.stats
               /\ Counted(n.stats[i], now)
               /\ \A j \in DOMAIN m.stats \ {i} : n.stats[j] = m.stats[j]
<1> DEFINE n == RecordDown(m, i, now)
           e == m.stats[i]
           new == AddIncident(m.log, [id |-> i, downAt |-> now, upAt |-> 0])
<1>1. /\ i \in Ids /\ e \in EntryState /\ Entry(m, i) = e
      /\ m.log \in Seq(Incident) /\ Quotas(m.log)
  BY DEF StoreOK, StoreTyped, Entry
<1>2. CASE e.down
  <2>1. n = m
    BY <1>1, <1>2 DEF RecordDown, IsDown
  <2>2. HistoryKept(m.log, m.log)
    BY <1>1, OfIsFinite DEF HistoryKept
  <2> QED BY <2>1, <2>2
<1>3. CASE ~e.down
  <2>1. /\ n.log = new /\ n = [stats |-> n.stats, log |-> n.log]
        /\ DOMAIN n.stats = DOMAIN m.stats
        /\ n.stats[i] = [down |-> TRUE, downAt |-> now, total |-> e.total]
        /\ \A j \in DOMAIN m.stats \ {i} : n.stats[j] = m.stats[j]
    <3>1. /\ n.log = new /\ n = [stats |-> n.stats, log |-> n.log]
          /\ n.stats = Put(m.stats, i, [e EXCEPT !.down = TRUE, !.downAt = now])
      BY <1>1, <1>3 DEF RecordDown, IsDown, WithEntry, StoreOK, StoreTyped
    <3> QED BY <1>1, <3>1 DEF Put, EntryState
  <2>2. /\ new \in Seq(Incident) /\ Quotas(new) /\ HistoryKept(m.log, new)
        /\ HasNewest(new, i, now)
        /\ Len(m.log) = MaxGlobal => Len(new) = MaxGlobal
        /\ \A j \in Ids \ {i}, at \in Nat :
              HasNewest(m.log, j, at) => HasNewest(new, j, at) \/ Len(new) = MaxGlobal
    BY <1>1, AddIncidentEffect
  <2> HIDE DEF n, new, e
  <2>3. StoreTyped(n)
    <3>1. n.stats[i] \in EntryState
      BY <1>1, <2>1 DEF EntryState
    <3>2. DOMAIN m.stats \subseteq Ids /\ \A j \in DOMAIN m.stats : m.stats[j] \in EntryState
      BY DEF StoreOK, StoreTyped
    <3>3. \A j \in DOMAIN n.stats : n.stats[j] \in EntryState
      BY <2>1, <3>1, <3>2
    <3> QED BY <2>1, <2>2, <3>2, <3>3 DEF StoreTyped
  <2>4. ASSUME NEW j \in DOMAIN n.stats, n.stats[j].down
        PROVE  Len(n.log) = MaxGlobal \/ HasNewest(n.log, j, n.stats[j].downAt)
    <3>1. CASE j = i
      BY <2>1, <2>2, <3>1
    <3>2. CASE j # i
      <4>1. j \in Ids /\ n.stats[j] = m.stats[j] /\ m.stats[j].downAt \in Nat
        BY <2>1, <3>2 DEF StoreOK, StoreTyped, EntryState
      <4>2. Len(m.log) = MaxGlobal \/ HasNewest(m.log, j, m.stats[j].downAt)
        BY <2>1, <2>4, <3>2, <4>1 DEF StoreOK, Logged
      <4> QED BY <2>1, <2>2, <3>2, <4>1, <4>2
    <3> QED BY <3>1, <3>2
  <2>5. Counted(n.stats[i], now)
    BY <1>1, <1>3, <2>1 DEF Counted, EntryState, e
  <2> QED BY <2>1, <2>2, <2>3, <2>4, <2>5 DEF StoreOK, Logged, n
<1> QED BY <1>2, <1>3

LEMMA RecordUpEffect ==
    ASSUME NEW m, StoreOK(m), NEW i \in DOMAIN m.stats, NEW now \in Nat,
           Counted(m.stats[i], now)
    PROVE  LET n == RecordUp(m, i, now)
           IN  /\ StoreOK(n) /\ HistoryKept(m.log, n.log)
               /\ DOMAIN n.stats = DOMAIN m.stats
               /\ Counted(n.stats[i], now)
               /\ \A j \in DOMAIN m.stats \ {i} : n.stats[j] = m.stats[j]
<1> DEFINE n == RecordUp(m, i, now)
           e == m.stats[i]
           new == CloseAll(m.log, i, now)
           total == e.total + Seconds(e.downAt, now)
<1>1. /\ i \in Ids /\ e \in EntryState /\ Entry(m, i) = e
      /\ m.log \in Seq(Incident) /\ Quotas(m.log)
  BY DEF StoreOK, StoreTyped, Entry
<1>2. CASE ~e.down
  <2>1. n = m
    BY <1>1, <1>2 DEF RecordUp, IsDown
  <2>2. HistoryKept(m.log, m.log)
    BY <1>1, OfIsFinite DEF HistoryKept
  <2> QED BY <2>1, <2>2
<1>3. CASE e.down
  <2>1. /\ n.log = new /\ n = [stats |-> n.stats, log |-> n.log]
        /\ DOMAIN n.stats = DOMAIN m.stats
        /\ n.stats[i] = [down |-> FALSE, downAt |-> 0, total |-> total]
        /\ \A j \in DOMAIN m.stats \ {i} : n.stats[j] = m.stats[j]
    <3>1. /\ n.log = new /\ n = [stats |-> n.stats, log |-> n.log]
          /\ n.stats = Put(m.stats, i, [down |-> FALSE, downAt |-> 0, total |-> total])
      BY <1>1, <1>3 DEF RecordUp, IsDown, WithEntry, StoreOK, StoreTyped
    <3> QED BY <1>1, <3>1 DEF Put
  <2>2. /\ new \in Seq(Incident) /\ Len(new) = Len(m.log)
        /\ \A j : Of(new, j) = Of(m.log, j)
        /\ \A j \in Ids \ {i}, at \in Nat : HasNewest(m.log, j, at) => HasNewest(new, j, at)
    BY <1>1, CloseAllEffect
  <2>3. total \in Nat /\ total < now
    BY <1>1, <1>3 DEF Counted, EntryState, Seconds
  <2> HIDE DEF n, new, e, total
  <2>4. Quotas(new) /\ HistoryKept(m.log, new)
    <3>1. \A j \in Ids : Cardinality(Of(m.log, j)) <= Cardinality(Of(new, j))
      BY <1>1, <2>2, OfIsFinite
    <3> QED BY <1>1, <2>2, <3>1 DEF Quotas, HistoryKept
  <2>5. StoreTyped(n)
    <3>1. n.stats[i] \in EntryState
      BY <2>1, <2>3 DEF EntryState
    <3>2. DOMAIN m.stats \subseteq Ids /\ \A j \in DOMAIN m.stats : m.stats[j] \in EntryState
      BY DEF StoreOK, StoreTyped
    <3>3. \A j \in DOMAIN n.stats : n.stats[j] \in EntryState
      BY <2>1, <3>1, <3>2
    <3> QED BY <2>1, <2>2, <2>4, <3>2, <3>3 DEF StoreTyped
  <2>6. ASSUME NEW j \in DOMAIN n.stats, n.stats[j].down
        PROVE  Len(n.log) = MaxGlobal \/ HasNewest(n.log, j, n.stats[j].downAt)
    <3>1. j # i
      BY <2>1, <2>6
    <3>2. j \in Ids /\ n.stats[j] = m.stats[j] /\ m.stats[j].downAt \in Nat
      BY <2>1, <3>1 DEF StoreOK, StoreTyped, EntryState
    <3>3. Len(m.log) = MaxGlobal \/ HasNewest(m.log, j, m.stats[j].downAt)
      BY <2>1, <2>6, <3>1, <3>2 DEF StoreOK, Logged
    <3> QED BY <2>1, <2>2, <3>1, <3>2, <3>3
  <2>7. Counted(n.stats[i], now)
    BY <2>1, <2>3 DEF Counted
  <2> QED BY <2>1, <2>2, <2>4, <2>5, <2>6, <2>7 DEF StoreOK, Logged, n
<1> QED BY <1>2, <1>3

LEMMA PruneEffect ==
    ASSUME NEW m, StoreOK(m), NEW S
    PROVE  LET n == PruneInactive(m, S)
           IN  /\ StoreOK(n) /\ n.log = m.log
               /\ DOMAIN n.stats \subseteq DOMAIN m.stats
               /\ \A j \in DOMAIN n.stats : n.stats[j] = m.stats[j]
<1> DEFINE n == PruneInactive(m, S)
<1>1. CASE S = {}
  BY <1>1 DEF PruneInactive
<1>2. CASE S # {}
  <2>1. /\ n = [stats |-> n.stats, log |-> n.log] /\ n.log = m.log
        /\ DOMAIN n.stats \subseteq DOMAIN m.stats
        /\ \A j \in DOMAIN n.stats : n.stats[j] = m.stats[j]
    BY <1>2 DEF PruneInactive, StoreOK, StoreTyped
  <2> HIDE DEF n
  <2>2. StoreTyped(n)
    BY <2>1 DEF StoreOK, StoreTyped
  <2>3. Logged(n)
    BY <2>1 DEF StoreOK, Logged
  <2> QED BY <2>1, <2>2, <2>3 DEF StoreOK, n
<1> QED BY <1>1, <1>2

-----------------------------------------------------------------------------
(* The inductive invariant.                                                *)

\* A running pass knows the time it began.
PassesTyped ==
    /\ clock \in Nat \ {0}
    /\ last = [w \in Passes |-> last[w]] /\ pass = [w \in Passes |-> pass[w]]
    /\ \A w \in Passes :
          /\ DOMAIN last[w] \subseteq IdsOf(w)
          /\ pass[w] \in [busy : BOOLEAN, now : Nat, seen : SUBSET IdsOf(w)]
          /\ pass[w].busy => pass[w].now \in 1..clock

\* The time up to which the ids of w have been observed at most.
Horizon(w) == IF pass[w].busy THEN pass[w].now ELSE clock

\* Nothing is counted beyond the time of the pass that will observe it next; the file
\* is read when none is running.
CountedOnce ==
    /\ \A w \in Passes, i \in Ids :
          i \in IdsOf(w) \cap DOMAIN mem.stats => Counted(mem.stats[i], Horizon(w))
    /\ \A i \in DOMAIN disk.stats : Counted(disk.stats[i], clock)

LogInv == PassesTyped /\ StoreOK(mem) /\ StoreOK(disk) /\ CountedOnce

LEMMA LogInvInit == LogInit => LogInv
<1> SUFFICES ASSUME LogInit PROVE LogInv
  OBVIOUS
<1>1. PassesTyped
  BY DEF LogInit, PassesTyped, NoView, NoPass
<1>2. EmptyStore.log = <<>> /\ DOMAIN EmptyStore.stats = {}
      /\ EmptyStore = [stats |-> EmptyStore.stats, log |-> EmptyStore.log]
  BY DEF EmptyStore, NoStats
<1>3. <<>> \in Seq(Incident) /\ Quotas(<<>>)
  <2>1. \A i : Of(<<>>, i) = {}
    BY DEF Of
  <2>2. \A i : Cardinality(Of(<<>>, i)) = 0
    BY <2>1, FS_EmptySet
  <2>3. Len(<<>>) = 0 /\ 0 <= MaxGlobal /\ 0 <= MaxPerProxy
    BY StatsAssumption
  <2>4. <<>> \in Seq(Incident)
    BY EmptySeq
  <2> QED BY <2>2, <2>3, <2>4 DEF Quotas
<1>4. StoreOK(EmptyStore)
  BY <1>2, <1>3 DEF StoreOK, StoreTyped, Logged
<1>5. CountedOnce
  BY <1>2 DEF LogInit, CountedOnce
<1> QED BY <1>1, <1>4, <1>5 DEF LogInit, LogInv

\* An id belongs to one of the two passes.
LEMMA OnePass ==
    /\ \A i \in Ids : \E w \in Passes : i \in IdsOf(w)
    /\ \A w \in Passes : IdsOf(w) \subseteq Ids
    /\ \A v, w \in Passes : v # w => IdsOf(v) \cap IdsOf(w) = {}
BY LogAssumption DEF Passes, IdsOf, Ids

LEMMA CountedLater ==
    ASSUME NEW e \in EntryState, NEW t \in Nat, NEW u \in Nat, t <= u, Counted(e, t)
    PROVE  Counted(e, u)
BY DEF Counted, EntryState

\* An entry of the statistics is counted up to the clock, wherever the passes are.
LEMMA MemCounted ==
    ASSUME LogInv, NEW i \in DOMAIN mem.stats
    PROVE  i \in Ids /\ mem.stats[i] \in EntryState /\ Counted(mem.stats[i], clock)
<1>1. i \in Ids /\ mem.stats[i] \in EntryState
  BY DEF LogInv, StoreOK, StoreTyped
<1>2. PICK w \in Passes : i \in IdsOf(w)
  BY <1>1, OnePass
<1>3. Counted(mem.stats[i], Horizon(w))
  BY <1>1, <1>2 DEF LogInv, CountedOnce
<1>4. clock \in Nat /\ Horizon(w) \in Nat /\ Horizon(w) <= clock
  BY <1>2 DEF LogInv, PassesTyped, Horizon
<1> QED BY <1>1, <1>3, <1>4, CountedLater

-----------------------------------------------------------------------------
(* Every action.                                                           *)

\* What one element of a pass does to the statistics.
LEMMA ObserveEffect ==
    ASSUME LogInv, NEW w \in Passes, NEW i \in IdsOf(w), NEW up \in BOOLEAN, Observe(w, i, up)
    PROVE  /\ StoreOK(mem') /\ HistoryKept(mem.log, mem'.log)
           /\ DOMAIN mem'.stats = DOMAIN mem.stats \cup {i}
           /\ Counted(mem'.stats[i], pass[w].now)
           /\ \A j \in DOMAIN mem.stats \ {i} : mem'.stats[j] = mem.stats[j]
<1> DEFINE now == pass[w].now
           n == Checked(mem, i)
<1>1. i \in Ids /\ StoreOK(mem) /\ now \in Nat /\ now >= 1 /\ Horizon(w) = now
  BY OnePass DEF LogInv, PassesTyped, Observe, Horizon
<1>2. /\ StoreOK(n) /\ n.log = mem.log
      /\ DOMAIN n.stats = DOMAIN mem.stats \cup {i}
      /\ n.stats[i] = (IF i \in DOMAIN mem.stats THEN mem.stats[i] ELSE NewEntry)
      /\ \A j \in DOMAIN mem.stats : n.stats[j] = mem.stats[j]
  BY <1>1, CheckedEffect
<1> HIDE DEF n, now
<1>3. Counted(n.stats[i], now)
  <2>1. CASE i \in DOMAIN mem.stats
    BY <1>1, <1>2, <2>1 DEF LogInv, CountedOnce
  <2>2. CASE i \notin DOMAIN mem.stats
    BY <1>1, <1>2, <2>2 DEF NewEntry, Counted
  <2> QED BY <2>1, <2>2
<1>4. mem' = n \/ mem' = RecordUp(n, i, now) \/ mem' = RecordDown(n, i, now)
  BY DEF Observe, Record, n, now
<1>5. i \in DOMAIN n.stats
  BY <1>2
<1> DEFINE Good(r) ==
             /\ StoreOK(r) /\ HistoryKept(mem.log, r.log)
             /\ DOMAIN r.stats = DOMAIN mem.stats \cup {i}
             /\ Counted(r.stats[i], now)
             /\ \A j \in DOMAIN mem.stats \ {i} : r.stats[j] = mem.stats[j]
<1>6. Good(n)
  <2>1. HistoryKept(n.log, n.log)
    BY <1>2, OfIsFinite DEF HistoryKept, StoreOK, StoreTyped
  <2> QED BY <1>2, <1>3, <2>1
<1>7. Good(RecordUp(n, i, now))
  <2> DEFINE r == RecordUp(n, i, now)
  <2>1. /\ StoreOK(r) /\ HistoryKept(n.log, r.log)
        /\ DOMAIN r.stats = DOMAIN n.stats
        /\ Counted(r.stats[i], now)
        /\ \A j \in DOMAIN n.stats \ {i} : r.stats[j] = n.stats[j]
    BY <1>1, <1>2, <1>3, <1>5, RecordUpEffect
  <2> HIDE DEF r
  <2> QED BY <1>2, <2>1 DEF r
<1>8. Good(RecordDown(n, i, now))
  <2> DEFINE r == RecordDown(n, i, now)
  <2>1. /\ StoreOK(r) /\ HistoryKept(n.log, r.log)
        /\ DOMAIN r.stats = DOMAIN n.stats
        /\ Counted(r.stats[i], now)
        /\ \A j \in DOMAIN n.stats \ {i} : r.stats[j] = n.stats[j]
    BY <1>1, <1>2, <1>3, <1>5, RecordDownEffect
  <2> HIDE DEF r
  <2> QED BY <1>2, <2>1 DEF r
<1> HIDE DEF Good
<1>9. Good(mem')
  BY <1>4, <1>6, <1>7, <1>8
<1> QED BY <1>9 DEF Good, now

LEMMA ObserveNext ==
    ASSUME LogInv, NEW w \in Passes, NEW i \in IdsOf(w), NEW up \in BOOLEAN, Observe(w, i, up)
    PROVE  LogInv'
<1>1. /\ StoreOK(mem') /\ DOMAIN mem'.stats = DOMAIN mem.stats \cup {i}
      /\ Counted(mem'.stats[i], pass[w].now)
      /\ \A j \in DOMAIN mem.stats \ {i} : mem'.stats[j] = mem.stats[j]
  BY ObserveEffect
<1>2. /\ clock' = clock /\ clock \in Nat \ {0}
      /\ pass' = [pass EXCEPT ![w].seen = pass[w].seen \cup {i}]
      /\ last' = [last EXCEPT ![w] = Put(last[w], i, up)]
      /\ disk' = mem' \/ disk' = disk
  BY DEF LogInv, PassesTyped, Observe, Saved
<1>3. PassesTyped'
  <2>1. last' = [v \in Passes |-> last'[v]] /\ pass' = [v \in Passes |-> pass'[v]]
    BY <1>2 DEF LogInv, PassesTyped
  <2>2. ASSUME NEW v \in Passes
        PROVE  /\ DOMAIN last'[v] \subseteq IdsOf(v)
               /\ pass'[v] \in [busy : BOOLEAN, now : Nat, seen : SUBSET IdsOf(v)]
               /\ pass'[v].busy => pass'[v].now \in 1..clock
    <3>1. CASE v = w
      BY <1>2, <3>1 DEF LogInv, PassesTyped, Put
    <3>2. CASE v # w
      BY <1>2, <3>2 DEF LogInv, PassesTyped
    <3> QED BY <3>1, <3>2
  <2> QED BY <1>2, <2>1, <2>2 DEF PassesTyped
<1>4. \A v \in Passes : Horizon(v)' = Horizon(v)
  BY <1>2 DEF LogInv, PassesTyped, Horizon
<1>5. /\ w \in Passes /\ pass[w].busy /\ pass[w].now \in Nat /\ pass[w].now <= clock
      /\ Horizon(w) = pass[w].now
  BY <1>2 DEF LogInv, PassesTyped, Observe, Horizon
<1>6. ASSUME NEW v \in Passes, NEW j \in IdsOf(v) \cap DOMAIN mem'.stats
      PROVE  Counted(mem'.stats[j], Horizon(v))
  <2>1. CASE j = i
    BY <1>1, <1>5, <2>1, OnePass
  <2>2. CASE j # i
    BY <1>1, <1>6, <2>2, OnePass DEF LogInv, CountedOnce
  <2> QED BY <2>1, <2>2
<1>7. ASSUME NEW j \in DOMAIN mem'.stats PROVE Counted(mem'.stats[j], clock)
  <2>1. CASE j = i
    <3>1. mem'.stats[i] \in EntryState
      BY <1>1 DEF StoreOK, StoreTyped
    <3> QED BY <1>1, <1>2, <1>5, <2>1, <3>1, CountedLater
  <2>2. CASE j # i
    BY <1>1, <2>2, MemCounted
  <2> QED BY <2>1, <2>2
<1>8. CountedOnce'
  BY <1>2, <1>4, <1>6, <1>7 DEF LogInv, CountedOnce
<1> QED BY <1>1, <1>2, <1>3, <1>8 DEF LogInv

\* A pass begins when the clock shows what everything is counted up to.
LEMMA BeginNext ==
    ASSUME LogInv, NEW w \in Passes, Begin(w)
    PROVE  LogInv'
<1>1. /\ clock' = clock /\ mem' = mem /\ disk' = disk /\ last' = last
      /\ pass' = [pass EXCEPT ![w] = [busy |-> TRUE, now |-> clock, seen |-> {}]]
      /\ ~pass[w].busy /\ clock \in Nat \ {0}
  BY DEF LogInv, PassesTyped, Begin
<1>2. PassesTyped'
  <2>1. last' = [v \in Passes |-> last'[v]] /\ pass' = [v \in Passes |-> pass'[v]]
    BY <1>1 DEF LogInv, PassesTyped
  <2>2. ASSUME NEW v \in Passes
        PROVE  /\ DOMAIN last'[v] \subseteq IdsOf(v)
               /\ pass'[v] \in [busy : BOOLEAN, now : Nat, seen : SUBSET IdsOf(v)]
               /\ pass'[v].busy => pass'[v].now \in 1..clock
    <3>1. CASE v = w
      BY <1>1, <3>1 DEF LogInv, PassesTyped
    <3>2. CASE v # w
      BY <1>1, <3>2 DEF LogInv, PassesTyped
    <3> QED BY <3>1, <3>2
  <2> QED BY <1>1, <2>1, <2>2 DEF PassesTyped
<1>3. \A v \in Passes : Horizon(v)' = Horizon(v)
  BY <1>1 DEF LogInv, PassesTyped, Horizon
<1>4. CountedOnce'
  BY <1>1, <1>3 DEF LogInv, CountedOnce
<1> QED BY <1>1, <1>2, <1>4 DEF LogInv

\* The end of a pass leaves only entries that were there.
LEMMA ForgetNext ==
    ASSUME LogInv, NEW w \in Passes, Forget(w), StoreOK(mem'),
           DOMAIN mem'.stats \subseteq DOMAIN mem.stats,
           \A j \in DOMAIN mem'.stats : mem'.stats[j] = mem.stats[j]
    PROVE  LogInv'
<1>1. /\ clock' = clock /\ disk' = disk /\ clock \in Nat \ {0}
      /\ pass' = [pass EXCEPT ![w] = NoPass]
      /\ last' = [last EXCEPT ![w] = [i \in DOMAIN last[w] \cap pass[w].seen |-> last[w][i]]]
  BY DEF LogInv, PassesTyped, Forget
<1>2. PassesTyped'
  <2>1. last' = [v \in Passes |-> last'[v]] /\ pass' = [v \in Passes |-> pass'[v]]
    BY <1>1 DEF LogInv, PassesTyped
  <2>2. ASSUME NEW v \in Passes
        PROVE  /\ DOMAIN last'[v] \subseteq IdsOf(v)
               /\ pass'[v] \in [busy : BOOLEAN, now : Nat, seen : SUBSET IdsOf(v)]
               /\ pass'[v].busy => pass'[v].now \in 1..clock
    <3>1. CASE v = w
      BY <1>1, <3>1 DEF LogInv, PassesTyped, NoPass
    <3>2. CASE v # w
      BY <1>1, <3>2 DEF LogInv, PassesTyped
    <3> QED BY <3>1, <3>2
  <2> QED BY <1>1, <2>1, <2>2 DEF PassesTyped
<1>3. \A v \in Passes : Horizon(v)' = IF v = w THEN clock ELSE Horizon(v)
  BY <1>1 DEF LogInv, PassesTyped, Horizon, NoPass
<1>4. ASSUME NEW v \in Passes, NEW j \in IdsOf(v) \cap DOMAIN mem'.stats
      PROVE  Counted(mem'.stats[j], Horizon(v)')
  <2>1. CASE v = w
    BY <1>3, <1>4, <2>1, MemCounted
  <2>2. CASE v # w
    BY <1>3, <1>4, <2>2, OnePass DEF LogInv, CountedOnce
  <2> QED BY <2>1, <2>2
<1>5. CountedOnce'
  BY <1>1, <1>4 DEF LogInv, CountedOnce
<1> QED BY <1>1, <1>2, <1>5 DEF LogInv

\* With the clock, horizons only move on.
LEMMA TickNext ==
    ASSUME LogInv, Tick
    PROVE  LogInv'
<1>1. /\ clock' = clock + 1 /\ clock \in Nat \ {0} /\ mem' = mem /\ disk' = disk
      /\ last' = last /\ pass' = pass
  BY DEF LogInv, PassesTyped, Tick
<1>2. PassesTyped'
  BY <1>1 DEF LogInv, PassesTyped
<1>3. ASSUME NEW v \in Passes, NEW i \in Ids, i \in IdsOf(v) \cap DOMAIN mem.stats
      PROVE  Counted(mem.stats[i], Horizon(v)')
  <2>1. Counted(mem.stats[i], Horizon(v)) /\ mem.stats[i] \in EntryState
    BY <1>3 DEF LogInv, CountedOnce, StoreOK, StoreTyped
  <2>2. Horizon(v) \in Nat /\ Horizon(v)' \in Nat /\ Horizon(v) <= Horizon(v)'
    BY <1>1 DEF LogInv, PassesTyped, Horizon
  <2> QED BY <2>1, <2>2, CountedLater
<1>4. ASSUME NEW i \in DOMAIN disk.stats PROVE Counted(disk.stats[i], clock')
  <2>1. Counted(disk.stats[i], clock) /\ disk.stats[i] \in EntryState
    BY DEF LogInv, CountedOnce, StoreOK, StoreTyped
  <2> QED BY <1>1, <2>1, CountedLater
<1>5. CountedOnce'
  BY <1>1, <1>3, <1>4 DEF CountedOnce
<1> QED BY <1>1, <1>2, <1>5 DEF LogInv

\* The file may be older than the passes of the process it is read by.
LEMMA RestartNext ==
    ASSUME LogInv, Restart
    PROVE  LogInv'
<1>1. /\ clock' = clock /\ clock \in Nat \ {0} /\ mem' = disk /\ disk' = disk
      /\ last' = [w \in Passes |-> NoView] /\ pass' = [w \in Passes |-> NoPass]
  BY DEF LogInv, PassesTyped, Restart
<1>2. PassesTyped'
  BY <1>1 DEF PassesTyped, NoView, NoPass
<1>3. \A v \in Passes : Horizon(v)' = clock
  BY <1>1 DEF Horizon, NoPass
<1>4. CountedOnce'
  BY <1>1, <1>3 DEF LogInv, CountedOnce
<1> QED BY <1>1, <1>2, <1>4 DEF LogInv

LEMMA LogInvNext == LogInv /\ [LogNext]_logVars => LogInv'
<1> SUFFICES ASSUME LogInv, [LogNext]_logVars PROVE LogInv'
  OBVIOUS
<1>1. ASSUME NEW w \in Passes, Begin(w) PROVE LogInv'
  BY <1>1, BeginNext
<1>2. ASSUME NEW w \in Passes, NEW i \in IdsOf(w), NEW up \in BOOLEAN, Observe(w, i, up)
      PROVE  LogInv'
  BY <1>2, ObserveNext
<1>3. CASE EndSnapshot
  <2>1. Forget("snapshot") /\ "snapshot" \in Passes
    BY <1>3 DEF EndSnapshot, Passes
  <2>2. mem' = mem \/ mem' = PruneInactive(mem, pass["snapshot"].seen)
    BY <1>3 DEF EndSnapshot
  <2>3. CASE mem' = mem
    BY <2>1, <2>3, ForgetNext DEF LogInv
  <2>4. CASE mem' = PruneInactive(mem, pass["snapshot"].seen)
    <3>1. /\ StoreOK(mem') /\ DOMAIN mem'.stats \subseteq DOMAIN mem.stats
          /\ \A j \in DOMAIN mem'.stats : mem'.stats[j] = mem.stats[j]
      BY <2>4, PruneEffect DEF LogInv
    <3> QED BY <2>1, <3>1, ForgetNext
  <2> QED BY <2>2, <2>3, <2>4
<1>4. CASE EndHealth
  <2>1. Forget("health") /\ "health" \in Passes /\ mem' = mem
    BY <1>4 DEF EndHealth, Passes
  <2> QED BY <2>1, ForgetNext DEF LogInv
<1>5. CASE Tick
  BY <1>5, TickNext
<1>6. CASE Save
  <2>1. /\ disk' = mem /\ mem' = mem /\ clock' = clock /\ last' = last /\ pass' = pass
    BY <1>6 DEF Save
  <2>2. \A v \in Passes : Horizon(v)' = Horizon(v)
    BY <2>1 DEF Horizon
  <2>3. CountedOnce'
    BY <2>1, <2>2, MemCounted DEF LogInv, CountedOnce
  <2> QED BY <2>1, <2>3 DEF LogInv, PassesTyped
<1>7. CASE Restart
  BY <1>7, RestartNext
<1>8. CASE UNCHANGED logVars
  BY <1>8 DEF logVars, LogInv, PassesTyped, CountedOnce, Horizon
<1> QED BY <1>1, <1>2, <1>3, <1>4, <1>5, <1>6, <1>7, <1>8 DEF LogNext

-----------------------------------------------------------------------------
(* The theorems.                                                           *)

LEMMA StartsAreCounted == LogSpec => [](starts \in Nat)
<1>1. LogInit => starts \in Nat
  BY DEF LogInit
<1>2. starts \in Nat /\ [LogNext]_logVars => (starts \in Nat)'
  BY DEF LogNext, Begin, Observe, EndSnapshot, EndHealth, Forget, Tick, Save, Restart,
     logVars
<1> QED BY <1>1, <1>2, PTL DEF LogSpec

THEOREM LogInvariant == LogSpec => []LogInv
<1> QED BY LogInvInit, LogInvNext, PTL DEF LogSpec

\* Types, the quota of every id and the size of the log (addIncident).
THEOREM LogTypeCorrect == LogSpec => []LogTypeOK
<1>1. LogInv => LogTypeOK
  <2> SUFFICES ASSUME LogInv PROVE LogTypeOK
    OBVIOUS
  <2>1. \A i \in DOMAIN mem.stats : mem.stats[i].downAt <= clock /\ mem.stats[i].total \in Nat
    BY MemCounted DEF Counted, EntryState
  <2> QED BY <2>1 DEF LogInv, PassesTyped, StoreOK, StoreTyped, Quotas, LogTypeOK
<1> QED BY <1>1, LogInvariant, PTL

\* The outage being counted is the newest, open incident of its id, unless the log is
\* full (stats.go, RecordTransition and PruneInactive).
THEOREM OutageIsLogged == LogSpec => []CurrentOutageIsLogged
<1>1. LogInv => CurrentOutageIsLogged
  <2> SUFFICES ASSUME LogInv, NEW i \in DOMAIN mem.stats, mem.stats[i].down,
                      Len(mem.log) # MaxGlobal
               PROVE  /\ Open(mem.log, i) # {}
                      /\ Newest(mem.log, i).upAt = 0
                      /\ Newest(mem.log, i).downAt = mem.stats[i].downAt
    BY DEF CurrentOutageIsLogged
  <2>1. mem.log \in Seq(Incident) /\ HasNewest(mem.log, i, mem.stats[i].downAt)
    BY DEF LogInv, StoreOK, StoreTyped, Logged
  <2>2. PICK k \in Of(mem.log, i) : /\ \A j \in Of(mem.log, i) : k <= j
                                    /\ mem.log[k].upAt = 0
                                    /\ mem.log[k].downAt = mem.stats[i].downAt
    BY <2>1 DEF HasNewest
  <2>3. Of(mem.log, i) \subseteq Nat
    BY <2>1, OfIsFinite, LenProperties
  <2>4. Min(Of(mem.log, i)) = k
    <3>1. \A x \in Of(mem.log, i) : (\A y \in Of(mem.log, i) : x =< y) => x = k
      BY <2>2, <2>3
    <3> QED BY <2>2, <3>1 DEF Min
  <2> QED BY <2>2, <2>4 DEF Newest, Open
<1> QED BY <1>1, LogInvariant, PTL

\* No second of downtime is counted twice (RecordTransition, SyncOnlineState).
THEOREM DowntimeIsReal == LogSpec => []DowntimeFitsTheClock
<1>1. LogInv => DowntimeFitsTheClock
  <2> SUFFICES ASSUME LogInv, NEW i \in DOMAIN mem.stats
               PROVE  mem.stats[i].total
                        + (IF mem.stats[i].down THEN clock - mem.stats[i].downAt ELSE 0)
                           <= clock - 1
    BY DEF DowntimeFitsTheClock
  <2>1. mem.stats[i] \in EntryState /\ Counted(mem.stats[i], clock) /\ clock \in Nat
    BY MemCounted DEF LogInv, PassesTyped
  <2> QED BY <2>1 DEF EntryState, Counted
<1> QED BY <1>1, LogInvariant, PTL

\* While the log is not full, nobody's outages cost another id an incident (addIncident).
THEOREM HistoryIsKept == LogSpec => HistoryIsOwn
<1> DEFINE Kept == \A i \in Ids :
                      Cardinality(Of(mem'.log, i)) < Cardinality(Of(mem.log, i))
                         => starts' # starts \/ Len(mem.log) = MaxGlobal
<1>1. LogInv /\ starts \in Nat /\ [LogNext]_logVars => [Kept]_logVars
  <2> SUFFICES ASSUME LogInv, starts \in Nat, LogNext PROVE Kept
    OBVIOUS
  <2>1. \/ mem'.log = mem.log \/ HistoryKept(mem.log, mem'.log)
        \/ starts' # starts
    <3>1. ASSUME NEW w \in Passes, Begin(w) PROVE mem'.log = mem.log
      BY <3>1 DEF Begin
    <3>2. ASSUME NEW w \in Passes, NEW i \in IdsOf(w), NEW up \in BOOLEAN, Observe(w, i, up)
          PROVE  HistoryKept(mem.log, mem'.log)
      BY <3>2, ObserveEffect
    <3>3. CASE EndSnapshot
      BY <3>3, PruneEffect DEF EndSnapshot, LogInv
    <3>4. CASE EndHealth \/ Tick \/ Save
      BY <3>4 DEF EndHealth, Tick, Save
    <3>5. CASE Restart
      BY <3>5 DEF Restart
    <3> QED BY <3>1, <3>2, <3>3, <3>4, <3>5 DEF LogNext
  <2>2. mem.log \in Seq(Incident) /\ Len(mem.log) <= MaxGlobal
    BY DEF LogInv, StoreOK, StoreTyped, Quotas
  <2>3. mem'.log \in Seq(Incident)
    BY LogInvNext DEF LogInv, StoreOK, StoreTyped
  <2> SUFFICES ASSUME NEW i \in Ids,
                      Cardinality(Of(mem'.log, i)) < Cardinality(Of(mem.log, i)),
                      starts' = starts, Len(mem.log) # MaxGlobal
               PROVE  FALSE
    OBVIOUS
  <2>4. Cardinality(Of(mem.log, i)) \in Nat /\ Cardinality(Of(mem'.log, i)) \in Nat
    BY <2>2, <2>3, OfIsFinite
  <2>5. Len(mem.log) < MaxGlobal
    BY <2>2, LenProperties, StatsAssumption
  <2>6. CASE mem'.log = mem.log
    BY <2>4, <2>6
  <2>7. CASE HistoryKept(mem.log, mem'.log)
    <3>1. Cardinality(Of(mem.log, i)) <= Cardinality(Of(mem'.log, i))
      BY <2>5, <2>7 DEF HistoryKept
    <3> QED BY <2>4, <3>1
  <2> QED BY <2>1, <2>6, <2>7
<1> QED BY <1>1, LogInvariant, StartsAreCounted, PTL DEF LogSpec, HistoryIsOwn
=============================================================================
