------------------------- MODULE NodeReports_proofs -------------------------
(***************************************************************************)
(* Proofs that the safety properties of NodeReports hold for any number of *)
(* goroutines, hosts and chats and however many restarts and changes.      *)
(***************************************************************************)
EXTENDS NodeReports, SmallSets, TLAPS

Views == UNION {[D -> BOOLEAN] : D \in SUBSET Hosts}
ActorState ==
    [pc : {"idle", "start", "read", "audits", "alert", "send", "track", "take"},
     up : BOOLEAN, view : Views, loud : BOOLEAN, todo : SUBSET Keys,
     cur : Keys \cup {<<>>}, mid : Mids \cup {NoMid}]

Holding(a) == act[a].mid # NoMid
Distinct(f) == \A i, j \in DOMAIN f : f[i] = f[j] => i = j

(***************************************************************************)
(* The inductive invariant.                                                *)
(***************************************************************************)

\* Types of the state.
ReportsTyped ==
    /\ loud \in BOOLEAN /\ results \in Views
    /\ status \in {"pending", "up", "down"} /\ known \in {"unknown", "up", "down"}
    /\ stored \in Views
    /\ DOMAIN alerts \subseteq Keys /\ alerts \in [DOMAIN alerts -> Mids]
    /\ DOMAIN disk \subseteq Keys /\ disk \in [DOMAIN disk -> Mids]
    /\ DOMAIN red \subseteq Mids /\ stale \subseteq Keys
    /\ act \in [Actors -> ActorState]

\* What a goroutine holds where it stands; the sweep ends before the alerts.
ActorRules ==
    /\ \A a \in Actors : Holding(a) <=> act[a].pc \in {"track", "take"}
    /\ \A a \in Actors : act[a].pc \in {"send", "track"} => act[a].cur \in Keys
    /\ act["sweep"].pc \in {"idle", "start", "read"}

\* A message belongs to one goroutine, or to one key in the tracker and to one in the
\* file; one that stands is of the key that the tracker, the file or the goroutine
\* about to track it has it under, and one of them refers to it.
OneOwnerEach ==
    /\ TrackedStands
    /\ Distinct(alerts) /\ Distinct(disk)
    /\ \A k \in DOMAIN disk : disk[k] \in DOMAIN red => red[disk[k]] = k
    /\ \A a \in Actors : act[a].pc = "track" =>
            act[a].mid \in DOMAIN red /\ red[act[a].mid] = act[a].cur
    /\ \A a, b \in Actors : a # b /\ Holding(a) => act[a].mid # act[b].mid
    /\ DOMAIN red \subseteq Referred

ReportsInv == ReportsTyped /\ ActorRules /\ OneOwnerEach

-----------------------------------------------------------------------------
(* A message id is left for every announcement.                            *)

\* No map lists more messages than there are keys.
LEMMA ListedIsSmall ==
    ASSUME NEW f, DOMAIN f \subseteq Keys
    PROVE  /\ IsFiniteSet(Listed(f)) /\ Cardinality(Listed(f)) \in Nat
           /\ Cardinality(Listed(f)) <= Cardinality(Keys)
<1> DEFINE g == [k \in DOMAIN f |-> f[k]]
<1>1. IsFiniteSet(Keys) /\ Cardinality(Keys) \in Nat
  BY ReportsAssumption, FS_Product, FS_CardinalityType DEF Keys
<1>2. /\ IsFiniteSet(DOMAIN f) /\ Cardinality(DOMAIN f) \in Nat
      /\ Cardinality(DOMAIN f) <= Cardinality(Keys)
  BY <1>1, FS_Subset, FS_CardinalityType
<1>3. g \in Surjection(DOMAIN f, Listed(f))
  BY DEF Surjection, Listed
<1>4. IsFiniteSet(Listed(f)) /\ Cardinality(Listed(f)) <= Cardinality(DOMAIN f)
  BY <1>2, <1>3, FS_Surjection
<1> QED BY <1>1, <1>2, <1>4, FS_CardinalityType

\* Goroutines that are about to send hold no message.
LEMMA HeldIsSmall ==
    ASSUME ReportsInv, NEW a \in Actors, act[a].pc = "send"
    PROVE  /\ IsFiniteSet(Held) /\ Cardinality(Held) \in Nat
           /\ Cardinality(Actors) \in Nat
           /\ Cardinality(Held) <= Cardinality(Actors) - 1
<1> DEFINE Others == Actors \ {a}
           Holder == [m \in Held |-> CHOOSE b \in Others : act[b].mid = m]
<1>1. IsFiniteSet(Actors) /\ Cardinality(Actors) \in Nat
  <2>1. IsFiniteSet(Callbacks \cup {"sweep"})
    BY ReportsAssumption, FS_AddElement
  <2>2. IsFiniteSet((Callbacks \cup {"sweep"}) \cup {"audit"})
    BY <2>1, FS_AddElement
  <2>3. Actors = (Callbacks \cup {"sweep"}) \cup {"audit"}
    BY DEF Actors
  <2> QED BY <2>2, <2>3, FS_CardinalityType
<1>2. IsFiniteSet(Others) /\ Cardinality(Others) = Cardinality(Actors) - 1
  BY <1>1, FS_RemoveElement
<1>3. act[a].mid = NoMid
  BY DEF ReportsInv, ActorRules, Holding
<1>4. \A m \in Held : Holder[m] \in Others /\ act[Holder[m]].mid = m
  BY <1>3 DEF Held
<1>5. Holder \in [Held -> Others] /\ \A m, n \in Held : Holder[m] = Holder[n] => m = n
  BY <1>4
<1>6. Holder \in Injection(Held, Others)
  BY <1>5 DEF Injection, IsInjective
<1> HIDE DEF Holder, Others
<1>7. IsFiniteSet(Held) /\ Cardinality(Held) <= Cardinality(Others)
  BY <1>2, <1>6, FS_Injection
<1> QED BY <1>1, <1>2, <1>7, FS_CardinalityType

\* So the tracker, its file and the goroutines together never refer to all of Mids.
LEMMA SomeMidIsFree ==
    ASSUME ReportsInv, NEW a \in Actors, act[a].pc = "send"
    PROVE  FreshMid \in Mids /\ FreshMid \notin Referred
<1> DEFINE A == Listed(alerts)
           D == Listed(disk)
<1>1. /\ IsFiniteSet(A) /\ Cardinality(A) \in Nat
      /\ Cardinality(A) <= Cardinality(Keys)
  BY ListedIsSmall DEF ReportsInv, ReportsTyped
<1>2. /\ IsFiniteSet(D) /\ Cardinality(D) \in Nat
      /\ Cardinality(D) <= Cardinality(Keys)
  BY ListedIsSmall DEF ReportsInv, ReportsTyped
<1>3. /\ IsFiniteSet(Held) /\ Cardinality(Held) \in Nat
      /\ Cardinality(Actors) \in Nat
      /\ Cardinality(Held) <= Cardinality(Actors) - 1
  BY HeldIsSmall
<1>4. Cardinality(Keys) \in Nat
  BY ReportsAssumption, FS_Product, FS_CardinalityType DEF Keys
<1> HIDE DEF A, D
<1>5. IsFiniteSet(A \cup D) /\ Cardinality(A \cup D) \in Nat
      /\ Cardinality(A \cup D) <= 2 * Cardinality(Keys)
  <2>1. IsFiniteSet(A \cap D) /\ Cardinality(A \cap D) \in Nat
    BY <1>1, FS_Subset, FS_CardinalityType
  <2>2. /\ IsFiniteSet(A \cup D)
        /\ Cardinality(A \cup D) = Cardinality(A) + Cardinality(D) - Cardinality(A \cap D)
    BY <1>1, <1>2, FS_Union
  <2>3. Cardinality(A \cup D) \in Nat
    BY <2>2, FS_CardinalityType
  <2> QED BY <1>1, <1>2, <1>4, <2>1, <2>2, <2>3
<1>6. IsFiniteSet((A \cup D) \cup Held)
      /\ Cardinality((A \cup D) \cup Held) <= 2 * Cardinality(Keys) + Cardinality(Actors) - 1
  <2>1. IsFiniteSet((A \cup D) \cap Held)
    BY <1>5, FS_Subset
  <2>2. Cardinality((A \cup D) \cap Held) \in Nat
    BY <2>1, FS_CardinalityType
  <2>3. /\ IsFiniteSet((A \cup D) \cup Held)
        /\ Cardinality((A \cup D) \cup Held)
             = Cardinality(A \cup D) + Cardinality(Held) - Cardinality((A \cup D) \cap Held)
    BY <1>3, <1>5, FS_Union
  <2> QED BY <1>3, <1>4, <1>5, <2>2, <2>3
<1>7. Referred = (A \cup D) \cup Held
  BY DEF Referred, A, D
<1>8. \E m \in Mids : m \notin Referred
  <2> SUFFICES ASSUME Mids \subseteq Referred PROVE FALSE
    OBVIOUS
  <2>1. IsFiniteSet(Referred)
        /\ Cardinality(Referred) <= 2 * Cardinality(Keys) + Cardinality(Actors) - 1
    BY <1>6, <1>7
  <2>2. IsFiniteSet(Mids) /\ Cardinality(Mids) <= Cardinality(Referred)
    BY <2>1, FS_Subset
  <2>3. Cardinality(Mids) \in Nat /\ Cardinality(Referred) \in Nat
    BY <2>1, <2>2, FS_CardinalityType
  <2> QED BY <1>3, <1>4, <2>1, <2>2, <2>3, ReportsAssumption
<1> QED BY <1>8 DEF FreshMid

-----------------------------------------------------------------------------
(* Steps that touch no message.                                            *)

\* The states the goroutine a may go to without touching a message.
Quiet(a, s) ==
    /\ s \in ActorState /\ s.mid = NoMid /\ s.pc \notin {"track", "take"}
    /\ s.pc = "send" => s.cur \in Keys
    /\ a = "sweep" => s.pc \in {"idle", "start", "read"}

\* The other variables stay typed.
RestTyped ==
    /\ loud \in BOOLEAN /\ results \in Views
    /\ status \in {"pending", "up", "down"} /\ known \in {"unknown", "up", "down"}
    /\ stored \in Views

LEMMA QuietStep ==
    ASSUME ReportsInv, RestTyped', UNCHANGED alertVars,
           NEW a \in Actors, NEW s, Quiet(a, s), ~Holding(a),
           act' = [act EXCEPT ![a] = s]
    PROVE  ReportsInv'
<1>1. ReportsTyped'
  BY DEF ReportsInv, ReportsTyped, RestTyped, Quiet, alertVars
<1>2. act'[a] = s /\ \A b \in Actors \ {a} : act'[b] = act[b]
  BY DEF ReportsInv, ReportsTyped
<1>3. Held' = Held
  BY <1>2 DEF Held, Quiet, Holding
<1>4. ActorRules'
  BY <1>2 DEF ReportsInv, ActorRules, Quiet, Holding
<1>5. OneOwnerEach'
  <2> USE <1>2, <1>3 DEF ReportsInv, OneOwnerEach, Quiet, Holding, alertVars
  <2>1. TrackedStands'
    BY DEF TrackedStands
  <2>2. /\ Distinct(alerts)' /\ Distinct(disk)'
        /\ \A k \in DOMAIN disk' : disk'[k] \in DOMAIN red' => red'[disk'[k]] = k
    BY DEF Distinct
  <2>3. \A b \in Actors : act'[b].pc = "track" =>
           act'[b].mid \in DOMAIN red' /\ red'[act'[b].mid] = act'[b].cur
    OBVIOUS
  <2>4. \A b, c \in Actors : b # c /\ Holding(b)' => act'[b].mid # act'[c].mid
    BY DEF ActorRules
  <2>5. (DOMAIN red \subseteq Referred)'
    BY DEF Referred, Listed
  <2> QED BY <2>1, <2>2, <2>3, <2>4, <2>5
<1> QED BY <1>1, <1>4, <1>5 DEF ReportsInv

\* A step that leaves the goroutines and the messages alone.
LEMMA WorldStep ==
    ASSUME ReportsInv, RestTyped', UNCHANGED <<alertVars, act>>
    PROVE  ReportsInv'
<1>1. ReportsTyped' /\ ActorRules'
  BY DEF ReportsInv, ReportsTyped, RestTyped, alertVars, ActorRules, Holding
<1>2. TrackedStands'
  BY DEF ReportsInv, OneOwnerEach, alertVars, TrackedStands, Held
<1>3. (DOMAIN red \subseteq Referred)'
  BY DEF ReportsInv, OneOwnerEach, alertVars, Referred, Listed, Held
<1>4. OneOwnerEach'
  BY <1>2, <1>3 DEF ReportsInv, OneOwnerEach, alertVars, Distinct, Holding
<1> QED BY <1>1, <1>4 DEF ReportsInv

LEMMA IdleTyped == Idle \in ActorState /\ Idle.mid = NoMid /\ Idle.pc = "idle" /\ NoMap \in Views
<1>1. NoMap \in Views
  <2>1. NoMap \in [{} -> BOOLEAN]
    BY DEF NoMap
  <2> QED BY <2>1 DEF Views
<1> QED BY <1>1 DEF Idle, ActorState

LEMMA IdleIsQuiet ==
    ASSUME NEW a, NEW pc, pc \in {"idle", "start"} \/ (a # "sweep" /\ pc = "audits")
    PROVE  Quiet(a, [Idle EXCEPT !.pc = pc])
BY IdleTyped DEF Quiet, Idle, ActorState

\* A goroutine's own steps between the messages.
LEMMA QuietActorStep ==
    ASSUME ReportsInv, NEW a \in Actors,
           \/ ReadHealth(a) \/ FoldHealth(a) \/ ReadAudits(a) \/ SendFails(a) \/ EndAlerts(a)
           \/ \E k \in Keys : SkipBlock(a, k) \/ StartSend(a, k)
    PROVE  ReportsInv'
<1> USE DEF ReportsInv, ReportsTyped
<1>1. act[a] \in ActorState
  OBVIOUS
<1>2. a = "sweep" => act[a].pc \in {"idle", "start", "read"}
  BY DEF ActorRules
<1>3. act[a].pc \notin {"track", "take"} => act[a].mid = NoMid
  BY DEF ActorRules, Holding
<1>4. CASE ReadHealth(a)
  <2> DEFINE s == [act[a] EXCEPT !.pc = "read", !.up = (status = "up")]
  <2>1. s \in ActorState
    BY <1>1 DEF ActorState
  <2>2. Quiet(a, s)
    BY <2>1, <1>1, <1>3, <1>4 DEF Quiet, ReadHealth, ActorState
  <2>3. RestTyped' /\ UNCHANGED alertVars
    BY <1>4 DEF ReadHealth, RestTyped, worldVars, healthVars
  <2>4. act' = [act EXCEPT ![a] = s]
    BY <1>4 DEF ReadHealth
  <2>5. ~Holding(a)
    BY <1>3, <1>4 DEF ReadHealth, Holding
  <2> QED BY <2>2, <2>3, <2>4, <2>5, QuietStep
<1>5. CASE FoldHealth(a)
  <2> DEFINE pc == IF a = "sweep" THEN "idle" ELSE "audits"
  <2>1. Quiet(a, [Idle EXCEPT !.pc = pc])
    BY IdleIsQuiet
  <2>2. RestTyped' /\ UNCHANGED alertVars
    BY <1>5 DEF FoldHealth, RestTyped, worldVars
  <2>3. act' = [act EXCEPT ![a] = [Idle EXCEPT !.pc = pc]]
    BY <1>5 DEF FoldHealth, Idle
  <2>4. ~Holding(a)
    BY <1>3, <1>5 DEF FoldHealth, Holding
  <2> QED BY <2>1, <2>2, <2>3, <2>4, QuietStep
<1>6. CASE ReadAudits(a)
  <2>1. RestTyped' /\ UNCHANGED alertVars /\ ~Holding(a) /\ a # "sweep"
    BY <1>2, <1>3, <1>6 DEF ReadAudits, RestTyped, worldVars, healthVars, Holding
  <2>2. CASE DOMAIN stored = {}
    <3>1. Quiet(a, [Idle EXCEPT !.pc = "idle"])
      BY IdleIsQuiet
    <3>2. act' = [act EXCEPT ![a] = [Idle EXCEPT !.pc = "idle"]]
      BY <1>6, <2>2 DEF ReadAudits, Idle
    <3> QED BY <2>1, <3>1, <3>2, QuietStep
  <2>3. CASE DOMAIN stored # {}
    <3> DEFINE s == [Idle EXCEPT !.pc = "alert", !.view = stored, !.loud = loud,
                                 !.todo = (DOMAIN stored) \X Chats]
    <3>1. DOMAIN stored \subseteq Hosts
      BY DEF Views
    <3>2. (DOMAIN stored) \X Chats \subseteq Keys
      BY <3>1 DEF Keys
    <3>3. Quiet(a, s)
      BY <2>1, <3>2 DEF Quiet, Idle, ActorState
    <3>4. act' = [act EXCEPT ![a] = s]
      BY <1>6, <2>3 DEF ReadAudits
    <3> QED BY <2>1, <3>3, <3>4, QuietStep
  <2> QED BY <2>2, <2>3
<1>7. CASE SendFails(a)
  <2> DEFINE s == [act[a] EXCEPT !.pc = "alert", !.cur = <<>>]
  <2>1. s \in ActorState
    BY <1>1 DEF ActorState
  <2>2. RestTyped' /\ UNCHANGED alertVars /\ ~Holding(a) /\ a # "sweep"
    BY <1>2, <1>3, <1>7 DEF SendFails, AlertStep, RestTyped, worldVars, healthVars,
       Holding
  <2>3. Quiet(a, s)
    BY <2>1, <2>2, <1>1 DEF Quiet, ActorState, Holding
  <2>4. act' = [act EXCEPT ![a] = s]
    BY <1>7 DEF SendFails
  <2> QED BY <2>2, <2>3, <2>4, QuietStep
<1>8. CASE EndAlerts(a)
  <2>1. Quiet(a, [Idle EXCEPT !.pc = "idle"])
    BY IdleIsQuiet
  <2>2. RestTyped' /\ UNCHANGED alertVars /\ ~Holding(a)
    BY <1>3, <1>8 DEF EndAlerts, AlertStep, RestTyped, worldVars, healthVars, Holding
  <2>3. act' = [act EXCEPT ![a] = [Idle EXCEPT !.pc = "idle"]]
    BY <1>8 DEF EndAlerts, Idle
  <2> QED BY <2>1, <2>2, <2>3, QuietStep
<1>9. ASSUME NEW k \in Keys, SkipBlock(a, k) PROVE ReportsInv'
  <2> DEFINE s == [act[a] EXCEPT !.todo = @ \ {k}]
  <2>1. s \in ActorState
    BY <1>1 DEF ActorState
  <2>2. RestTyped' /\ UNCHANGED alertVars /\ ~Holding(a) /\ a # "sweep"
    BY <1>2, <1>3, <1>9 DEF SkipBlock, AlertStep, RestTyped, worldVars, healthVars,
       Holding
  <2>3. Quiet(a, s)
    BY <2>1, <2>2, <1>1, <1>9 DEF Quiet, ActorState, Holding, SkipBlock
  <2>4. act' = [act EXCEPT ![a] = s]
    BY <1>9 DEF SkipBlock
  <2> QED BY <2>2, <2>3, <2>4, QuietStep
<1>10. ASSUME NEW k \in Keys, StartSend(a, k) PROVE ReportsInv'
  <2> DEFINE s == [act[a] EXCEPT !.pc = "send", !.todo = @ \ {k}, !.cur = k]
  <2>1. s \in ActorState
    BY <1>1 DEF ActorState
  <2>2. RestTyped' /\ UNCHANGED alertVars /\ ~Holding(a) /\ a # "sweep"
    BY <1>2, <1>3, <1>10 DEF StartSend, AlertStep, RestTyped, worldVars, healthVars,
       Holding
  <2>3. Quiet(a, s)
    BY <2>1, <2>2, <1>1 DEF Quiet, ActorState, Holding
  <2>4. act' = [act EXCEPT ![a] = s]
    BY <1>10 DEF StartSend
  <2> QED BY <2>2, <2>3, <2>4, QuietStep
<1> QED BY <1>4, <1>5, <1>6, <1>7, <1>8, <1>9, <1>10

\* Reports, the sweep and the master's audit begin.
LEMMA BeginStep ==
    ASSUME ReportsInv,
           \/ Sweep \/ \E h \in Hosts : AuditLocal(h)
           \/ \E c \in Callbacks : Report(c)
    PROVE  ReportsInv'
<1> USE DEF ReportsInv, ReportsTyped
<1>1. \A a \in Actors : act[a].pc = "idle" => ~Holding(a)
  BY DEF ActorRules
<1>2. CASE Sweep
  <2>1. RestTyped' /\ UNCHANGED alertVars /\ ~Holding("sweep") /\ "sweep" \in Actors
    BY <1>1, <1>2 DEF Sweep, RestTyped, worldVars, Actors
  <2>2. Quiet("sweep", [Idle EXCEPT !.pc = "start"])
    BY IdleIsQuiet
  <2> QED BY <1>2, <2>1, <2>2, QuietStep DEF Sweep
<1>3. ASSUME NEW h \in Hosts, AuditLocal(h) PROVE ReportsInv'
  <2> DEFINE s == [Idle EXCEPT !.pc = "alert", !.view = [x \in {h} |-> x \in blocked],
                               !.loud = loud, !.todo = {h} \X Chats]
  <2>1. RestTyped' /\ UNCHANGED alertVars /\ ~Holding("audit") /\ "audit" \in Actors
    BY <1>1, <1>3 DEF AuditLocal, RestTyped, worldVars, healthVars, Actors
  <2>2. [x \in {h} |-> x \in blocked] \in Views
    <3>1. [x \in {h} |-> x \in blocked] \in [{h} -> BOOLEAN] /\ {h} \in SUBSET Hosts
      OBVIOUS
    <3> QED BY <3>1 DEF Views
  <2>3. {h} \X Chats \subseteq Keys
    BY DEF Keys
  <2>4. Quiet("audit", s)
    BY <2>2, <2>3 DEF Quiet, Idle, ActorState
  <2>5. act' = [act EXCEPT !["audit"] = s]
    BY <1>3 DEF AuditLocal
  <2> QED BY <2>1, <2>4, <2>5, QuietStep
<1>4. ASSUME NEW c \in Callbacks, Report(c) PROVE ReportsInv'
  <2>1. RestTyped' /\ UNCHANGED alertVars /\ ~Holding(c) /\ c \in Actors
    BY <1>1, <1>4 DEF Report, RestTyped, worldVars, Actors
  <2>2. Quiet(c, [Idle EXCEPT !.pc = "start"])
    BY IdleIsQuiet
  <2> QED BY <1>4, <2>1, <2>2, QuietStep DEF Report
<1> QED BY <1>2, <1>3, <1>4

-----------------------------------------------------------------------------
(* Steps that take, give or remove a message.                              *)

\* A map that was changed by Put or Drop still maps into the set it did.
LEMMA MapTyped ==
    ASSUME NEW f, NEW T, f \in [DOMAIN f -> T], NEW S, NEW k, NEW v \in T
    PROVE  /\ Drop(f, S) \in [DOMAIN Drop(f, S) -> T]
           /\ Put(f, k, v) \in [DOMAIN Put(f, k, v) -> T]
BY DEF Drop, Put

\* What the goroutine a goes to, when the others stay where they are.
LEMMA ActorMoves ==
    ASSUME ReportsInv, NEW a \in Actors, NEW s \in ActorState, a # "sweep",
           s.mid # NoMid <=> s.pc \in {"track", "take"},
           s.pc \in {"send", "track"} => s.cur \in Keys,
           act' = [act EXCEPT ![a] = s]
    PROVE  /\ act' \in [Actors -> ActorState] /\ ActorRules'
           /\ act'[a] = s /\ \A b \in Actors \ {a} : act'[b] = act[b]
<1>1. /\ act' \in [Actors -> ActorState] /\ act'[a] = s
      /\ \A b \in Actors \ {a} : act'[b] = act[b]
  BY DEF ReportsInv, ReportsTyped
<1>2. ActorRules'
  BY <1>1 DEF ReportsInv, ActorRules, Holding
<1> QED BY <1>1, <1>2

\* What is held when only the goroutine a moves.
LEMMA HeldMoves ==
    ASSUME ReportsInv, NEW a \in Actors,
           \A b \in Actors \ {a} : act'[b] = act[b]
    PROVE  Held' = ((Held \ {act[a].mid}) \cup {act'[a].mid}) \ {NoMid}
<1>1. ASSUME NEW x \in Held' PROVE x \in ((Held \ {act[a].mid}) \cup {act'[a].mid}) \ {NoMid}
  <2>1. PICK b \in Actors : act'[b].mid = x /\ x # NoMid
    BY <1>1 DEF Held
  <2>2. CASE b = a
    BY <2>1, <2>2
  <2>3. CASE b # a
    <3>1. act[b].mid = x /\ x \in Held
      BY <2>1, <2>3 DEF Held
    <3>2. act[b].mid # act[a].mid
      BY <2>1, <2>3, <3>1 DEF ReportsInv, OneOwnerEach, Holding
    <3> QED BY <2>1, <3>1, <3>2
  <2> QED BY <2>2, <2>3
<1>2. ASSUME NEW x \in ((Held \ {act[a].mid}) \cup {act'[a].mid}) \ {NoMid} PROVE x \in Held'
  <2>1. CASE x = act'[a].mid
    BY <2>1 DEF Held
  <2>2. CASE x # act'[a].mid
    <3>1. PICK b \in Actors : act[b].mid = x /\ x # act[a].mid
      BY <2>2 DEF Held
    <3> QED BY <3>1 DEF Held
  <2> QED BY <2>1, <2>2
<1> QED BY <1>1, <1>2

\* A write that succeeds makes the file the tracker, one that fails leaves it.
LEMMA SavedOrNot == Saved => disk' = disk \/ disk' = alerts'
BY DEF Saved

LEMMA RedFollowed ==
    ASSUME RedFollows
    PROVE  /\ DOMAIN red' = DOMAIN red \cap Referred'
           /\ \A m \in DOMAIN red' : red'[m] = red[m]
BY DEF RedFollows, Drop

\* What the file keeps when the tracker changes, whether the write fails or not.
LEMMA FileFollows ==
    ASSUME ReportsInv, Saved, Distinct(alerts)', TrackedStands',
           DOMAIN red' \subseteq DOMAIN red, \A m \in DOMAIN red' : red'[m] = red[m],
           DOMAIN alerts' \subseteq Keys, alerts' \in [DOMAIN alerts' -> Mids]
    PROVE  /\ Distinct(disk)' /\ DOMAIN disk' \subseteq Keys
           /\ disk' \in [DOMAIN disk' -> Mids]
           /\ \A k \in DOMAIN disk' : disk'[k] \in DOMAIN red' => red'[disk'[k]] = k
<1> USE DEF ReportsInv, ReportsTyped, OneOwnerEach
<1>1. CASE disk' = disk
  BY <1>1 DEF Distinct
<1>2. CASE disk' = alerts'
  BY <1>2 DEF Distinct, TrackedStands
<1> QED BY <1>1, <1>2, SavedOrNot

\* The alert of a reachable host passes from the tracker to the goroutine.
LEMMA TakenStep ==
    ASSUME ReportsInv, NEW a \in Actors, NEW k \in Keys, Taken(a, k), RestTyped',
           act[a].mid = NoMid, a # "sweep"
    PROVE  ReportsInv'
<1> USE DEF ReportsInv
<1> DEFINE m == alerts[k]
           s == [act[a] EXCEPT !.pc = "take", !.todo = @ \ {k}, !.mid = m]
<1>1. /\ k \in DOMAIN alerts /\ alerts' = Drop(alerts, {k}) /\ Saved /\ RedFollows
      /\ stale' = stale \ {k} /\ act' = [act EXCEPT ![a] = s]
  BY DEF Taken
<1>2. act[a] \in ActorState
  BY DEF ReportsTyped
<1>3. m \in Mids /\ m # NoMid
  BY <1>1, ReportsAssumption DEF ReportsTyped
<1>4. s \in ActorState /\ s.mid = m /\ s.pc = "take"
  BY <1>2, <1>3 DEF ActorState
<1>5. /\ act' \in [Actors -> ActorState] /\ ActorRules'
      /\ act'[a] = s /\ \A b \in Actors \ {a} : act'[b] = act[b]
  BY <1>1, <1>3, <1>4, ActorMoves
<1>6. /\ DOMAIN alerts' = DOMAIN alerts \ {k}
      /\ \A x \in DOMAIN alerts' : alerts'[x] = alerts[x]
  BY <1>1 DEF Drop
<1>7. DOMAIN alerts' \subseteq Keys /\ alerts' \in [DOMAIN alerts' -> Mids]
  BY <1>1, <1>3, <1>6, MapTyped DEF ReportsTyped
<1>8. Held' = Held \cup {m}
  <2>1. Held' = ((Held \ {act[a].mid}) \cup {act'[a].mid}) \ {NoMid}
    BY <1>5, HeldMoves
  <2>2. NoMid \notin Held
    BY DEF Held
  <2> QED BY <1>3, <1>4, <1>5, <2>1, <2>2
<1>9. /\ DOMAIN red' = DOMAIN red \cap Referred'
      /\ \A x \in DOMAIN red' : red'[x] = red[x]
  BY <1>1, RedFollowed
<1> HIDE DEF s, m
<1>10. m \notin Held /\ \A x \in DOMAIN alerts' : alerts[x] # m
  BY <1>1, <1>6 DEF OneOwnerEach, TrackedStands, Distinct, m
<1>11. Distinct(alerts)'
  BY <1>6 DEF OneOwnerEach, Distinct
<1>12. TrackedStands'
  <2> SUFFICES ASSUME NEW x \in DOMAIN alerts'
               PROVE  /\ alerts'[x] \in DOMAIN red' \/ x \in stale'
                      /\ alerts'[x] \in DOMAIN red' => red'[alerts'[x]] = x
                      /\ alerts'[x] \notin Held'
    BY DEF TrackedStands
  <2>1. alerts'[x] = alerts[x] /\ x # k /\ alerts'[x] \in Referred'
    BY <1>6 DEF Referred, Listed
  <2> QED BY <1>1, <1>6, <1>8, <1>9, <1>10, <2>1 DEF OneOwnerEach, TrackedStands
<1>13. /\ Distinct(disk)' /\ DOMAIN disk' \subseteq Keys
       /\ disk' \in [DOMAIN disk' -> Mids]
       /\ \A x \in DOMAIN disk' : disk'[x] \in DOMAIN red' => red'[disk'[x]] = x
  BY <1>1, <1>7, <1>9, <1>11, <1>12, FileFollows
<1>14. ReportsTyped'
  BY <1>1, <1>5, <1>7, <1>9, <1>13 DEF ReportsTyped, RestTyped
<1>15. \A b \in Actors : act'[b].pc = "track" =>
          act'[b].mid \in DOMAIN red' /\ red'[act'[b].mid] = act'[b].cur
  <2> SUFFICES ASSUME NEW b \in Actors, act'[b].pc = "track"
               PROVE  act'[b].mid \in DOMAIN red' /\ red'[act'[b].mid] = act'[b].cur
    OBVIOUS
  <2>1. act'[b] = act[b]
    BY <1>4, <1>5
  <2>2. act[b].mid \in DOMAIN red /\ red[act[b].mid] = act[b].cur
    BY <2>1 DEF OneOwnerEach
  <2>3. act'[b].mid \in Referred'
    BY <1>5, <2>1 DEF ActorRules, Holding, Held, Referred
  <2> QED BY <1>9, <2>1, <2>2, <2>3
<1>16. \A b, c \in Actors : b # c /\ Holding(b)' => act'[b].mid # act'[c].mid
  BY <1>3, <1>4, <1>5, <1>10 DEF Held, Holding, OneOwnerEach
<1>17. OneOwnerEach'
  BY <1>9, <1>11, <1>12, <1>13, <1>15, <1>16 DEF OneOwnerEach
<1> QED BY <1>5, <1>14, <1>17

\* A reachable host without an alert is a quiet step.
LEMMA ResolveStep ==
    ASSUME ReportsInv, NEW a \in Actors, NEW k \in Keys, Resolve(a, k)
    PROVE  ReportsInv'
<1> USE DEF ReportsInv
<1>1. act[a] \in ActorState /\ act[a].mid = NoMid /\ a # "sweep"
  BY DEF Resolve, ReportsTyped, ActorRules, Holding
<1>2. RestTyped'
  BY DEF Resolve, AlertStep, RestTyped, worldVars, healthVars, ReportsTyped
<1>3. CASE Taken(a, k)
  BY <1>1, <1>2, <1>3, TakenStep
<1>4. CASE NotTaken(a, k)
  <2> DEFINE s == [act[a] EXCEPT !.todo = @ \ {k}]
  <2>1. s \in ActorState
    BY <1>1 DEF ActorState
  <2>2. Quiet(a, s)
    BY <2>1, <1>1 DEF Quiet, ActorState, Resolve
  <2>3. act' = [act EXCEPT ![a] = s] /\ UNCHANGED alertVars /\ ~Holding(a)
    BY <1>1, <1>4 DEF NotTaken, Holding
  <2> QED BY <1>2, <2>2, <2>3, QuietStep
<1> QED BY <1>3, <1>4 DEF Resolve

\* The new message is one nobody refers to.
LEMMA SentStep ==
    ASSUME ReportsInv, NEW a \in Actors, Sent(a)
    PROVE  ReportsInv'
<1> USE DEF ReportsInv
<1> DEFINE m == FreshMid
           k == act[a].cur
           s == [act[a] EXCEPT !.pc = "track", !.mid = m]
<1>1. /\ act[a] \in ActorState /\ act[a].mid = NoMid /\ a # "sweep"
      /\ k \in Keys /\ act[a].pc = "send"
  BY DEF Sent, ReportsTyped, ActorRules, Holding
<1>2. RestTyped' /\ UNCHANGED <<alerts, disk, stale>> /\ red' = Put(red, m, k)
  BY DEF Sent, FileKept, AlertStep, RestTyped, worldVars, healthVars, ReportsTyped
<1>3. m \in Mids /\ m \notin Referred /\ m # NoMid
  BY <1>1, SomeMidIsFree, ReportsAssumption
<1> HIDE DEF m
<1>4. s \in ActorState
  BY <1>1, <1>3 DEF ActorState
<1>5. s.mid = m /\ s.pc = "track" /\ s.cur = k
  BY <1>1 DEF ActorState
<1>6. act' = [act EXCEPT ![a] = s]
  BY DEF Sent, m
<1>7. /\ act' \in [Actors -> ActorState] /\ ActorRules'
      /\ act'[a] = s /\ \A b \in Actors \ {a} : act'[b] = act[b]
  BY <1>1, <1>3, <1>4, <1>5, <1>6, ActorMoves
<1>8. /\ DOMAIN red' = DOMAIN red \cup {m} /\ red'[m] = k
      /\ \A x \in DOMAIN red : x # m /\ red'[x] = red[x]
  BY <1>2, <1>3 DEF Put, OneOwnerEach
<1>9. ReportsTyped'
  BY <1>2, <1>3, <1>7, <1>8 DEF ReportsTyped, RestTyped
<1>10. Held' = Held \cup {m}
  <2>1. Held' = ((Held \ {act[a].mid}) \cup {act'[a].mid}) \ {NoMid}
    BY <1>7, HeldMoves
  <2>2. NoMid \notin Held
    BY DEF Held
  <2> QED BY <1>1, <1>3, <1>5, <1>7, <2>1, <2>2
<1>11. /\ \A x \in DOMAIN alerts : alerts[x] # m
       /\ \A x \in DOMAIN disk : disk[x] # m
       /\ m \notin Held
  BY <1>3 DEF Referred, Listed
<1>12. OneOwnerEach'
  <2> USE DEF OneOwnerEach, Holding
  <2> HIDE DEF s, k
  <2>1. TrackedStands'
    BY <1>2, <1>8, <1>10, <1>11 DEF TrackedStands
  <2>2. /\ Distinct(alerts)' /\ Distinct(disk)'
        /\ \A x \in DOMAIN disk' : disk'[x] \in DOMAIN red' => red'[disk'[x]] = x
    BY <1>2, <1>8, <1>11 DEF Distinct
  <2>3. \A b \in Actors : act'[b].pc = "track" =>
           act'[b].mid \in DOMAIN red' /\ red'[act'[b].mid] = act'[b].cur
    BY <1>5, <1>7, <1>8
  <2>4. \A b, c \in Actors : b # c /\ Holding(b)' => act'[b].mid # act'[c].mid
    BY <1>3, <1>5, <1>7, <1>11 DEF Held
  <2>5. (DOMAIN red \subseteq Referred)'
    BY <1>2, <1>8, <1>10 DEF Referred, Listed
  <2> QED BY <2>1, <2>2, <2>3, <2>4, <2>5
<1> QED BY <1>7, <1>9, <1>12

\* The message passes to the tracker; the one it replaces stands no more, unless the
\* file still lists it.
LEMMA TrackStep ==
    ASSUME ReportsInv, NEW a \in Actors, Track(a)
    PROVE  ReportsInv'
<1> USE DEF ReportsInv
<1> DEFINE m == act[a].mid
           k == act[a].cur
           s == [act[a] EXCEPT !.pc = "alert", !.cur = <<>>, !.mid = NoMid]
<1>1. /\ act[a] \in ActorState /\ a # "sweep"
      /\ k \in Keys /\ act[a].pc = "track" /\ m \in Mids /\ m # NoMid
  BY DEF Track, ReportsTyped, ActorState, ActorRules, Holding
<1>2. /\ RestTyped' /\ alerts' = Put(alerts, k, m) /\ Saved /\ RedFollows
      /\ stale' = stale \ {k}
  BY DEF Track, AlertStep, RestTyped, worldVars, healthVars, ReportsTyped
<1>3. m \in DOMAIN red /\ red[m] = k /\ m \in Held
      /\ \A x \in DOMAIN alerts : alerts[x] # m
  BY <1>1 DEF OneOwnerEach, TrackedStands, Holding, Held
<1>4. s \in ActorState
  BY <1>1 DEF ActorState
<1>5. s.mid = NoMid /\ s.pc = "alert"
  BY <1>1 DEF ActorState
<1>6. act' = [act EXCEPT ![a] = s]
  BY DEF Track
<1>7. /\ act' \in [Actors -> ActorState] /\ ActorRules'
      /\ act'[a] = s /\ \A b \in Actors \ {a} : act'[b] = act[b]
  BY <1>1, <1>4, <1>5, <1>6, ActorMoves
<1>8. /\ DOMAIN alerts' = DOMAIN alerts \cup {k} /\ alerts'[k] = m
      /\ \A x \in DOMAIN alerts \ {k} : alerts'[x] = alerts[x]
  BY <1>2 DEF Put
<1>9. /\ DOMAIN red' = DOMAIN red \cap Referred'
      /\ \A x \in DOMAIN red' : red'[x] = red[x]
  BY <1>2, RedFollowed
<1>10. DOMAIN alerts' \subseteq Keys /\ alerts' \in [DOMAIN alerts' -> Mids]
  BY <1>1, <1>2, <1>8, MapTyped DEF ReportsTyped
<1>11. Held' = Held \ {m}
  <2>1. Held' = ((Held \ {act[a].mid}) \cup {act'[a].mid}) \ {NoMid}
    BY <1>7, HeldMoves
  <2>2. NoMid \notin Held
    BY DEF Held
  <2> QED BY <1>1, <1>5, <1>7, <2>1, <2>2
<1> HIDE DEF s, k, m
<1>12. Distinct(alerts)'
  BY <1>3, <1>8 DEF OneOwnerEach, Distinct
<1>13. TrackedStands'
  <2> SUFFICES ASSUME NEW x \in DOMAIN alerts'
               PROVE  /\ alerts'[x] \in DOMAIN red' \/ x \in stale'
                      /\ alerts'[x] \in DOMAIN red' => red'[alerts'[x]] = x
                      /\ alerts'[x] \notin Held'
    BY DEF TrackedStands
  <2>1. alerts'[x] \in Referred'
    BY DEF Referred, Listed
  <2>2. CASE x = k
    BY <1>3, <1>8, <1>9, <1>11, <2>1, <2>2
  <2>3. CASE x # k
    BY <1>2, <1>8, <1>9, <1>11, <2>1, <2>3 DEF OneOwnerEach, TrackedStands
  <2> QED BY <2>2, <2>3
<1>14. /\ Distinct(disk)' /\ DOMAIN disk' \subseteq Keys
       /\ disk' \in [DOMAIN disk' -> Mids]
       /\ \A x \in DOMAIN disk' : disk'[x] \in DOMAIN red' => red'[disk'[x]] = x
  BY <1>2, <1>9, <1>10, <1>12, <1>13, FileFollows
<1>15. ReportsTyped'
  BY <1>2, <1>7, <1>9, <1>10, <1>14 DEF ReportsTyped, RestTyped
<1>16. \A b \in Actors : act'[b].pc = "track" =>
          act'[b].mid \in DOMAIN red' /\ red'[act'[b].mid] = act'[b].cur
  <2> SUFFICES ASSUME NEW b \in Actors, act'[b].pc = "track"
               PROVE  act'[b].mid \in DOMAIN red' /\ red'[act'[b].mid] = act'[b].cur
    OBVIOUS
  <2>1. act'[b] = act[b]
    BY <1>5, <1>7
  <2>2. act[b].mid \in DOMAIN red /\ red[act[b].mid] = act[b].cur
    BY <2>1 DEF OneOwnerEach
  <2>3. act'[b].mid \in Referred'
    BY <1>7, <2>1 DEF ActorRules, Holding, Held, Referred
  <2> QED BY <1>9, <2>1, <2>2, <2>3
<1>17. \A b, c \in Actors : b # c /\ Holding(b)' => act'[b].mid # act'[c].mid
  BY <1>5, <1>7 DEF Holding, OneOwnerEach
<1>18. OneOwnerEach'
  BY <1>9, <1>12, <1>13, <1>14, <1>16, <1>17 DEF OneOwnerEach
<1> QED BY <1>7, <1>15, <1>18

\* The message of a resolved alert stands no more, and nobody holds it.
LEMMA TakeDownStep ==
    ASSUME ReportsInv, NEW a \in Actors, TakeDown(a)
    PROVE  ReportsInv'
<1> USE DEF ReportsInv
<1> DEFINE m == act[a].mid
           s == [act[a] EXCEPT !.pc = "alert", !.mid = NoMid]
<1>1. /\ act[a] \in ActorState /\ a # "sweep"
      /\ act[a].pc = "take" /\ m \in Mids /\ m # NoMid
  BY DEF TakeDown, ReportsTyped, ActorState, ActorRules, Holding
<1>2. RestTyped' /\ UNCHANGED <<alerts, disk, stale>> /\ red' = Drop(red, {m})
  BY DEF TakeDown, FileKept, AlertStep, RestTyped, worldVars, healthVars, ReportsTyped
<1>3. m \in Held /\ \A x \in DOMAIN alerts : alerts[x] # m
  BY <1>1 DEF OneOwnerEach, TrackedStands, Holding, Held
<1>4. s \in ActorState
  BY <1>1 DEF ActorState
<1>5. s.mid = NoMid /\ s.pc = "alert"
  BY <1>1 DEF ActorState
<1>6. act' = [act EXCEPT ![a] = s]
  BY DEF TakeDown
<1>7. /\ act' \in [Actors -> ActorState] /\ ActorRules'
      /\ act'[a] = s /\ \A b \in Actors \ {a} : act'[b] = act[b]
  BY <1>1, <1>4, <1>5, <1>6, ActorMoves
<1>8. /\ DOMAIN red' = DOMAIN red \ {m}
      /\ \A x \in DOMAIN red' : red'[x] = red[x]
  BY <1>2 DEF Drop
<1>9. ReportsTyped'
  BY <1>2, <1>7, <1>8 DEF ReportsTyped, RestTyped
<1>10. Held' = Held \ {m}
  <2>1. Held' = ((Held \ {act[a].mid}) \cup {act'[a].mid}) \ {NoMid}
    BY <1>7, HeldMoves
  <2>2. NoMid \notin Held
    BY DEF Held
  <2> QED BY <1>1, <1>5, <1>7, <2>1, <2>2
<1>11. OneOwnerEach'
  <2> USE DEF OneOwnerEach, Holding
  <2> HIDE DEF s, m
  <2>1. TrackedStands'
    BY <1>2, <1>3, <1>8, <1>10 DEF TrackedStands
  <2>2. /\ Distinct(alerts)' /\ Distinct(disk)'
        /\ \A x \in DOMAIN disk' : disk'[x] \in DOMAIN red' => red'[disk'[x]] = x
    BY <1>2, <1>8 DEF Distinct
  <2>3. \A b \in Actors : act'[b].pc = "track" =>
           act'[b].mid \in DOMAIN red' /\ red'[act'[b].mid] = act'[b].cur
    BY <1>1, <1>5, <1>7, <1>8 DEF ActorRules, m
  <2>4. \A b, c \in Actors : b # c /\ Holding(b)' => act'[b].mid # act'[c].mid
    BY <1>5, <1>7
  <2>5. (DOMAIN red \subseteq Referred)'
    BY <1>2, <1>8, <1>10 DEF Referred, Listed
  <2> QED BY <2>1, <2>2, <2>3, <2>4, <2>5
<1> QED BY <1>7, <1>9, <1>11

\* After a restart the tracker is its file or empty, and nobody holds a message; an
\* alert of the file that is not what the tracker had is stale.
LEMMA RestartStep ==
    ASSUME ReportsInv, Restart
    PROVE  ReportsInv'
<1> USE DEF ReportsInv
<1>1. Idle \in ActorState /\ Idle.mid = NoMid /\ Idle.pc = "idle"
  BY IdleTyped
<1>2. act' \in [Actors -> ActorState] /\ \A a \in Actors : act'[a] = Idle
  BY <1>1 DEF Restart
<1>3. "sweep" \in Actors
  BY DEF Actors
<1>4. NoMap \in Views /\ DOMAIN NoMap = {} /\ NoMap \in [DOMAIN NoMap -> Mids]
  <2>1. DOMAIN NoMap = {} /\ NoMap \in [{} -> Mids]
    BY DEF NoMap
  <2> QED BY <2>1, IdleTyped
<1>5. alerts' \in {disk, NoMap} /\ disk' = disk
  BY DEF Restart
<1>6. /\ DOMAIN red' = DOMAIN red \cap Referred'
      /\ \A m \in DOMAIN red' : red'[m] = red[m]
  BY RedFollowed DEF Restart
<1>7. RestTyped'
  BY <1>4 DEF Restart, RestTyped, ReportsTyped, worldVars
<1>8. /\ DOMAIN alerts' \subseteq Keys /\ alerts' \in [DOMAIN alerts' -> Mids]
      /\ Distinct(alerts)'
  BY <1>4, <1>5 DEF ReportsTyped, OneOwnerEach, Distinct
<1>9. ReportsTyped'
  BY <1>2, <1>5, <1>6, <1>7, <1>8 DEF Restart, ReportsTyped, RestTyped
<1>10. ActorRules'
  BY <1>1, <1>2, <1>3 DEF ActorRules, Holding
<1>11. Held' = {}
  BY <1>1, <1>2 DEF Held
<1>12. TrackedStands'
  <2> SUFFICES ASSUME NEW x \in DOMAIN alerts'
               PROVE  /\ alerts'[x] \in DOMAIN red' \/ x \in stale'
                      /\ alerts'[x] \in DOMAIN red' => red'[alerts'[x]] = x
    BY <1>11 DEF TrackedStands
  <2>1. x \in DOMAIN disk /\ alerts'[x] = disk[x] /\ alerts'[x] \in Referred'
    BY <1>4, <1>5 DEF Referred, Listed
  <2>2. alerts'[x] \in DOMAIN red' => red'[alerts'[x]] = x
    BY <1>6, <2>1 DEF OneOwnerEach
  <2>3. ASSUME x \notin stale' PROVE alerts'[x] \in DOMAIN red'
    <3>1. x \in DOMAIN alerts /\ alerts[x] = disk[x] /\ x \notin stale
      BY <2>1, <2>3 DEF Restart
    <3>2. alerts[x] \in DOMAIN red
      BY <3>1 DEF OneOwnerEach, TrackedStands
    <3> QED BY <1>6, <2>1, <3>1, <3>2
  <2> QED BY <2>2, <2>3
<1>13. OneOwnerEach'
  BY <1>1, <1>2, <1>5, <1>6, <1>8, <1>12 DEF OneOwnerEach, Holding, Distinct
<1> QED BY <1>9, <1>10, <1>13

-----------------------------------------------------------------------------
(* The theorems.                                                           *)

LEMMA ReportsInvInit == ReportsInit => ReportsInv
<1> SUFFICES ASSUME ReportsInit PROVE ReportsInv
  OBVIOUS
<1>1. Idle \in ActorState /\ Idle.mid = NoMid /\ Idle.pc = "idle"
  BY IdleTyped
<1>2. NoMap \in Views /\ DOMAIN NoMap = {} /\ NoMap \in [DOMAIN NoMap -> Mids]
  <2>1. NoMap \in [{} -> BOOLEAN] /\ DOMAIN NoMap = {} /\ NoMap \in [{} -> Mids]
    BY DEF NoMap
  <2> QED BY <2>1 DEF Views
<1>3. ReportsTyped
  BY <1>1, <1>2 DEF ReportsInit, ReportsTyped
<1>4. ActorRules
  <2>1. "sweep" \in Actors
    BY DEF Actors
  <2> QED BY <1>1, <2>1 DEF ReportsInit, ActorRules, Holding
<1>5. OneOwnerEach
  BY <1>1, <1>2 DEF ReportsInit, OneOwnerEach, TrackedStands, Holding, Distinct, NoMap
<1> QED BY <1>3, <1>4, <1>5 DEF ReportsInv

LEMMA ReportsInvNext == ReportsInv /\ [ReportsNext]_repVars => ReportsInv'
<1> SUFFICES ASSUME ReportsInv, [ReportsNext]_repVars PROVE ReportsInv'
  OBVIOUS
<1>1. CASE NodeLives \/ LoudChanges \/ \E h \in Hosts : HostChanges(h) \/ TargetsChange(h)
  <2>1. RestTyped' /\ UNCHANGED <<alertVars, act>>
    BY <1>1, IdleTyped DEF NodeLives, LoudChanges, HostChanges, TargetsChange, Change,
       RestTyped, ReportsInv, ReportsTyped, healthVars
  <2> QED BY <2>1, WorldStep
<1>2. CASE Restart
  BY <1>2, RestartStep
<1>3. CASE \/ Sweep \/ \E h \in Hosts : AuditLocal(h)
           \/ \E c \in Callbacks : Report(c)
  BY <1>3, BeginStep
<1>4. ASSUME NEW a \in Actors, ActorStep(a) PROVE ReportsInv'
  BY <1>4, QuietActorStep, ResolveStep, SentStep, TrackStep, TakeDownStep DEF ActorStep
<1>5. CASE UNCHANGED repVars
  <2>1. RestTyped' /\ UNCHANGED <<alertVars, act>>
    BY <1>5 DEF repVars, worldVars, healthVars, alertVars, RestTyped, ReportsInv,
       ReportsTyped
  <2> QED BY <2>1, WorldStep
<1>6. ASSUME NEW h \in Hosts, NodeAudits(h) PROVE ReportsInv'
  <2>1. results' \in Views
    <3>1. PICK D \in SUBSET Hosts : results \in [D -> BOOLEAN]
      BY DEF ReportsInv, ReportsTyped, Views
    <3>2. results' = [x \in D \cup {h} |-> IF x = h THEN h \in blocked ELSE results[x]]
      BY <1>6, <3>1 DEF NodeAudits, Put
    <3>3. \A x \in D \cup {h} : (IF x = h THEN h \in blocked ELSE results[x]) \in BOOLEAN
      <4> SUFFICES ASSUME NEW x \in D \cup {h}
                   PROVE  (IF x = h THEN h \in blocked ELSE results[x]) \in BOOLEAN
        OBVIOUS
      <4>1. (h \in blocked) \in BOOLEAN
        OBVIOUS
      <4>2. x # h => results[x] \in BOOLEAN
        BY <3>1
      <4> QED BY <4>1, <4>2, Zenon
    <3>4. results' \in [D \cup {h} -> BOOLEAN]
      BY <3>2, <3>3
    <3>5. D \cup {h} \in SUBSET Hosts
      OBVIOUS
    <3> QED BY <3>4, <3>5 DEF Views
  <2>2. RestTyped' /\ UNCHANGED <<alertVars, act>>
    BY <1>6, <2>1 DEF NodeAudits, RestTyped, ReportsInv, ReportsTyped, healthVars
  <2> QED BY <2>2, WorldStep
<1> QED BY <1>1, <1>2, <1>3, <1>4, <1>5, <1>6 DEF ReportsNext

\* The inductive invariant holds in every reachable state.
THEOREM ReportsInvariant == ReportsSpec => []ReportsInv
<1> QED BY ReportsInvInit, ReportsInvNext, PTL DEF ReportsSpec

\* Types, and which goroutine may hold a message (nodes.go, checkhost.go).
THEOREM ReportsTypeCorrect == ReportsSpec => []ReportsTypeOK
<1>1. ReportsInv => ReportsTypeOK
  BY DEF ReportsInv, ReportsTyped, ActorRules, Holding, ReportsTypeOK
<1> QED BY <1>1, ReportsInvariant, PTL

\* However reports and the master's audit interleave, a tracked alert stands for a
\* message of its chat and host that is in the chat and that nobody else handles.
THEOREM AlertsAreOwned == ReportsSpec => []TrackedStands
<1>1. ReportsInv => TrackedStands
  BY DEF ReportsInv, OneOwnerEach
<1> QED BY <1>1, ReportsInvariant, PTL

=============================================================================
