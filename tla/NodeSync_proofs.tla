--------------------------- MODULE NodeSync_proofs --------------------------
(***************************************************************************)
(* Proofs that the safety property of NodeSync holds for every number of   *)
(* goroutines, every settings and environment, however many reports are    *)
(* lost, repeated or late and whatever restarts.                           *)
(***************************************************************************)
EXTENDS NodeSync, SmallSets, TLAPS

AnswerState == [sync : BOOLEAN, conf : Config, managed : SUBSET Subs]
SlotState ==
    [pc : {"idle", "send", "managed", "check", "interval", "targets", "disabled"},
     load : Results \cup {NoResult}, tries : Nat, answer : AnswerState]
BotConfig == [sync : BOOLEAN, interval : Nat, disabled : SUBSET Ids]

Sending == {s \in Slots : rep[s].pc = "send"}

(***************************************************************************)
(* The inductive invariant.                                                *)
(***************************************************************************)

MasterTyped ==
    /\ cfg \in BotConfig /\ saved \in BotConfig
    /\ DOMAIN over \subseteq Overridable /\ \A k \in DOMAIN over : over[k] \in Values(k)
    /\ desired \subseteq Subs /\ seen \in Results \cup {NoResult}

NodeTyped ==
    /\ result \in Results /\ conf \in Config /\ managed \subseteq Subs
    /\ late \subseteq Results
    /\ rep \in [Slots -> SlotState]

\* reporterRunning lets one goroutine send at a time and is up exactly while one does;
\* what is sent is a result.
OneReporter ==
    /\ NoDuplicate(Sending)
    /\ running <=> Sending # {}
    /\ \A s \in Sending : rep[s].load \in Results

SyncInv == MasterTyped /\ NodeTyped /\ OneReporter

-----------------------------------------------------------------------------
(* The master's answer and its parts.                                      *)

\* The settings are of the four kinds, wherever each comes from.
LEMMA ConfigOfKinds ==
    ASSUME NEW f, f = [k \in Kinds |-> f[k]], f["check"] \in Checks,
           f["interval"] \in Nat, f["targets"] \in SUBSET Urls, f["disabled"] \in SUBSET Ids
    PROVE  f \in Config
BY DEF Kinds, Config

LEMMA AnswerTyped ==
    ASSUME MasterTyped
    PROVE  Answer \in AnswerState
<1> DEFINE f == ResolveNodeSync(Inherited, over)
<1>1. /\ Inherited["check"] \in Checks /\ Inherited["interval"] \in Nat
      /\ Inherited["targets"] \in SUBSET Urls /\ Inherited["disabled"] \in SUBSET Ids
  BY SyncAssumption DEF MasterTyped, BotConfig, Inherited, Config
<1>2. \A k \in Kinds : f[k] = IF k \in DOMAIN over THEN over[k] ELSE Inherited[k]
  BY DEF ResolveNodeSync
<1>3. "disabled" \notin DOMAIN over
  BY DEF MasterTyped, Overridable
<1>4. /\ "check" \in DOMAIN over => over["check"] \in Checks
      /\ "interval" \in DOMAIN over => over["interval"] \in Nat
      /\ "targets" \in DOMAIN over => over["targets"] \in SUBSET Urls
  BY SyncAssumption DEF MasterTyped, Values
<1>5. f \in Config
  <2>1. f = [k \in Kinds |-> f[k]]
    BY DEF ResolveNodeSync
  <2>2. f["check"] \in Checks /\ f["interval"] \in Nat
        /\ f["targets"] \in SUBSET Urls /\ f["disabled"] \in SUBSET Ids
    BY <1>1, <1>2, <1>3, <1>4 DEF Kinds
  <2> HIDE DEF f
  <2> QED BY <2>1, <2>2, ConfigOfKinds
<1>6. (~bot \/ cfg.sync) \in BOOLEAN /\ desired \in SUBSET Subs
  BY DEF MasterTyped
<1> HIDE DEF f
<1>7. [sync |-> (~bot \/ cfg.sync), conf |-> f, managed |-> desired] \in AnswerState
  BY <1>5, <1>6 DEF AnswerState
<1> QED BY <1>7 DEF Answer, f

LEMMA IdleSlotTyped == IdleSlot \in SlotState /\ IdleSlot.pc = "idle"
<1>1. NoAnswer \in AnswerState
  BY SyncAssumption DEF NoAnswer, AnswerState
<1> QED BY <1>1 DEF IdleSlot, SlotState

\* A goroutine that goes on, when nobody is sending unless it was.
LEMMA SlotMoves ==
    ASSUME SyncInv, NEW s \in Slots, NEW g \in SlotState, rep' = [rep EXCEPT ![s] = g],
           \/ g.pc # "send" /\ rep[s].pc # "send" /\ running' = running
           \/ g.pc # "send" /\ rep[s].pc = "send" /\ ~running'
           \/ g.pc = "send" /\ running' /\ g.load \in Results
              /\ (rep[s].pc = "send" \/ ~running)
    PROVE  rep' \in [Slots -> SlotState] /\ OneReporter'
<1>1. rep' \in [Slots -> SlotState] /\ rep'[s] = g
      /\ \A x \in Slots \ {s} : rep'[x] = rep[x]
  BY DEF SyncInv, NodeTyped
<1>2. CASE g.pc # "send" /\ rep[s].pc # "send" /\ running' = running
  <2>1. Sending' = Sending
    BY <1>1, <1>2 DEF Sending
  <2> QED BY <1>1, <1>2, <2>1 DEF SyncInv, OneReporter, Sending
<1>3. CASE g.pc # "send" /\ rep[s].pc = "send" /\ ~running'
  <2>1. Sending' = {}
    BY <1>1, <1>3 DEF SyncInv, OneReporter, NoDuplicate, Sending
  <2> QED BY <1>1, <1>3, <2>1 DEF OneReporter, NoDuplicate
<1>4. CASE g.pc = "send" /\ running' /\ g.load \in Results
           /\ (rep[s].pc = "send" \/ ~running)
  <2>1. Sending' = {s}
    BY <1>1, <1>4 DEF SyncInv, OneReporter, NoDuplicate, Sending
  <2> QED BY <1>1, <1>4, <2>1 DEF OneReporter, NoDuplicate
<1> QED BY <1>2, <1>3, <1>4

-----------------------------------------------------------------------------
(* The steps of a goroutine.                                               *)

\* Reporting.
LEMMA ReportStep ==
    ASSUME SyncInv, NEW s \in Slots,
           Cycle(s) \/ Answered(s) \/ AttemptFails(s) \/ AttemptTimesOut(s) \/ Rejected(s)
    PROVE  SyncInv'
<1>1. rep[s] \in SlotState /\ result \in Results
  BY DEF SyncInv, NodeTyped
<1>2. rep[s].pc = "send" => rep[s].load \in Results /\ running
  BY DEF SyncInv, OneReporter, Sending
<1>3. UNCHANGED <<masterVars, nodeVars>>
  BY DEF Cycle, Answered, AttemptFails, AttemptTimesOut, Rejected
<1>4. seen' \in Results \cup {NoResult} /\ late' \subseteq Results
  BY <1>2 DEF Cycle, Answered, AttemptFails, AttemptTimesOut, Rejected, SyncInv,
     MasterTyped,
     NodeTyped
<1>5. rep' \in [Slots -> SlotState] /\ OneReporter'
  <2>1. CASE Cycle(s)
    <3> DEFINE g == [IdleSlot EXCEPT !.pc = "send", !.load = result]
    <3>1. g \in SlotState /\ g.pc = "send" /\ g.load \in Results
      BY <1>1, IdleSlotTyped DEF SlotState
    <3> QED BY <2>1, <3>1, SlotMoves DEF Cycle
  <2>2. CASE Answered(s)
    <3> DEFINE g == [IdleSlot EXCEPT !.pc = "managed", !.answer = Answer]
    <3>1. Answer \in AnswerState
      BY AnswerTyped DEF SyncInv
    <3>2. g \in SlotState /\ g.pc = "managed"
      BY <3>1, IdleSlotTyped DEF SlotState
    <3> QED BY <2>2, <3>2, SlotMoves DEF Answered
  <2>3. ASSUME rep[s].pc = "send", Retry(s)
        PROVE  rep' \in [Slots -> SlotState] /\ OneReporter'
    <3>1. CASE rep[s].tries + 1 < Attempts
      <4> DEFINE g == [rep[s] EXCEPT !.tries = @ + 1]
      <4>1. g \in SlotState /\ g.pc = "send" /\ g.load \in Results
        BY <1>1, <1>2, <2>3 DEF SlotState
      <4>2. rep' = [rep EXCEPT ![s] = g]
        <5>1. rep' = [rep EXCEPT ![s] = IF rep[s].tries + 1 < Attempts THEN g ELSE IdleSlot]
          BY <2>3, Zenon DEF Retry
        <5> HIDE DEF g
        <5> QED BY <3>1, <5>1
      <4>3. running'
        BY <2>3, <3>1 DEF Retry
      <4> QED BY <2>3, <4>1, <4>2, <4>3, SlotMoves
    <3>2. CASE ~(rep[s].tries + 1 < Attempts)
      <4>1. rep' = [rep EXCEPT ![s] = IdleSlot] /\ ~running'
        BY <2>3, <3>2 DEF Retry
      <4> QED BY <2>3, <4>1, IdleSlotTyped, SlotMoves
    <3> QED BY <3>1, <3>2
  <2>4. CASE AttemptFails(s) \/ AttemptTimesOut(s)
    BY <2>3, <2>4 DEF AttemptFails, AttemptTimesOut
  <2>5. CASE Rejected(s)
    BY <2>5, IdleSlotTyped, SlotMoves DEF Rejected
  <2> QED BY <2>1, <2>2, <2>4, <2>5
<1> QED BY <1>3, <1>4, <1>5 DEF SyncInv, MasterTyped, NodeTyped, masterVars, nodeVars

\* What is left of an answer, and what has been taken from it.
LEMMA ApplyStep ==
    ASSUME SyncInv, NEW s \in Slots, Apply(s)
    PROVE  SyncInv'
<1> DEFINE a == rep[s].answer
<1>1. /\ rep[s] \in SlotState /\ a \in AnswerState /\ a.conf \in Config
      /\ a.managed \subseteq Subs /\ conf \in Config /\ managed \subseteq Subs
  BY DEF SyncInv, NodeTyped, SlotState, AnswerState
<1>2. ASSUME NEW pc \in {"managed", "check", "interval", "targets", "disabled"},
             NEW next \in {"idle", "check", "interval", "targets", "disabled"},
             NEW rest \in AnswerState, Applying(s, pc, next, rest)
      PROVE  /\ rep' \in [Slots -> SlotState] /\ OneReporter'
             /\ UNCHANGED <<masterVars, seen, result, late>>
  <2>1. rep[s].pc # "send" /\ running' = running
    BY <1>2 DEF Applying
  <2>2. CASE next = "idle"
    BY <1>2, <2>1, <2>2, IdleSlotTyped, SlotMoves DEF Applying
  <2>3. CASE next # "idle"
    <3> DEFINE g == [rep[s] EXCEPT !.pc = next, !.answer = rest]
    <3>1. g \in SlotState /\ g.pc # "send"
      BY <1>1, <1>2, <2>3 DEF SlotState
    <3>2. rep' = [rep EXCEPT ![s] = g]
      BY <1>2, <2>3 DEF Applying
    <3> QED BY <1>2, <2>1, <3>1, <3>2, SlotMoves DEF Applying
  <2> QED BY <1>2, <2>2, <2>3 DEF Applying
<1>3. ASSUME rep' \in [Slots -> SlotState], OneReporter',
             UNCHANGED <<masterVars, seen, result, late>>,
             conf' \in Config, managed' \subseteq Subs
      PROVE  SyncInv'
  BY <1>3 DEF SyncInv, MasterTyped, NodeTyped, masterVars
<1> HIDE DEF a
<1>4. CASE Reconcile(s)
  <2>1. [a EXCEPT !.managed = {}] \in AnswerState
    BY <1>1 DEF AnswerState
  <2>2. (IF a.sync THEN "check" ELSE "idle") \in {"idle", "check"}
    OBVIOUS
  <2>3. Applying(s, "managed", IF a.sync THEN "check" ELSE "idle",
                 [a EXCEPT !.managed = {}])
    BY <1>4 DEF Reconcile, a
  <2>4. conf' \in Config /\ managed' \subseteq Subs
    BY <1>1, <1>4 DEF Reconcile, KeptIfEmpty, a
  <2> QED BY <1>2, <1>3, <2>1, <2>2, <2>3, <2>4
<1>5. CASE ApplyCheck(s)
  <2>1. [a EXCEPT !.conf.check = CliEnv.check] \in AnswerState
    BY <1>1, SyncAssumption DEF AnswerState, Config
  <2>2. conf' \in Config /\ managed' \subseteq Subs
    BY <1>1, <1>5 DEF ApplyCheck, Config, a
  <2> QED BY <1>2, <1>3, <1>5, <2>1, <2>2 DEF ApplyCheck, a
<1>6. CASE ApplyInterval(s)
  <2>1. [a EXCEPT !.conf.interval = CliEnv.interval] \in AnswerState
    BY <1>1, SyncAssumption DEF AnswerState, Config
  <2>2. Rescheduled(conf.interval, a.conf.interval) \in Nat
    BY <1>1 DEF Rescheduled, MinInterval, Config
  <2>3. conf' \in Config /\ managed' \subseteq Subs
    BY <1>1, <1>6, <2>2 DEF ApplyInterval, Config, a
  <2> QED BY <1>2, <1>3, <1>6, <2>1, <2>3 DEF ApplyInterval, a
<1>7. CASE ApplyTargets(s)
  <2>1. [a EXCEPT !.conf.targets = CliEnv.targets] \in AnswerState
    BY <1>1, SyncAssumption DEF AnswerState, Config
  <2>2. conf' \in Config /\ managed' \subseteq Subs
    BY <1>1, <1>7 DEF ApplyTargets, KeptIfEmpty, Config, a
  <2> QED BY <1>2, <1>3, <1>7, <2>1, <2>2 DEF ApplyTargets, a
<1>8. CASE ApplyDisabled(s)
  <2>1. NoAnswer \in AnswerState
    BY SyncAssumption DEF NoAnswer, AnswerState
  <2>2. conf' \in Config /\ managed' \subseteq Subs
    BY <1>1, <1>8 DEF ApplyDisabled, KeptIfEmpty, Config, a
  <2> QED BY <1>2, <1>3, <1>8, <2>1, <2>2 DEF ApplyDisabled
<1> QED BY <1>4, <1>5, <1>6, <1>7, <1>8 DEF Apply

-----------------------------------------------------------------------------
(* The operator and the two processes.                                     *)

LEMMA OperatorStep ==
    ASSUME SyncInv,
           \/ \E n \in Intervals : SetInterval(n)
           \/ \E i \in Ids : ToggleDisabled(i)
           \/ \E k \in Overridable : \E v \in Values(k) : SetNodeSetting(k, v)
           \/ \E K \in {{k} : k \in Overridable} \cup {Overridable} : ResetNodeSetting(K)
           \/ \E u \in Subs : ChangeSubs(u)
           \/ ToggleSync \/ BotStarts
    PROVE  SyncInv'
<1>1. ASSUME UNCHANGED <<seen, nodeVars, running, rep, late>>, MasterTyped' PROVE SyncInv'
  BY <1>1 DEF SyncInv, NodeTyped, OneReporter, Sending, nodeVars
<1>2. ASSUME NEW c \in BotConfig, Configure(c) PROVE SyncInv'
  <2>1. MasterTyped'
    BY <1>2 DEF Configure, Operate, SyncInv, MasterTyped
  <2> QED BY <1>1, <1>2, <2>1 DEF Configure, Operate
<1>3. ASSUME NEW n \in Intervals, SetInterval(n) PROVE SyncInv'
  <2>1. [cfg EXCEPT !.interval = n] \in BotConfig
    BY SyncAssumption DEF SyncInv, MasterTyped, BotConfig
  <2> QED BY <1>2, <1>3, <2>1 DEF SetInterval
<1>4. ASSUME NEW i \in Ids, ToggleDisabled(i) PROVE SyncInv'
  <2>1. [cfg EXCEPT !.disabled = IF i \in @ THEN @ \ {i} ELSE @ \cup {i}] \in BotConfig
    BY DEF SyncInv, MasterTyped, BotConfig
  <2> QED BY <1>2, <1>4, <2>1 DEF ToggleDisabled
<1>5. CASE ToggleSync
  <2>1. [cfg EXCEPT !.sync = ~@] \in BotConfig
    BY DEF SyncInv, MasterTyped, BotConfig
  <2> QED BY <1>2, <1>5, <2>1 DEF ToggleSync
<1>6. ASSUME NEW k \in Overridable, NEW v \in Values(k), SetNodeSetting(k, v) PROVE SyncInv'
  <2>1. MasterTyped'
    BY <1>6 DEF SetNodeSetting, Operate, SyncInv, MasterTyped
  <2> QED BY <1>1, <1>6, <2>1 DEF SetNodeSetting, Operate
<1>7. ASSUME NEW K, ResetNodeSetting(K) PROVE SyncInv'
  <2>1. MasterTyped'
    BY <1>7 DEF ResetNodeSetting, Operate, SyncInv, MasterTyped, Restrict
  <2> QED BY <1>1, <1>7, <2>1 DEF ResetNodeSetting, Operate
<1>8. ASSUME NEW u \in Subs, ChangeSubs(u) PROVE SyncInv'
  <2>1. MasterTyped'
    BY <1>8 DEF ChangeSubs, Operate, SyncInv, MasterTyped
  <2> QED BY <1>1, <1>8, <2>1 DEF ChangeSubs, Operate
<1>9. CASE BotStarts
  BY <1>1, <1>9 DEF BotStarts, SyncInv, MasterTyped
<1> QED BY <1>3, <1>4, <1>5, <1>6, <1>7, <1>8, <1>9

\* Results change, late reports arrive and the processes restart.
LEMMA WorldStep ==
    ASSUME SyncInv,
           \/ \E r \in Results : ResultChanges(r) \/ LateReport(r)
           \/ MasterRestart \/ NodeRestart
    PROVE  SyncInv'
<1>1. ASSUME NEW r \in Results, ResultChanges(r) PROVE SyncInv'
  BY <1>1 DEF ResultChanges, SyncInv, MasterTyped, NodeTyped, OneReporter, Sending,
     masterVars
<1>2. ASSUME NEW r \in Results, LateReport(r) PROVE SyncInv'
  BY <1>2 DEF LateReport, SyncInv, MasterTyped, NodeTyped, OneReporter, Sending,
     masterVars,
     nodeVars
<1>3. CASE MasterRestart
  BY <1>3 DEF MasterRestart, SyncInv, MasterTyped, NodeTyped, OneReporter, Sending,
     nodeVars
<1>4. CASE NodeRestart
  <2>1. rep' \in [Slots -> SlotState] /\ Sending' = {} /\ ~running'
    BY <1>4, IdleSlotTyped DEF NodeRestart, Sending
  <2>2. OneReporter'
    BY <2>1 DEF OneReporter, NoDuplicate
  <2> QED BY <1>4, <2>1, <2>2, SyncAssumption DEF NodeRestart, SyncInv, MasterTyped,
         NodeTyped, masterVars
<1> QED BY <1>1, <1>2, <1>3, <1>4

-----------------------------------------------------------------------------
(* The theorems.                                                           *)

LEMMA SyncInvInit == SyncInit => SyncInv
<1> SUFFICES ASSUME SyncInit PROVE SyncInv
  OBVIOUS
<1>1. [sync |-> TRUE, interval |-> CliEnv.interval, disabled |-> {}] \in BotConfig
  BY SyncAssumption DEF BotConfig, Config
<1>2. MasterTyped
  BY <1>1 DEF SyncInit, MasterTyped
<1>3. rep \in [Slots -> SlotState] /\ Sending = {}
  BY IdleSlotTyped DEF SyncInit, Sending
<1>4. (CHOOSE r \in Results : TRUE) \in Results
  BY SyncAssumption
<1>5. NodeTyped
  BY <1>3, <1>4, SyncAssumption DEF SyncInit, NodeTyped
<1>6. OneReporter
  BY <1>3 DEF SyncInit, OneReporter, NoDuplicate
<1> QED BY <1>2, <1>5, <1>6 DEF SyncInv

LEMMA SyncInvNext == SyncInv /\ [SyncNext]_syncVars => SyncInv'
<1> SUFFICES ASSUME SyncInv, [SyncNext]_syncVars PROVE SyncInv'
  OBVIOUS
<1>1. CASE SyncNext
  BY <1>1, ReportStep, ApplyStep, OperatorStep, WorldStep DEF SyncNext
<1>2. CASE UNCHANGED syncVars
  BY <1>2 DEF syncVars, SyncInv, MasterTyped, NodeTyped, OneReporter, Sending
<1> QED BY <1>1, <1>2

\* The inductive invariant holds in every reachable state.
THEOREM SyncInvariant == SyncSpec => []SyncInv
<1> QED BY SyncInvInit, SyncInvNext, PTL DEF SyncSpec

\* Types, and at most one push is in flight, with the flag up exactly while one is,
\* through timeouts, rejections and restarts (main.go, nodes/reporter.go).
THEOREM SyncTypeCorrect == SyncSpec => []SyncTypeOK
<1>1. SyncInv => SyncTypeOK
  <2> SUFFICES ASSUME SyncInv PROVE SyncTypeOK
    OBVIOUS
  <2>1. Cardinality(Sending) = IF running THEN 1 ELSE 0
    <3>1. IsFiniteSet(Sending) /\ Cardinality(Sending) <= 1
          /\ (Cardinality(Sending) = 0 <=> Sending = {})
      BY AtMostOne DEF SyncInv, OneReporter
    <3>2. Cardinality(Sending) \in Nat
      BY <3>1, FS_CardinalityType
    <3> QED BY <3>1, <3>2 DEF SyncInv, OneReporter
  <2>2. \A s \in Slots : rep[s].answer.conf \in Config
    BY DEF SyncInv, NodeTyped, SlotState, AnswerState
  <2> QED BY <2>1, <2>2 DEF SyncTypeOK, SyncInv, MasterTyped, NodeTyped, BotConfig,
  Sending
<1> QED BY <1>1, SyncInvariant, PTL

=============================================================================
