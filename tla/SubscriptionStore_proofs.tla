---------------------- MODULE SubscriptionStore_proofs ----------------------
(***************************************************************************)
(* Proofs that the safety properties of SubscriptionStore hold for every   *)
(* set of URLs and lists of the master, any number of reconcilers, and     *)
(* however many commands, restarts and failures.                           *)
(***************************************************************************)
EXTENDS SubscriptionStore, SmallSets, TLAPS

Dynamic == Urls \ Static      \* what the store may hold
Listed == UNION DesiredSets   \* what the master may ever list
Applying == {q \in Procs : proc[q].pc = "apply"}

(***************************************************************************)
(* The inductive invariant.                                                *)
(***************************************************************************)

\* Types of the state.
SubsTyped ==
    /\ dynamic \subseteq Dynamic /\ managed \subseteq Dynamic
    /\ file \in [dynamic : SUBSET Dynamic, managed : SUBSET Dynamic, null : BOOLEAN]
    /\ file.null => file.dynamic = {}
    /\ applied \subseteq Urls /\ own \subseteq Urls
    /\ desired \in DesiredSets
    /\ proc \in [Procs -> ProcState]
    /\ up \in BOOLEAN /\ failed \in BOOLEAN /\ events \in 0..MaxEvents

\* What a goroutine carries from one step to the next: a reconciler adds what the
\* master lists and the command line does not, and restores what the store held;
\* only the bot adds a URL of its own.
Carried ==
    \A q \in Procs :
        /\ proc[q].add \subseteq Listed \ Static
        /\ proc[q].dyn \subseteq Dynamic /\ proc[q].man \subseteq Dynamic
        /\ proc[q].pc = "plan" => proc[q].list \in DesiredSets
        /\ proc[q].op = "add" => q = "bot"

\* While nothing fails there is nothing to roll back or to restore, the file is the
\* store, the flagged URLs are the master's, and a URL of the admin is in the store
\* from AddSub on.
NothingFailed ==
    ~failed =>
        /\ \A q \in Procs : proc[q].pc \notin {"rollback", "restore"}
        /\ OnDisk
        /\ managed \subseteq Listed
        /\ own \ Listed \subseteq dynamic
        /\ proc["bot"].op = "add" => proc["bot"].url \ Listed \subseteq dynamic

SubsInv == SubsTyped /\ NoDuplicate(Applying) /\ Carried /\ NothingFailed

-----------------------------------------------------------------------------
(* URLStore and the goroutines, operation by operation.                    *)

StoreTyped ==
    /\ dynamic \subseteq Dynamic /\ managed \subseteq Dynamic
    /\ file \in [dynamic : SUBSET Dynamic, managed : SUBSET Dynamic, null : BOOLEAN]
    /\ file.null => file.dynamic = {}

\* A write keeps memory and file well typed, and the file never says null of a list
\* with a URL in it.
LEMMA WriteTyped ==
    ASSUME NEW d \in SUBSET Dynamic, NEW m \in SUBSET Dynamic, NEW n \in BOOLEAN,
           Write(d, m, n)
    PROVE  StoreTyped'
BY DEF Write, StoreTyped

\* So do the revert of a reconciliation and a write that fails.
LEMMA RestoreTyped ==
    ASSUME StoreTyped, NEW d \in SUBSET Dynamic, NEW m \in SUBSET Dynamic, Restore(d, m)
    PROVE  StoreTyped'
<1>1. CASE Write(d, m, TRUE)
  BY <1>1, WriteTyped
<1>2. CASE dynamic' = d /\ managed' = m /\ UNCHANGED file
  BY <1>2 DEF StoreTyped
<1> QED BY <1>1, <1>2 DEF Restore

LEMMA WriteFailsTyped ==
    ASSUME StoreTyped, NEW d, NEW m, WriteFails(d, m)
    PROVE  StoreTyped'
BY DEF WriteFails, StoreTyped, store

\* No step counts more events than MaxEvents.
Counted ==
    \/ Event /\ UNCHANGED failed
    \/ Fault
    \/ UNCHANGED noEvent

LEMMA EventTyped ==
    ASSUME events \in 0..MaxEvents, failed \in BOOLEAN, Counted
    PROVE  events' \in 0..MaxEvents /\ failed' \in BOOLEAN
<1>1. ASSUME Event PROVE events' \in 0..MaxEvents
  BY <1>1, SubsAssumption DEF Event
<1>2. CASE Event /\ UNCHANGED failed
  BY <1>1, <1>2
<1>3. CASE Fault
  BY <1>1, <1>3 DEF Fault
<1>4. CASE UNCHANGED noEvent
  BY <1>4 DEF noEvent
<1> QED BY <1>2, <1>3, <1>4 DEF Counted

\* Goto and Return keep proc well typed.
LEMMA GotoTyped ==
    ASSUME proc \in [Procs -> ProcState], NEW q \in Procs,
           NEW pc \in {"reload", "rollback", "restore"}, Goto(q, pc) \/ Return(q)
    PROVE  proc' \in [Procs -> ProcState]
<1>1. [proc[q] EXCEPT !.pc = pc] \in ProcState /\ IdleProc \in ProcState
  BY DEF ProcState, IdleProc
<1>2. proc' = [proc EXCEPT ![q] = [proc[q] EXCEPT !.pc = pc]]
      \/ proc' = [proc EXCEPT ![q] = IdleProc]
  BY DEF Goto, Return
<1> QED BY <1>1, <1>2

\* Every step keeps the URL sets and the file well typed.
LEMMA StoreTypedNext == SubsInv /\ [SubsNext]_subsVars => StoreTyped'
<1> SUFFICES ASSUME SubsTyped, Carried, [SubsNext]_subsVars PROVE StoreTyped'
  BY DEF SubsInv
<1>a. StoreTyped
  BY DEF SubsTyped, StoreTyped
<1> USE SubsAssumption DEF Dynamic
<1>1. ASSUME NEW u \in Urls, AddSub(u) PROVE StoreTyped'
  BY <1>a, <1>1, WriteTyped DEF AddSub, StoreTyped, All
<1>2. ASSUME NEW u \in Urls, DelSub(u) PROVE StoreTyped'
  BY <1>a, <1>2, WriteTyped DEF DelSub, StoreTyped
<1>3. CASE Rollback
  BY <1>a, <1>3, WriteTyped, WriteFailsTyped DEF Rollback, StoreTyped, store
<1>4. ASSUME NEW r \in Reconcilers, NEW u \in Urls, AddManaged(r, u) PROVE StoreTyped'
  <2>1. u \in Dynamic
    BY <1>4 DEF AddManaged, Carried, Procs
  <2>2. CASE Write(dynamic \cup {u}, managed \cup {u}, FALSE)
    BY <1>a, <2>1, <2>2, WriteTyped DEF StoreTyped
  <2>3. CASE UNCHANGED store
    BY <1>a, <2>3 DEF StoreTyped, store
  <2> QED BY <1>4, <2>2, <2>3 DEF AddManaged, WriteFails
<1>5. ASSUME NEW r \in Reconcilers, NEW u \in Urls, RemoveManaged(r, u) PROVE StoreTyped'
  <2>1. CASE Write(dynamic \ {u}, managed \ {u}, FALSE)
    BY <1>a, <2>1, WriteTyped DEF StoreTyped
  <2>2. CASE UNCHANGED store
    BY <1>a, <2>2 DEF StoreTyped, store
  <2> QED BY <1>5, <2>1, <2>2 DEF RemoveManaged, WriteFails
<1>6. ASSUME NEW r \in Reconcilers, RestoreSnapshot(r) PROVE StoreTyped'
  BY <1>a, <1>6, RestoreTyped DEF RestoreSnapshot, Carried, Procs
<1>7. CASE Restart
  BY <1>a, <1>7 DEF Restart, StoreTyped
<1>8. CASE UNCHANGED store
  BY <1>a, <1>8 DEF StoreTyped, store
<1>9. ASSUME NEW q \in Procs, Steps(q) PROVE UNCHANGED store
  BY <1>9 DEF Steps, Fetch, Apply, ReloadFails, store
<1>10. ASSUME NEW r \in Reconcilers, Answer(r) \/ Plan(r) \/ Changed(r)
       PROVE  UNCHANGED store
  BY <1>10 DEF Answer, Plan, Changed, store
<1>11. ASSUME NEW d \in DesiredSets, DesiredChanges(d) PROVE UNCHANGED store
  BY <1>11 DEF DesiredChanges, store
<1>12. CASE UNCHANGED subsVars
  BY <1>8, <1>12 DEF subsVars, store
<1> QED BY <1>1, <1>2, <1>3, <1>4, <1>5, <1>6, <1>7, <1>8, <1>9, <1>10, <1>11, <1>12
        DEF SubsNext, BotStep, ReconcilerStep, Procs

\* Every step keeps the goroutines well typed.
LEMMA ProcTypedNext == SubsInv /\ [SubsNext]_subsVars => (proc \in [Procs -> ProcState])'
<1> SUFFICES ASSUME SubsTyped, [SubsNext]_subsVars PROVE proc' \in [Procs -> ProcState]
  BY DEF SubsInv
<1>a. proc \in [Procs -> ProcState] /\ "bot" \in Procs
  BY DEF SubsTyped, Procs
<1>1. ASSUME NEW u \in Urls, AddSub(u) \/ DelSub(u) PROVE proc' \in [Procs -> ProcState]
  <2>1. /\ [proc["bot"] EXCEPT !.pc = "reload", !.op = "add", !.url = {u}] \in ProcState
        /\ [proc["bot"] EXCEPT !.pc = "reload", !.op = "del"] \in ProcState
    BY <1>a DEF ProcState
  <2> QED BY <1>a, <1>1, <2>1 DEF AddSub, DelSub
<1>2. CASE Rollback
  BY <1>a, <1>2, GotoTyped DEF Rollback
<1>3. ASSUME NEW q \in Procs, Steps(q) PROVE proc' \in [Procs -> ProcState]
  <2>1. CASE Fetch(q)
    <3>1. All \subseteq Urls
      BY SubsAssumption DEF All, SubsTyped, Dynamic
    <3>2. [proc[q] EXCEPT !.pc = "apply", !.list = All] \in ProcState
      BY <1>a, <3>1 DEF ProcState
    <3> QED BY <1>a, <2>1, <3>2 DEF Fetch
  <2>2. CASE Apply(q) \/ ReloadFails(q)
    BY <1>a, <2>2, GotoTyped DEF Apply, ReloadFails
  <2> QED BY <1>3, <2>1, <2>2 DEF Steps
<1>4. ASSUME NEW r \in Reconcilers, Answer(r) \/ Plan(r) PROVE proc' \in [Procs -> ProcState]
  <2>1. r \in Procs
    BY DEF Procs
  <2>2. CASE Answer(r)
    <3>1. desired \subseteq Urls
      BY SubsAssumption DEF SubsTyped
    <3>2. [proc[r] EXCEPT !.pc = "plan", !.list = desired] \in ProcState
      BY <1>a, <2>1, <3>1 DEF ProcState
    <3> QED BY <1>a, <2>1, <2>2, <3>2 DEF Answer
  <2>3. CASE Plan(r)
    <3>1. [IdleProc EXCEPT !.pc = "change", !.add = proc[r].list \ All, !.remove = ToRemove(r),
                           !.dyn = dynamic, !.man = managed] \in ProcState
      BY <1>a, <2>1 DEF ProcState, SubsTyped, IdleProc, ToRemove, Managed, Dynamic
    <3> QED BY <1>a, <2>1, <2>3, <3>1 DEF Plan
  <2> QED BY <1>4, <2>2, <2>3
<1>5. ASSUME NEW r \in Reconcilers, NEW u \in Urls, AddManaged(r, u) \/ RemoveManaged(r, u)
      PROVE  proc' \in [Procs -> ProcState]
  <2>1. r \in Procs
    BY DEF Procs
  <2>2. /\ [proc[r] EXCEPT !.add = @ \ {u}, !.changed = TRUE] \in ProcState
        /\ [proc[r] EXCEPT !.add = @ \ {u}] \in ProcState
        /\ [proc[r] EXCEPT !.remove = @ \ {u}, !.changed = TRUE] \in ProcState
        /\ [proc[r] EXCEPT !.remove = @ \ {u}] \in ProcState
    BY <1>a, <2>1 DEF ProcState
  <2>3. \/ Goto(r, "restore")
        \/ proc' = [proc EXCEPT ![r] = [proc[r] EXCEPT !.add = @ \ {u}, !.changed = TRUE]]
        \/ proc' = [proc EXCEPT ![r] = [proc[r] EXCEPT !.add = @ \ {u}]]
        \/ proc' = [proc EXCEPT ![r] = [proc[r] EXCEPT !.remove = @ \ {u}, !.changed = TRUE]]
        \/ proc' = [proc EXCEPT ![r] = [proc[r] EXCEPT !.remove = @ \ {u}]]
    BY <1>5 DEF AddManaged, RemoveManaged
  <2> QED BY <1>a, <2>1, <2>2, <2>3, GotoTyped
<1>6. ASSUME NEW r \in Reconcilers, Changed(r) \/ RestoreSnapshot(r)
      PROVE  proc' \in [Procs -> ProcState]
  BY <1>a, <1>6, GotoTyped DEF Changed, RestoreSnapshot, Procs
<1>7. CASE Restart
  BY <1>7 DEF Restart, IdleProc, ProcState
<1>8. ASSUME NEW d \in DesiredSets, DesiredChanges(d) PROVE proc' \in [Procs -> ProcState]
  BY <1>a, <1>8 DEF DesiredChanges
<1>9. CASE UNCHANGED subsVars
  BY <1>a, <1>9 DEF subsVars
<1> QED BY <1>1, <1>2, <1>3, <1>4, <1>5, <1>6, <1>7, <1>8, <1>9
        DEF SubsNext, BotStep, ReconcilerStep, Procs

-----------------------------------------------------------------------------
(* Every step keeps each part of the invariant.                            *)

\* Types.
LEMMA SubsTypedNext == SubsInv /\ [SubsNext]_subsVars => SubsTyped'
<1> SUFFICES ASSUME SubsInv, [SubsNext]_subsVars PROVE SubsTyped'
  OBVIOUS
<1>1. StoreTyped' /\ (proc \in [Procs -> ProcState])'
  BY StoreTypedNext, ProcTypedNext
<1>2. SubsTyped
  BY DEF SubsInv
<1>3. events' \in 0..MaxEvents /\ failed' \in BOOLEAN
  <2>1. ASSUME NEW u \in Urls, AddSub(u) \/ DelSub(u) PROVE Counted
    BY <2>1 DEF Counted, AddSub, DelSub, Command
  <2>2. ASSUME NEW q \in Procs, Steps(q) PROVE Counted
    BY <2>2 DEF Counted, Steps, Fetch, Apply, ReloadFails, noEvent
  <2>3. ASSUME Rollback PROVE Counted
    <3>1. UNCHANGED noEvent \/ \E d, m : WriteFails(d, m)
      BY <2>3 DEF Rollback, noEvent
    <3> QED BY <3>1 DEF Counted, WriteFails
  <2>4. ASSUME NEW r \in Reconcilers, Answer(r) \/ Plan(r) \/ Changed(r) PROVE Counted
    BY <2>4 DEF Counted, Answer, Plan, Changed, noEvent
  <2>5. ASSUME NEW r \in Reconcilers, NEW u \in Urls, AddManaged(r, u) \/ RemoveManaged(r, u)
        PROVE  Counted
    BY <2>5 DEF Counted, AddManaged, RemoveManaged, WriteFails, noEvent
  <2>6. ASSUME NEW r \in Reconcilers, RestoreSnapshot(r) PROVE Counted
    BY <2>6 DEF Counted, RestoreSnapshot, Restore
  <2>7. ASSUME Restart \/ \E d \in DesiredSets : DesiredChanges(d) PROVE Counted
    BY <2>7 DEF Counted, Restart, DesiredChanges
  <2>8. ASSUME UNCHANGED subsVars PROVE Counted
    <3>1. UNCHANGED noEvent
      BY <2>8 DEF subsVars, noEvent
    <3> QED BY <3>1 DEF Counted
  <2>9. Counted
    BY <2>1, <2>2, <2>3, <2>4, <2>5, <2>6, <2>7, <2>8
       DEF SubsNext, BotStep, ReconcilerStep, Procs
  <2> QED BY <1>2, <2>9, EventTyped DEF SubsTyped
<1>4. applied' \subseteq Urls /\ own' \subseteq Urls
  <2> DEFINE Within == applied' \subseteq Urls /\ own' \subseteq Urls
  <2>1. ASSUME NEW u \in Urls, AddSub(u) \/ DelSub(u) PROVE Within
    BY <1>2, <2>1 DEF AddSub, DelSub, SubsTyped
  <2>2. ASSUME NEW q \in Procs, Apply(q) PROVE Within
    <3>1. proc[q].list \subseteq Urls /\ proc[q].url \subseteq Urls
      BY <1>2 DEF SubsTyped, ProcState
    <3> QED BY <1>2, <2>2, <3>1 DEF Apply, SubsTyped
  <2>3. CASE Restart
    BY <1>2, <2>3, SubsAssumption DEF Restart, SubsTyped, Dynamic
  <2>4. CASE UNCHANGED <<applied, own>>
    BY <1>2, <2>4 DEF SubsTyped
  <2>5. ASSUME NEW q \in Procs, Fetch(q) \/ ReloadFails(q) PROVE UNCHANGED <<applied, own>>
    BY <2>5 DEF Fetch, ReloadFails
  <2>6. ASSUME NEW r \in Reconcilers,
               \/ Answer(r) \/ Plan(r) \/ Changed(r) \/ RestoreSnapshot(r)
               \/ \E u \in Urls : AddManaged(r, u) \/ RemoveManaged(r, u)
        PROVE  UNCHANGED <<applied, own>>
    BY <2>6 DEF Answer, Plan, Changed, RestoreSnapshot, AddManaged, RemoveManaged
  <2>7. ASSUME Rollback \/ \E d \in DesiredSets : DesiredChanges(d)
        PROVE  UNCHANGED <<applied, own>>
    BY <2>7 DEF Rollback, DesiredChanges
  <2>8. CASE UNCHANGED subsVars
    BY <2>4, <2>8 DEF subsVars
  <2> QED BY <2>1, <2>2, <2>3, <2>4, <2>5, <2>6, <2>7, <2>8
          DEF SubsNext, BotStep, Steps, ReconcilerStep, Procs
<1>5. desired' \in DesiredSets /\ up' \in BOOLEAN
  <2> DEFINE Typed == desired' \in DesiredSets /\ up' \in BOOLEAN
  <2>1. CASE Restart
    BY <1>2, <2>1 DEF Restart, SubsTyped
  <2>2. ASSUME NEW d \in DesiredSets, DesiredChanges(d) PROVE Typed
    BY <1>2, <2>2 DEF DesiredChanges, SubsTyped
  <2>3. CASE UNCHANGED <<desired, up>>
    BY <1>2, <2>3 DEF SubsTyped
  <2>4. ASSUME NEW u \in Urls, AddSub(u) \/ DelSub(u) PROVE UNCHANGED <<desired, up>>
    BY <2>4 DEF AddSub, DelSub
  <2>5. ASSUME NEW q \in Procs, Steps(q) \/ Rollback PROVE UNCHANGED <<desired, up>>
    BY <2>5 DEF Steps, Fetch, Apply, ReloadFails, Rollback
  <2>6. ASSUME NEW r \in Reconcilers,
               \/ Answer(r) \/ Plan(r) \/ Changed(r) \/ RestoreSnapshot(r)
               \/ \E u \in Urls : AddManaged(r, u) \/ RemoveManaged(r, u)
        PROVE  UNCHANGED <<desired, up>>
    BY <2>6 DEF Answer, Plan, Changed, RestoreSnapshot, AddManaged, RemoveManaged
  <2>7. CASE UNCHANGED subsVars
    BY <2>3, <2>7 DEF subsVars
  <2> QED BY <2>1, <2>2, <2>3, <2>4, <2>5, <2>6, <2>7
          DEF SubsNext, BotStep, ReconcilerStep, Procs
<1> QED BY <1>1, <1>3, <1>4, <1>5 DEF SubsTyped, StoreTyped

\* reloadMu: a reload begins when no other is being applied.
LEMMA OneApplyNext == SubsInv /\ [SubsNext]_subsVars => NoDuplicate(Applying)'
<1> SUFFICES ASSUME SubsTyped, NoDuplicate(Applying), [SubsNext]_subsVars
             PROVE  NoDuplicate(Applying)'
  BY DEF SubsInv
<1> USE SubsAssumption DEF SubsTyped, NoDuplicate, Applying, ProcState, Procs,
        IdleProc, At, Goto, Return, store, noEvent
<1>1. ASSUME NEW u \in Urls, AddSub(u) PROVE NoDuplicate(Applying)'
  BY <1>1 DEF AddSub, Command, Event, Write
<1>2. ASSUME NEW u \in Urls, DelSub(u) PROVE NoDuplicate(Applying)'
  BY <1>2 DEF DelSub, Command, Event, Write
<1>3. ASSUME Rollback PROVE NoDuplicate(Applying)'
  BY <1>3 DEF Rollback, Write, WriteFails, Fault, Event
<1>4. ASSUME NEW q \in Procs, Fetch(q) PROVE NoDuplicate(Applying)'
  BY <1>4 DEF Fetch, All
<1>5. ASSUME NEW q \in Procs, Apply(q) PROVE NoDuplicate(Applying)'
  BY <1>5 DEF Apply
<1>6. ASSUME NEW q \in Procs, ReloadFails(q) PROVE NoDuplicate(Applying)'
  BY <1>6 DEF ReloadFails, Fault, Event
<1>7. ASSUME NEW d \in DesiredSets, DesiredChanges(d) PROVE NoDuplicate(Applying)'
  BY <1>7 DEF DesiredChanges, Event
<1>8. ASSUME NEW r \in Reconcilers, Answer(r) PROVE NoDuplicate(Applying)'
  BY <1>8 DEF Answer
<1>9. ASSUME NEW r \in Reconcilers, Plan(r) PROVE NoDuplicate(Applying)'
  BY <1>9 DEF Plan, ToRemove, Managed, All
<1>10. ASSUME NEW r \in Reconcilers, NEW u \in Urls, AddManaged(r, u)
       PROVE  NoDuplicate(Applying)'
  BY <1>10 DEF AddManaged, Write, WriteFails, Fault, Event
<1>11. ASSUME NEW r \in Reconcilers, NEW u \in Urls, RemoveManaged(r, u)
       PROVE  NoDuplicate(Applying)'
  BY <1>11 DEF RemoveManaged, Managed, Write, WriteFails, Fault, Event
<1>12. ASSUME NEW r \in Reconcilers, Changed(r) PROVE NoDuplicate(Applying)'
  BY <1>12 DEF Changed
<1>13. ASSUME NEW r \in Reconcilers, RestoreSnapshot(r) PROVE NoDuplicate(Applying)'
  BY <1>13 DEF RestoreSnapshot, Restore, Write, Fault, Event
<1>14. ASSUME Restart PROVE NoDuplicate(Applying)'
  BY <1>14 DEF Restart, Event
<1>15. CASE UNCHANGED subsVars
  BY <1>15 DEF subsVars
<1> QED BY <1>1, <1>2, <1>3, <1>4, <1>5, <1>6, <1>7, <1>8, <1>9, <1>10, <1>11, <1>12,
        <1>13, <1>14, <1>15 DEF SubsNext, BotStep, Steps, ReconcilerStep

\* What a goroutine carries: it is set by Answer, Plan and AddSub only.
LEMMA CarriedNext == SubsInv /\ [SubsNext]_subsVars => Carried'
<1> SUFFICES ASSUME SubsTyped, Carried, [SubsNext]_subsVars PROVE Carried'
  BY DEF SubsInv
<1> USE SubsAssumption DEF SubsTyped, Carried, Dynamic, ProcState, Procs, IdleProc,
        Listed, At, Goto, Return, store, noEvent
<1>1. ASSUME NEW u \in Urls, AddSub(u) PROVE Carried'
  BY <1>1 DEF AddSub, Command, Event, Write
<1>2. ASSUME NEW u \in Urls, DelSub(u) PROVE Carried'
  BY <1>2 DEF DelSub, Command, Event, Write
<1>3. ASSUME Rollback PROVE Carried'
  BY <1>3 DEF Rollback, Write, WriteFails, Fault, Event
<1>4. ASSUME NEW q \in Procs, Fetch(q) PROVE Carried'
  BY <1>4 DEF Fetch, All
<1>5. ASSUME NEW q \in Procs, Apply(q) PROVE Carried'
  BY <1>5 DEF Apply
<1>6. ASSUME NEW q \in Procs, ReloadFails(q) PROVE Carried'
  BY <1>6 DEF ReloadFails, Fault, Event
<1>7. ASSUME NEW d \in DesiredSets, DesiredChanges(d) PROVE Carried'
  BY <1>7 DEF DesiredChanges, Event
<1>8. ASSUME NEW r \in Reconcilers, Answer(r) PROVE Carried'
  BY <1>8 DEF Answer
<1>9. ASSUME NEW r \in Reconcilers, Plan(r) PROVE Carried'
  BY <1>9 DEF Plan, ToRemove, Managed, All
<1>10. ASSUME NEW r \in Reconcilers, NEW u \in Urls, AddManaged(r, u) PROVE Carried'
  BY <1>10 DEF AddManaged, Write, WriteFails, Fault, Event
<1>11. ASSUME NEW r \in Reconcilers, NEW u \in Urls, RemoveManaged(r, u) PROVE Carried'
  BY <1>11 DEF RemoveManaged, Managed, Write, WriteFails, Fault, Event
<1>12. ASSUME NEW r \in Reconcilers, Changed(r) PROVE Carried'
  BY <1>12 DEF Changed
<1>13. ASSUME NEW r \in Reconcilers, RestoreSnapshot(r) PROVE Carried'
  BY <1>13 DEF RestoreSnapshot, Restore, Write, Fault, Event
<1>14. ASSUME Restart PROVE Carried'
  BY <1>14 DEF Restart, Event
<1>15. CASE UNCHANGED subsVars
  BY <1>15 DEF subsVars
<1> QED BY <1>1, <1>2, <1>3, <1>4, <1>5, <1>6, <1>7, <1>8, <1>9, <1>10, <1>11, <1>12,
        <1>13, <1>14, <1>15 DEF SubsNext, BotStep, Steps, ReconcilerStep

\* A run without failures.
LEMMA NothingFailedNext == SubsInv /\ [SubsNext]_subsVars => NothingFailed'
<1> SUFFICES ASSUME SubsTyped, Carried, NothingFailed, [SubsNext]_subsVars
             PROVE  NothingFailed'
  BY DEF SubsInv
<1> USE SubsAssumption DEF SubsTyped, Carried, NothingFailed, OnDisk, ProcState, Procs,
        IdleProc, Listed, At, Goto, Return, store, noEvent
<1>1. ASSUME NEW u \in Urls, AddSub(u) PROVE NothingFailed'
  BY <1>1 DEF AddSub, Command, Event, Write
<1>2. ASSUME NEW u \in Urls, DelSub(u) PROVE NothingFailed'
  BY <1>2 DEF DelSub, Command, Event, Write
<1>3. ASSUME Rollback PROVE NothingFailed'
  BY <1>3 DEF Rollback, Write, WriteFails, Fault, Event
<1>4. ASSUME NEW q \in Procs, Fetch(q) PROVE NothingFailed'
  BY <1>4 DEF Fetch, All
<1>5. ASSUME NEW q \in Procs, Apply(q) PROVE NothingFailed'
  BY <1>5 DEF Apply
<1>6. ASSUME NEW q \in Procs, ReloadFails(q) PROVE NothingFailed'
  BY <1>6 DEF ReloadFails, Fault, Event
<1>7. ASSUME NEW d \in DesiredSets, DesiredChanges(d) PROVE NothingFailed'
  BY <1>7 DEF DesiredChanges, Event
<1>8. ASSUME NEW r \in Reconcilers, Answer(r) PROVE NothingFailed'
  BY <1>8 DEF Answer
<1>9. ASSUME NEW r \in Reconcilers, Plan(r) PROVE NothingFailed'
  BY <1>9 DEF Plan, ToRemove, Managed, All
<1>10. ASSUME NEW r \in Reconcilers, NEW u \in Urls, AddManaged(r, u) PROVE NothingFailed'
  <2>1. u \in Listed
    BY <1>10 DEF AddManaged
  <2>2. CASE failed'
    BY <2>2
  <2>3. CASE /\ ~failed /\ ~failed' /\ Write(dynamic \cup {u}, managed \cup {u}, FALSE)
             /\ proc' = [proc EXCEPT ![r].add = @ \ {u}, ![r].changed = TRUE]
    <3>1. /\ \A x \in Procs : proc'[x].pc = proc[x].pc
          /\ proc'["bot"] = proc["bot"]
      BY <2>3 DEF AddManaged, Write
    <3> QED BY <1>10, <2>1, <2>3, <3>1 DEF AddManaged, Write
  <2>4. CASE /\ ~failed /\ ~failed' /\ UNCHANGED store
             /\ proc' = [proc EXCEPT ![r].add = @ \ {u}]
    <3>1. /\ \A x \in Procs : proc'[x].pc = proc[x].pc
          /\ proc'["bot"] = proc["bot"]
      BY <2>4
    <3> QED BY <1>10, <2>4, <3>1 DEF AddManaged
  <2> QED BY <1>10, <2>2, <2>3, <2>4 DEF AddManaged, WriteFails, Fault
<1>11. ASSUME NEW r \in Reconcilers, NEW u \in Urls, RemoveManaged(r, u) PROVE NothingFailed'
  <2>1. CASE failed'
    BY <2>1
  <2>2. CASE /\ ~failed /\ ~failed' /\ u \in Managed
             /\ Write(dynamic \ {u}, managed \ {u}, FALSE)
             /\ proc' = [proc EXCEPT ![r].remove = @ \ {u}, ![r].changed = TRUE]
    BY <1>11, <2>2 DEF RemoveManaged, Managed, Write
  <2>3. CASE /\ ~failed /\ ~failed' /\ UNCHANGED store
             /\ proc' = [proc EXCEPT ![r].remove = @ \ {u}]
    <3>1. /\ \A x \in Procs : proc'[x].pc = proc[x].pc
          /\ proc'["bot"] = proc["bot"]
      BY <2>3
    <3> QED BY <1>11, <2>3, <3>1 DEF RemoveManaged
  <2>4. \/ failed'
        \/ /\ failed' = failed /\ u \in Managed
           /\ Write(dynamic \ {u}, managed \ {u}, FALSE)
           /\ proc' = [proc EXCEPT ![r].remove = @ \ {u}, ![r].changed = TRUE]
        \/ /\ failed' = failed /\ UNCHANGED store
           /\ proc' = [proc EXCEPT ![r].remove = @ \ {u}]
    BY <1>11 DEF RemoveManaged, WriteFails, Fault
  <2> QED BY <2>1, <2>2, <2>3, <2>4, Zenon
<1>12. ASSUME NEW r \in Reconcilers, Changed(r) PROVE NothingFailed'
  BY <1>12 DEF Changed
<1>13. ASSUME NEW r \in Reconcilers, RestoreSnapshot(r) PROVE NothingFailed'
  BY <1>13 DEF RestoreSnapshot, Restore, Write, Fault, Event
<1>14. ASSUME Restart PROVE NothingFailed'
  BY <1>14 DEF Restart, Event
<1>15. CASE UNCHANGED subsVars
  BY <1>15 DEF subsVars
<1> QED BY <1>1, <1>2, <1>3, <1>4, <1>5, <1>6, <1>7, <1>8, <1>9, <1>10, <1>11, <1>12,
        <1>13, <1>14, <1>15 DEF SubsNext, BotStep, Steps, ReconcilerStep

-----------------------------------------------------------------------------
(* The theorems.                                                           *)

\* The store starts empty, on disk and in memory.
LEMMA SubsInvInit == SubsInit => SubsInv
<1> SUFFICES ASSUME SubsInit PROVE SubsInv
  OBVIOUS
<1> USE SubsAssumption DEF SubsInit
<1>1. SubsTyped
  <2>1. proc \in [Procs -> ProcState]
    BY DEF IdleProc, ProcState
  <2>2. /\ file \in [dynamic : SUBSET Dynamic, managed : SUBSET Dynamic, null : BOOLEAN]
        /\ file.null => file.dynamic = {}
    OBVIOUS
  <2>3. applied \subseteq Urls /\ own \subseteq Urls /\ desired \in DesiredSets
    OBVIOUS
  <2>4. up \in BOOLEAN /\ failed \in BOOLEAN
    OBVIOUS
  <2>5. events \in 0..MaxEvents
    OBVIOUS
  <2>6. dynamic \subseteq Dynamic /\ managed \subseteq Dynamic
    OBVIOUS
  <2> HIDE DEF SubsInit
  <2> QED BY <2>1, <2>2, <2>3, <2>4, <2>5, <2>6 DEF SubsTyped
<1>2. NoDuplicate(Applying)
  BY DEF NoDuplicate, Applying, IdleProc
<1>3. Carried
  BY DEF Carried, IdleProc
<1>4. NothingFailed
  BY DEF NothingFailed, OnDisk, IdleProc, Procs
<1> QED BY <1>1, <1>2, <1>3, <1>4 DEF SubsInv

\* The invariant is kept.
THEOREM SubsInvariant == SubsSpec => []SubsInv
<1>1. SubsInv /\ [SubsNext]_subsVars => SubsInv'
  BY SubsTypedNext, OneApplyNext, CarriedNext, NothingFailedNext DEF SubsInv
<1> QED BY <1>1, SubsInvInit, PTL DEF SubsSpec

\* Every state is well typed, no configured URL is ever stored as a dynamic one, and
\* one reload is applied at a time.
THEOREM SubsTypeCorrect == SubsSpec => []SubsTypeOK
<1>1. SubsInv => SubsTypeOK
  BY AtMostOne DEF SubsInv, SubsTyped, SubsTypeOK, Applying, Dynamic
<1> QED BY <1>1, SubsInvariant, PTL

\* While nothing fails, no subscription of the admin that the master never lists is
\* lost, whatever overlaps.
THEOREM AdminKeepsSubscriptions == SubsSpec => []NeverListedStays
<1>1. SubsInv => NeverListedStays
  BY DEF SubsInv, NothingFailed, NeverListedStays, Listed
<1> QED BY <1>1, SubsInvariant, PTL

\* Only the revert of a reconciliation can part the store from its file: a write that
\* fails puts memory back, whichever operation it was part of.
THEOREM DiskFollowsMemory == SubsSpec => StoreStaysOnDisk
<1> DEFINE Followed == OnDisk => OnDisk' \/ \E r \in Reconcilers : At(r, "restore")
<1>1. [SubsNext]_subsVars => [Followed]_subsVars
  <2> SUFFICES ASSUME SubsNext, OnDisk PROVE Followed
    OBVIOUS
  <2>1. CASE UNCHANGED store
    BY <2>1 DEF store, OnDisk
  <2>2. ASSUME NEW d, NEW m, NEW n, Write(d, m, n) PROVE OnDisk'
    BY <2>2 DEF Write, OnDisk
  <2>3. ASSUME NEW u \in Urls, AddSub(u) \/ DelSub(u) PROVE OnDisk'
    BY <2>2, <2>3 DEF AddSub, DelSub
  <2>4. CASE Rollback
    BY <2>1, <2>2, <2>4 DEF Rollback, WriteFails, store
  <2>5. ASSUME NEW r \in Reconcilers, NEW u \in Urls, AddManaged(r, u) \/ RemoveManaged(r, u)
        PROVE  Followed
    BY <2>1, <2>2, <2>5 DEF AddManaged, RemoveManaged, WriteFails
  <2>6. ASSUME NEW r \in Reconcilers, RestoreSnapshot(r) PROVE Followed
    BY <2>6 DEF RestoreSnapshot
  <2>7. CASE Restart
    BY <2>7 DEF Restart, OnDisk
  <2>8. ASSUME \/ \E q \in Procs : Steps(q)
               \/ \E r \in Reconcilers : Answer(r) \/ Plan(r) \/ Changed(r)
               \/ \E d \in DesiredSets : DesiredChanges(d)
        PROVE  UNCHANGED store
    BY <2>8 DEF Steps, Fetch, Apply, ReloadFails, Answer, Plan, Changed,
       DesiredChanges, store
  <2> QED BY <2>1, <2>3, <2>4, <2>5, <2>6, <2>7, <2>8
          DEF SubsNext, BotStep, ReconcilerStep, Procs
<1> QED BY <1>1, PTL DEF SubsSpec, StoreStaysOnDisk

=============================================================================
