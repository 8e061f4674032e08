------------------------- MODULE CheckCycle_proofs -------------------------
(***************************************************************************)
(* Proofs that the safety properties of CheckCycle hold for every set of   *)
(* proxies and subscriptions, any number of checkers and reloaders, every  *)
(* choice of failures and any number of restarts.                          *)
(***************************************************************************)
EXTENDS CheckCycle, SmallSets, TLAPS

CyclePcs == {"wait", "check", "emit", "unlocked"}
InCycle == {q \in Procs : proc[q].pc \in CyclePcs}

\* A reload that has swapped the list and has not pruned the results yet.
Unpruned == {r \in Reloaders : proc[r].pc \in CyclePcs \cup {"save", "recheck", "prune"}}

AllPcs == CyclePcs \cup {"idle", "fetch", "lock", "stop", "start", "save", "recheck", "prune"}

(***************************************************************************)
(* The inductive invariant, in the order of the code's two locks and of    *)
(* what they protect.                                                      *)
(***************************************************************************)

\* Types of the state.
CycleTyped ==
    /\ remote \in Sets
    /\ configs \subseteq Proxies /\ proxies \subseteq Proxies /\ file \subseteq Proxies
    /\ xray = Stopped \/ \E s \in SUBSET Proxies : xray = {s}
    /\ DOMAIN results \subseteq Proxies
    /\ results \in [DOMAIN results -> {"through", "refused"}]
    /\ running \in BOOLEAN /\ cache \subseteq Proxies /\ starts \in 0..MaxStarts
    /\ proc \in [Procs -> ProcState]

\* reloadMu and checkIterationRunning: one reload, one cycle.  A checker never
\* reloads.
Exclusive ==
    /\ NoDuplicate(Reloading)
    /\ NoDuplicate(InCycle)
    /\ running <=> InCycle # {}
    /\ \A q \in Checkers : proc[q].pc \in CyclePcs \cup {"idle"}

\* checkRunnerMu, and what a cycle still has to check.
ReadersAndWriters ==
    /\ Updating = {} \/ Readers = {}
    /\ \A q \in Procs : proc[q].todo \subseteq (IF At(q, "check") THEN proxies ELSE {})

\* The list, Xray and its file, also in the middle of an update.
OneList ==
    /\ configs = proxies
    /\ xray = Stopped \/ xray = {proxies}
    /\ xray = Stopped \/ file = proxies \/ Updating # {}
    /\ \A r \in Updating : file = Valid(proc[r].new)
    /\ \A r \in Reloaders : At(r, "start") => xray = Stopped
    /\ \A r \in Reloaders : At(r, "save") => configs = Valid(proc[r].new)

\* Results outlive the swap of the list until the reload prunes them.
ResultsKept == DOMAIN results \subseteq proxies \/ Unpruned # {}

CycleInv ==
    CycleTyped /\ Exclusive /\ ReadersAndWriters /\ OneList /\ ResultsKept /\ CacheIsCurrent

-----------------------------------------------------------------------------
(* How the actions move a goroutine.                                       *)

\* Goto changes one pc and nothing else of any goroutine.
LEMMA GotoEffect ==
    ASSUME CycleTyped, NEW q \in Procs, NEW pc \in AllPcs, Goto(q, pc)
    PROVE  /\ proc' \in [Procs -> ProcState]
           /\ proc'[q].pc = pc
           /\ proc'[q].new = proc[q].new /\ proc'[q].todo = proc[q].todo
           /\ \A x \in Procs \ {q} : proc'[x] = proc[x]
<1> USE DEF CycleTyped, Goto, ProcState, AllPcs, CyclePcs
<1>1. proc[q] \in ProcState
  OBVIOUS
<1>2. [proc[q] EXCEPT !.pc = pc] \in ProcState
  BY <1>1
<1>3. proc' = [proc EXCEPT ![q] = [proc[q] EXCEPT !.pc = pc]]
  OBVIOUS
<1> QED BY <1>1, <1>2, <1>3

\* Return, and a fetch that ends with the set s, start over from IdleProc.
LEMMA ReturnEffect ==
    ASSUME CycleTyped, NEW q \in Procs, NEW pc \in AllPcs, NEW s \in SUBSET Proxies,
           proc' = [proc EXCEPT ![q] = [IdleProc EXCEPT !.pc = pc, !.new = s]]
    PROVE  /\ proc' \in [Procs -> ProcState]
           /\ proc'[q].pc = pc /\ proc'[q].new = s /\ proc'[q].todo = {}
           /\ \A x \in Procs \ {q} : proc'[x] = proc[x]
<1>1. [IdleProc EXCEPT !.pc = pc, !.new = s] \in ProcState
  BY DEF IdleProc, ProcState, AllPcs, CyclePcs
<1> QED BY <1>1 DEF CycleTyped, IdleProc

\* What a goroutine does keeps proc well typed (one step per way to change it).
LEMMA ProcTyped ==
    ASSUME CycleTyped, NEW q \in Procs,
           CycleStep(q) \/ (q \in Reloaders /\ (Fetch(q) \/ ReloadStep(q)))
    PROVE  proc' \in [Procs -> ProcState]
<1>1. ASSUME NEW pc \in AllPcs, Goto(q, pc) PROVE proc' \in [Procs -> ProcState]
  BY <1>1, GotoEffect
<1>2. ASSUME Return(q) PROVE proc' \in [Procs -> ProcState]
  BY <1>2 DEF Return, CycleTyped, IdleProc, ProcState
<1>3. CASE Fetch(q)
  <2>1. PICK s \in {remote} \cup Fetched :
           proc' = [proc EXCEPT ![q] = [IdleProc EXCEPT !.pc = "fetch", !.new = s]]
    BY <1>3 DEF Fetch
  <2>2. s \in SUBSET Proxies
    BY CycleAssumption DEF CycleTyped, Fetched
  <2> QED BY <2>1, <2>2, ReturnEffect DEF AllPcs
<1>4. CASE BeginChecks(q)
  <2>1. [proc[q] EXCEPT !.pc = "check", !.todo = proxies] \in ProcState
    BY DEF CycleTyped, ProcState
  <2> QED BY <1>4, <2>1 DEF BeginChecks, CycleTyped
<1>5. ASSUME NEW p \in Proxies, StoreResult(q, p) PROVE proc' \in [Procs -> ProcState]
  <2>1. [proc[q] EXCEPT !.todo = @ \ {p}] \in ProcState
    BY DEF CycleTyped, ProcState
  <2> QED BY <1>5, <2>1 DEF StoreResult, CycleTyped
<1>6. CASE \/ StartCycle(q) \/ SkipChecks(q) \/ Emit(q) \/ ReadUnlock(q) \/ EndCycle(q)
  BY <1>1, <1>6 DEF StartCycle, SkipChecks, Emit, ReadUnlock, EndCycle, AllPcs, CyclePcs
<1>7. CASE q \in Reloaders /\ ReloadStep(q)
  BY <1>1, <1>2, <1>7 DEF ReloadStep, SkipCycle, FetchFails, NothingChanged,
     RequestLock,
     Generate, GenerateFails, StopXray, StartXray, StartFails, SaveProxyCache,
     PruneStaleResults, AllPcs, CyclePcs
<1> QED BY <1>3, <1>4, <1>5, <1>6, <1>7 DEF CycleStep

\* The steps of a reload that touch neither the list nor Xray nor the results only
\* move the goroutine.
QuietReload(r) == SkipCycle(r) \/ FetchFails(r) \/ NothingChanged(r) \/ RequestLock(r)
                  \/ GenerateFails(r)
QuietMoves == {<<"recheck", "prune">>, <<"fetch", "idle">>, <<"fetch", "lock">>,
               <<"lock", "idle">>, <<"idle", "fetch">>}

LEMMA QuietReloadEffect ==
    ASSUME CycleTyped, NEW r \in Reloaders, QuietReload(r) \/ Fetch(r)
    PROVE  /\ UNCHANGED <<configs, proxies, file, xray, results, running, cache>>
           /\ \A x \in Procs \ {r} : proc'[x] = proc[x]
           /\ <<proc[r].pc, proc'[r].pc>> \in QuietMoves
           /\ proc'[r].todo \subseteq proc[r].todo
           /\ proc' \in [Procs -> ProcState]
<1> USE DEF At, Procs, keptVars, QuietMoves, Return, IdleProc
<1>1. proc' \in [Procs -> ProcState] /\ r \in Procs
  BY ProcTyped DEF QuietReload, ReloadStep
<1>2. CASE SkipCycle(r)
  BY <1>1, <1>2, GotoEffect DEF SkipCycle, AllPcs
<1>3. CASE RequestLock(r)
  BY <1>1, <1>3, GotoEffect DEF RequestLock, AllPcs
<1>4. CASE FetchFails(r) \/ NothingChanged(r) \/ GenerateFails(r)
  BY <1>1, <1>4 DEF FetchFails, NothingChanged, GenerateFails, CycleTyped
<1>5. CASE Fetch(r)
  <2>1. /\ UNCHANGED <<configs, proxies, file, xray, results, running, cache>>
        /\ proc[r].pc = "idle"
        /\ \E s : proc' = [proc EXCEPT ![r] = [IdleProc EXCEPT !.pc = "fetch", !.new = s]]
    BY <1>5 DEF Fetch, Reloading
  <2> QED BY <1>1, <2>1 DEF CycleTyped
<1> QED BY <1>2, <1>3, <1>4, <1>5 DEF QuietReload

\* Inside a cycle only the checks and their results change.
LEMMA InsideCycleEffect ==
    ASSUME CycleTyped, NEW q \in Procs,
           \/ BeginChecks(q) \/ SkipChecks(q) \/ Emit(q) \/ ReadUnlock(q)
           \/ \E p \in Proxies : StoreResult(q, p)
    PROVE  /\ UNCHANGED <<configs, proxies, file, xray, running, cache>>
           /\ \A x \in Procs \ {q} : proc'[x] = proc[x]
           /\ proc[q].pc \in CyclePcs /\ proc'[q].pc \in CyclePcs
           /\ proc'[q].new = proc[q].new
<1> USE DEF At, CyclePcs, keptVars
<1>1. CASE SkipChecks(q) \/ Emit(q) \/ ReadUnlock(q)
  BY <1>1, GotoEffect DEF SkipChecks, Emit, ReadUnlock, AllPcs
<1>2. CASE BeginChecks(q)
  BY <1>2 DEF BeginChecks, CycleTyped, ProcState
<1>3. ASSUME NEW p \in Proxies, StoreResult(q, p) 
      PROVE  /\ UNCHANGED <<configs, proxies, file, xray, running, cache>>
             /\ \A x \in Procs \ {q} : proc'[x] = proc[x]
             /\ proc[q].pc = "check" /\ proc'[q].pc = "check"
             /\ proc'[q].new = proc[q].new
  BY <1>3 DEF StoreResult, CycleTyped, ProcState
<1> QED BY <1>1, <1>2, <1>3

-----------------------------------------------------------------------------
(* Every step keeps each part of the invariant.                            *)

\* Types.
LEMMA CycleTypedNext == CycleInv /\ [CycleNext]_cycleVars => CycleTyped'
<1> SUFFICES ASSUME CycleTyped, ReadersAndWriters, [CycleNext]_cycleVars
             PROVE  CycleTyped'
  BY DEF CycleInv
<1> USE DEF keptVars
<1>1. ASSUME NEW q \in Procs, CycleStep(q) PROVE CycleTyped'
  <2>1. proc' \in [Procs -> ProcState]
    BY <1>1, ProcTyped
  <2>2. UNCHANGED <<remote, configs, proxies, file, xray, keptVars>> /\ running' \in BOOLEAN
    BY <1>1 DEF CycleTyped, CycleStep, StartCycle, BeginChecks, SkipChecks, StoreResult,
       Emit, ReadUnlock, EndCycle
  <2>3. \/ results' = results
        \/ \E p \in Proxies : results' = [x \in DOMAIN results \cup {p} |->
                                             IF x = p THEN Outcome(p) ELSE results[x]]
    BY <1>1 DEF CycleStep, StartCycle, BeginChecks, SkipChecks, StoreResult, Emit,
       ReadUnlock, EndCycle
  <2>4. DOMAIN results' \subseteq Proxies /\ results' \in [DOMAIN results' -> {"through", "refused"}]
    BY <2>3 DEF CycleTyped, Outcome
  <2> QED BY <2>1, <2>2, <2>4 DEF CycleTyped, Stopped
<1>2. ASSUME NEW r \in Reloaders, Fetch(r) \/ ReloadStep(r) PROVE CycleTyped'
  <2>1. proc' \in [Procs -> ProcState]
    BY <1>2, ProcTyped DEF Procs
  <2>2. remote' = remote /\ running' = running /\ starts' = starts
    BY <1>2 DEF Fetch, ReloadStep, SkipCycle, FetchFails, NothingChanged, RequestLock,
       Generate, GenerateFails, StopXray, StartXray, StartFails, SaveProxyCache,
       PruneStaleResults
  <2>3. proc[r].new \subseteq Proxies /\ Valid(proc[r].new) \subseteq Proxies
    BY DEF CycleTyped, ProcState, Procs, Valid
  <2>4. /\ file' \in {file, Valid(proc[r].new)}
        /\ <<configs', proxies'>> \in {<<configs, proxies>>,
                                       <<Valid(proc[r].new), Valid(proc[r].new)>>}
        /\ xray' \in {xray, Stopped, {file}}
        /\ cache' \in {cache, proc[r].new}
        /\ results' \in {results, [p \in DOMAIN results \cap proxies |-> results[p]]}
    BY <1>2 DEF Fetch, ReloadStep, SkipCycle, FetchFails, NothingChanged, RequestLock,
       Generate, GenerateFails, StopXray, StartXray, StartFails, SaveProxyCache, Saved,
       PruneStaleResults, UpdatedList
  <2>5. DOMAIN results' \subseteq Proxies /\ results' \in [DOMAIN results' -> {"through", "refused"}]
    BY <2>4 DEF CycleTyped
  <2>6. configs' \subseteq Proxies /\ proxies' \subseteq Proxies /\ file' \subseteq Proxies
        /\ cache' \subseteq Proxies
    BY <2>3, <2>4 DEF CycleTyped
  <2>7. xray' = Stopped \/ \E s \in SUBSET Proxies : xray' = {s}
    BY <2>4 DEF CycleTyped
  <2> QED BY <2>1, <2>2, <2>5, <2>6, <2>7 DEF CycleTyped
<1>3. ASSUME Restart PROVE CycleTyped'
  <2>1. PICK s \in SUBSET Proxies : RunsWith(Valid(s)) /\ cache' \in {cache, Valid(s)}
    BY <1>3, CycleAssumption DEF Restart, CycleTyped, Fetched, Saved
  <2>2. Valid(s) \subseteq Proxies
    BY DEF Valid
  <2>3. starts' \in 0..MaxStarts /\ remote' = remote
    BY <1>3, CycleAssumption DEF Restart, CycleTyped
  <2>4. results' \in [DOMAIN results' -> {"through", "refused"}] /\ DOMAIN results' = {}
    BY <2>1 DEF RunsWith
  <2>5. proc' \in [Procs -> ProcState]
    BY <2>1 DEF RunsWith, IdleProc, ProcState
  <2>6. /\ configs' = Valid(s) /\ proxies' = Valid(s) /\ file' = Valid(s)
        /\ xray' = {Valid(s)} /\ running' = FALSE
    BY <2>1 DEF RunsWith
  <2>7. cache' \subseteq Proxies
    BY <2>1, <2>2 DEF CycleTyped
  <2> QED BY <2>2, <2>3, <2>4, <2>5, <2>6, <2>7 DEF CycleTyped
<1>4. ASSUME NEW s \in Sets, SourceChanges(s) PROVE CycleTyped'
  BY <1>4 DEF SourceChanges, CycleTyped
<1>5. CASE UNCHANGED cycleVars
  BY <1>5 DEF cycleVars, CycleTyped
<1> QED BY <1>1, <1>2, <1>3, <1>4, <1>5 DEF CycleNext

\* The two exclusions.  Only the begin and the end of a cycle and of a reload matter.
LEMMA ExclusiveNext == CycleInv /\ [CycleNext]_cycleVars => Exclusive'
<1> SUFFICES ASSUME CycleTyped, Exclusive, [CycleNext]_cycleVars PROVE Exclusive'
  BY DEF CycleInv
<1> USE CycleAssumption DEF CycleTyped, Exclusive, Reloading, InCycle, NoDuplicate,
        CyclePcs,
        Procs, ProcState, IdleProc, At, Goto, Return
<1>1. ASSUME NEW q \in Procs, StartCycle(q) PROVE Exclusive'
  BY <1>1 DEF StartCycle
<1>2. ASSUME NEW q \in Procs,
             \/ BeginChecks(q) \/ SkipChecks(q) \/ Emit(q) \/ ReadUnlock(q)
             \/ \E p \in Proxies : StoreResult(q, p)
      PROVE  Exclusive'
  BY <1>2, InsideCycleEffect
<1>3. ASSUME NEW q \in Procs, EndCycle(q) PROVE Exclusive'
  BY <1>3 DEF EndCycle
<1>4. ASSUME NEW r \in Reloaders, Fetch(r) PROVE Exclusive'
  BY <1>4 DEF Fetch
<1>5. ASSUME NEW r \in Reloaders, ReloadStep(r) PROVE Exclusive'
  BY <1>5 DEF ReloadStep, SkipCycle, FetchFails, NothingChanged, RequestLock, Generate,
     GenerateFails, StopXray, StartXray, StartFails, SaveProxyCache, PruneStaleResults
<1>6. CASE Restart
  BY <1>6 DEF Restart, RunsWith
<1>7. ASSUME NEW s \in Sets, SourceChanges(s) PROVE Exclusive'
  BY <1>7 DEF SourceChanges
<1>8. CASE UNCHANGED cycleVars
  BY <1>8 DEF cycleVars
<1> QED BY <1>1, <1>2, <1>3, <1>4, <1>5, <1>6, <1>7, <1>8 DEF CycleNext, CycleStep

\* The read-write lock: a cycle takes it when no writer waits, a writer goes on when
\* every reader has left; the list a cycle goes through cannot change meanwhile.
LEMMA ReadersAndWritersNext == CycleInv /\ [CycleNext]_cycleVars => ReadersAndWriters'
<1> SUFFICES ASSUME CycleTyped, Exclusive, ReadersAndWriters, [CycleNext]_cycleVars
             PROVE  ReadersAndWriters'
  BY DEF CycleInv
<1> USE CycleAssumption DEF CycleTyped, Exclusive, ReadersAndWriters, Reloading,
        InCycle,
        NoDuplicate, CyclePcs, Procs, ProcState, IdleProc, At, Goto, Return, Readers,
        Updating
<1>1. ASSUME NEW q \in Procs, BeginChecks(q) \/ SkipChecks(q) PROVE ReadersAndWriters'
  BY <1>1 DEF BeginChecks, SkipChecks, ReadLock, Writers
<1>2. ASSUME NEW q \in Procs, NEW p \in Proxies, StoreResult(q, p) PROVE ReadersAndWriters'
  BY <1>2 DEF StoreResult
<1>3. ASSUME NEW q \in Procs, StartCycle(q) \/ Emit(q) \/ ReadUnlock(q) \/ EndCycle(q)
      PROVE  ReadersAndWriters'
  BY <1>3 DEF StartCycle, Emit, ReadUnlock, EndCycle
<1>4. ASSUME NEW r \in Reloaders, Generate(r) \/ StopXray(r) PROVE ReadersAndWriters'
  BY <1>4 DEF Generate, StopXray
<1>5. ASSUME NEW r \in Reloaders, StartXray(r) PROVE ReadersAndWriters'
  BY <1>5 DEF StartXray
<1>6. ASSUME NEW r \in Reloaders,
             StartFails(r) \/ SaveProxyCache(r) \/ PruneStaleResults(r)
      PROVE  ReadersAndWriters'
  BY <1>6 DEF StartFails, SaveProxyCache, PruneStaleResults
<1>7. ASSUME NEW r \in Reloaders, QuietReload(r) \/ Fetch(r) PROVE ReadersAndWriters'
  BY <1>7, QuietReloadEffect DEF QuietMoves
<1>8. CASE Restart
  BY <1>8 DEF Restart, RunsWith
<1>9. ASSUME NEW s \in Sets, SourceChanges(s) PROVE ReadersAndWriters'
  BY <1>9 DEF SourceChanges
<1>10. CASE UNCHANGED cycleVars
  BY <1>10 DEF cycleVars
<1> QED BY <1>1, <1>2, <1>3, <1>4, <1>5, <1>6, <1>7, <1>8, <1>9, <1>10
        DEF CycleNext, CycleStep, ReloadStep, QuietReload

\* What is built is built again as it is.
LEMMA ValidTwice == ASSUME NEW s PROVE Valid(Valid(s)) = Valid(s)
BY DEF Valid

\* One list.  Only the steps of an update and a restart touch it.
LEMMA OneListNext == CycleInv /\ [CycleNext]_cycleVars => OneList'
<1> SUFFICES ASSUME CycleTyped, Exclusive, OneList, [CycleNext]_cycleVars PROVE OneList'
  BY DEF CycleInv
<1> USE CycleAssumption DEF CycleTyped, Exclusive, OneList, Reloading, NoDuplicate,
        Procs,
        ProcState, IdleProc, At, Goto, Return, Updating
<1>1. ASSUME NEW q \in Procs, CycleStep(q) PROVE OneList'
  <2>1. CASE StartCycle(q) \/ EndCycle(q)
    BY <2>1 DEF StartCycle, EndCycle
  <2> QED BY <1>1, <2>1, InsideCycleEffect DEF CycleStep, CyclePcs
<1>2. ASSUME NEW r \in Reloaders, Generate(r) PROVE OneList'
  BY <1>2 DEF Generate
<1>3. ASSUME NEW r \in Reloaders, StopXray(r) PROVE OneList'
  BY <1>3 DEF StopXray
<1>4. ASSUME NEW r \in Reloaders, StartXray(r) PROVE OneList'
  <2>1. /\ file = Valid(proc[r].new) /\ UNCHANGED file
        /\ xray' = {file} /\ proxies' = file /\ configs' = file
    BY <1>4 DEF StartXray, UpdatedList
  <2>2. /\ proc'[r].pc = "save" /\ proc'[r].new = proc[r].new
        /\ \A x \in Reloaders \ {r} : proc'[x] = proc[x] /\ proc[x].pc = "idle"
    BY <1>4 DEF StartXray
  <2> QED BY <2>1, <2>2
<1>5. ASSUME NEW r \in Reloaders, StartFails(r) PROVE OneList'
  BY <1>5 DEF StartFails
<1>6. ASSUME NEW r \in Reloaders,
             SaveProxyCache(r) \/ PruneStaleResults(r)
      PROVE  OneList'
  BY <1>6 DEF SaveProxyCache, PruneStaleResults
<1>7. ASSUME NEW r \in Reloaders, QuietReload(r) \/ Fetch(r) PROVE OneList'
  <2>1. /\ UNCHANGED <<configs, proxies, file, xray>>
        /\ \A x \in Procs \ {r} : proc'[x] = proc[x]
        /\ proc[r].pc \notin {"stop", "start"} /\ proc'[r].pc \notin {"stop", "start", "save"}
    BY <1>7, QuietReloadEffect DEF QuietMoves
  <2>2. Updating' = Updating
    BY <2>1
  <2> QED BY <2>1, <2>2
<1>8. CASE Restart
  <2>1. \E s : RunsWith(s)
    BY <1>8 DEF Restart
  <2> QED BY <2>1 DEF RunsWith
<1>9. ASSUME NEW s \in Sets, SourceChanges(s) PROVE OneList'
  BY <1>9 DEF SourceChanges
<1>10. CASE UNCHANGED cycleVars
  BY <1>10 DEF cycleVars
<1> QED BY <1>1, <1>2, <1>3, <1>4, <1>5, <1>6, <1>7, <1>8, <1>9, <1>10
        DEF CycleNext, ReloadStep, QuietReload

\* Results.  A cycle stores results of listed proxies only, and the one step that
\* changes the list is followed by PruneStaleResults.
LEMMA ResultsKeptNext == CycleInv /\ [CycleNext]_cycleVars => ResultsKept'
<1> SUFFICES ASSUME CycleTyped, Exclusive, ReadersAndWriters, ResultsKept,
                    [CycleNext]_cycleVars
             PROVE  ResultsKept'
  BY DEF CycleInv
<1> USE CycleAssumption DEF CycleTyped, Exclusive, ReadersAndWriters, ResultsKept,
        CyclePcs,
        Reloading, NoDuplicate, Procs, ProcState, IdleProc, Unpruned, At, Goto, Return
<1>1. ASSUME NEW q \in Procs, NEW p \in Proxies, StoreResult(q, p) PROVE ResultsKept'
  BY <1>1 DEF StoreResult
<1>2. ASSUME NEW q \in Procs,
             \/ StartCycle(q) \/ BeginChecks(q) \/ SkipChecks(q) \/ Emit(q)
             \/ ReadUnlock(q) \/ EndCycle(q)
      PROVE  ResultsKept'
  BY <1>2 DEF StartCycle, BeginChecks, SkipChecks, Emit, ReadUnlock, EndCycle
<1>3. ASSUME NEW r \in Reloaders, StartXray(r) PROVE ResultsKept'
  BY <1>3 DEF StartXray
<1>4. ASSUME NEW r \in Reloaders, PruneStaleResults(r) PROVE ResultsKept'
  BY <1>4 DEF PruneStaleResults
<1>5. ASSUME NEW r \in Reloaders,
             Generate(r) \/ StopXray(r) \/ StartFails(r) \/ SaveProxyCache(r)
      PROVE  ResultsKept'
  BY <1>5 DEF Generate, StopXray, StartFails, SaveProxyCache
<1>6. ASSUME NEW r \in Reloaders, QuietReload(r) \/ Fetch(r) PROVE ResultsKept'
  BY <1>6, QuietReloadEffect DEF QuietMoves
<1>7. CASE Restart
  BY <1>7 DEF Restart, RunsWith
<1>8. ASSUME NEW s \in Sets, SourceChanges(s) PROVE ResultsKept'
  BY <1>8 DEF SourceChanges
<1>9. CASE UNCHANGED cycleVars
  BY <1>9 DEF cycleVars
<1> QED BY <1>1, <1>2, <1>3, <1>4, <1>5, <1>6, <1>7, <1>8, <1>9
        DEF CycleNext, CycleStep, ReloadStep, QuietReload

\* The proxy cache.  It is behind between StartXray and SaveProxyCache only.
LEMMA CacheIsCurrentNext == CycleInv /\ [CycleNext]_cycleVars => CacheIsCurrent'
<1> SUFFICES ASSUME CycleTyped, OneList, CacheIsCurrent, [CycleNext]_cycleVars
             PROVE  CacheIsCurrent'
  BY DEF CycleInv
<1> USE DEF CycleTyped, CacheIsCurrent, Procs, ProcState, IdleProc, At, Goto, Return,
        keptVars
<1>1. ASSUME NEW q \in Procs, CycleStep(q) PROVE CacheIsCurrent'
  BY <1>1 DEF CycleStep, StartCycle, BeginChecks, SkipChecks, StoreResult, Emit,
     ReadUnlock,
     EndCycle
<1>2. ASSUME NEW r \in Reloaders, StartXray(r) PROVE CacheIsCurrent'
  BY <1>2 DEF StartXray
<1>3. ASSUME NEW r \in Reloaders, SaveProxyCache(r) PROVE CacheIsCurrent'
  <2>1. configs = Valid(proc[r].new) /\ configs' = configs
    BY <1>3 DEF SaveProxyCache, OneList
  <2>2. cache' = proc[r].new \/ proc[r].new = {}
    BY <1>3 DEF SaveProxyCache, Saved
  <2> QED BY <2>1, <2>2 DEF Valid
<1>4. ASSUME NEW r \in Reloaders,
             Generate(r) \/ StopXray(r) \/ StartFails(r) \/ PruneStaleResults(r)
      PROVE  CacheIsCurrent'
  BY <1>4 DEF Generate, StopXray, StartFails, PruneStaleResults
<1>5. ASSUME NEW r \in Reloaders, QuietReload(r) \/ Fetch(r) PROVE CacheIsCurrent'
  BY <1>5, QuietReloadEffect DEF QuietMoves
<1>6. CASE Restart
  <2>1. \/ \E s : configs' = Valid(s) /\ cache' = Saved(Valid(s))
        \/ configs' = Valid(cache) /\ cache' = cache
    BY <1>6 DEF Restart, RunsWith
  <2> QED BY <2>1, ValidTwice DEF Saved
<1>7. ASSUME NEW s \in Sets, SourceChanges(s) PROVE CacheIsCurrent'
  BY <1>7 DEF SourceChanges
<1>8. CASE UNCHANGED cycleVars
  BY <1>8 DEF cycleVars
<1> QED BY <1>1, <1>2, <1>3, <1>4, <1>5, <1>6, <1>7, <1>8
        DEF CycleNext, ReloadStep, QuietReload

-----------------------------------------------------------------------------
(* The theorems.                                                           *)

\* The process starts in a state of the invariant, from the subscriptions or from
\* nothing.
LEMMA CycleInvInit == CycleInit => CycleInv
<1> SUFFICES ASSUME CycleInit PROVE CycleInv
  OBVIOUS
<1> USE CycleAssumption DEF CycleInit
<1>1. configs \subseteq Proxies /\ (configs = {} \/ Valid(configs) = configs)
  BY ValidTwice DEF Valid
<1>2. CycleTyped
  <2>1. proc \in [Procs -> ProcState]
    BY DEF IdleProc, ProcState
  <2>2. xray = Stopped \/ \E s \in SUBSET Proxies : xray = {s}
    BY <1>1
  <2>3. DOMAIN results = {}
    OBVIOUS
  <2>4. results \in [DOMAIN results -> {"through", "refused"}]
    OBVIOUS
  <2>5. /\ proxies \subseteq Proxies /\ file \subseteq Proxies /\ cache \subseteq Proxies
        /\ remote \in Sets
    BY <1>1
  <2>6. starts \in 0..MaxStarts
    OBVIOUS
  <2>7. running \in BOOLEAN
    OBVIOUS
  <2> HIDE DEF CycleInit
  <2> QED BY <1>1, <2>1, <2>2, <2>3, <2>4, <2>5, <2>6, <2>7 DEF CycleTyped
<1>3. Exclusive
  BY DEF Exclusive, NoDuplicate, Reloading, InCycle, CyclePcs, IdleProc, Procs
<1>4. ReadersAndWriters /\ ResultsKept
  BY DEF ReadersAndWriters, ResultsKept, Updating, IdleProc, At, Procs
<1>5. OneList
  BY DEF OneList, Updating, IdleProc, At, Procs
<1>6. CacheIsCurrent
  BY <1>1 DEF CacheIsCurrent
<1> QED BY <1>2, <1>3, <1>4, <1>5, <1>6 DEF CycleInv

\* The invariant is kept.
THEOREM CycleInvariant == CycleSpec => []CycleInv
<1>1. CycleInv /\ [CycleNext]_cycleVars => CycleInv'
  BY CycleTypedNext, ExclusiveNext, ReadersAndWritersNext, OneListNext, ResultsKeptNext,
     CacheIsCurrentNext DEF CycleInv
<1> QED BY <1>1, CycleInvInit, PTL DEF CycleSpec

\* Every state is well typed, one reload runs at a time, and the flag of
\* runCheckIteration is up exactly while a cycle runs.
THEOREM CycleTypeCorrect == CycleSpec => []CycleTypeOK
<1>1. CycleInv => CycleTypeOK
  <2> SUFFICES ASSUME CycleInv PROVE CycleTypeOK
    OBVIOUS
  <2>1. Cardinality(Reloading) <= 1
    BY AtMostOne DEF CycleInv, Exclusive
  <2>2. running <=> \E q \in Procs : proc[q].pc \in {"wait", "check", "emit", "unlocked"}
    BY DEF CycleInv, Exclusive, InCycle, CyclePcs
  <2> QED BY <2>1, <2>2 DEF CycleInv, CycleTyped, CycleTypeOK
<1> QED BY <1>1, CycleInvariant, PTL

\* Between two updates the checker, *proxyConfigs, Xray and its file agree.
THEOREM ConfigurationIsOne == CycleSpec => []OneConfiguration
<1>1. CycleInv => OneConfiguration
  BY DEF CycleInv, OneList, OneConfiguration
<1> QED BY <1>1, CycleInvariant, PTL

\* Once a reload is over, no result of a proxy it removed is left.
THEOREM ResultsAreOfListedProxies == CycleSpec => []NoStaleResults
<1>1. CycleInv => NoStaleResults
  BY DEF CycleInv, ResultsKept, NoStaleResults, Unpruned, Reloading, CyclePcs
<1> QED BY <1>1, CycleInvariant, PTL

\* The proxy cache holds what is checked.
THEOREM CacheKeepsUp == CycleSpec => []CacheIsCurrent
<1>1. CycleInv => CacheIsCurrent
  BY DEF CycleInv
<1> QED BY <1>1, CycleInvariant, PTL

\* A check is refused by its own local port only while Xray is stopped after an
\* update that failed: the reload itself announces no outage.
THEOREM RefusedOnlyWhenStopped == CycleSpec => NoFalseDowns
<1> DEFINE Excused == Refused' \subseteq Refused \/ (xray = Stopped /\ Updating = {})
<1>1. CycleInv /\ [CycleNext]_cycleVars => [Excused]_cycleVars
  <2> SUFFICES ASSUME CycleInv, CycleNext PROVE Excused
    OBVIOUS
  <2>1. ASSUME NEW q \in Procs, NEW p \in Proxies, StoreResult(q, p) PROVE Excused
    <3>1. p \in proxies /\ Updating = {}
      BY <2>1 DEF StoreResult, CycleInv, ReadersAndWriters, Readers, At
    <3>2. CASE xray = Stopped
      BY <3>1, <3>2
    <3>3. CASE xray = {proxies}
      <4>1. Outcome(p) = "through"
        BY <3>1, <3>3 DEF Outcome
      <4> QED BY <2>1, <4>1 DEF StoreResult, Refused
    <3> QED BY <3>2, <3>3 DEF CycleInv, OneList
  <2>2. ASSUME NEW r \in Reloaders, PruneStaleResults(r) PROVE Excused
    BY <2>2 DEF PruneStaleResults, Refused
  <2>3. CASE Restart
    BY <2>3 DEF Restart, RunsWith, Refused
  <2>4. CASE results' = results
    BY <2>4 DEF Refused
  <2>5. ASSUME NEW q \in Procs,
               \/ StartCycle(q) \/ BeginChecks(q) \/ SkipChecks(q) \/ Emit(q)
               \/ ReadUnlock(q) \/ EndCycle(q)
        PROVE  results' = results
    BY <2>5 DEF StartCycle, BeginChecks, SkipChecks, Emit, ReadUnlock, EndCycle
  <2>6. ASSUME NEW r \in Reloaders, Fetch(r) \/ (ReloadStep(r) /\ ~PruneStaleResults(r))
        PROVE  results' = results
    BY <2>6 DEF Fetch, ReloadStep, SkipCycle, FetchFails, NothingChanged, RequestLock,
       Generate, GenerateFails, StopXray, StartXray, StartFails, SaveProxyCache
  <2>7. ASSUME NEW s \in Sets, SourceChanges(s) PROVE results' = results
    BY <2>7 DEF SourceChanges
  <2> QED BY <2>1, <2>2, <2>3, <2>4, <2>5, <2>6, <2>7 DEF CycleNext, CycleStep
<1> QED BY <1>1, CycleInvariant, PTL DEF CycleSpec, NoFalseDowns

=============================================================================
