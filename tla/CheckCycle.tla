----------------------------- MODULE CheckCycle -----------------------------
(***************************************************************************)
(* The start, check cycles and subscription reloads: resolveInitialConfigs,*)
(* runCheckIteration, reloadSubscriptions and updateConfiguration of       *)
(* main.go, with the parts of checker/checker.go, xray/runner.go and       *)
(* subscription/ they work on.                                             *)
(*                                                                         *)
(* A checker is a goroutine that runs check cycles (the scheduler's job,   *)
(* the one of the start); a reloader is one that reloads (the updater, a   *)
(* command of the bot, a reconciliation, the retry of a degraded start).   *)
(* A reload that changed something writes the proxy cache, the fallback of *)
(* a start that cannot reach the subscriptions, and runs a cycle of its    *)
(* own.                                                                    *)
(*   cycle:  idle -> wait -> check -> emit -> unlocked -> idle             *)
(*   reload: idle -> fetch -> lock -> stop -> start -> save -> recheck     *)
(*                -> (a cycle, or none) -> prune -> idle                   *)
(***************************************************************************)
EXTENDS Integers, FiniteSets

CONSTANTS
    Proxies,      \* proxies, by the signature IsConfigsEqual compares
    Unbuildable,  \* those whose outbound xray-core refuses to build
    Sets,         \* what the subscriptions may serve
    Checkers,
    Reloaders,
    Faults,       \* what may fail, a subset of AllFaults
    MaxStarts     \* bound on restarts of the process

\* "fetch": every subscription fails to be read; "partial": some of several do; "ip": the
\* machine's address is unknown and the check method needs it; "file": the new
\* Xray configuration is not written; "stop", "start": Runner.Stop or the last
\* attempt of startXrayWithRetry fails.
AllFaults == {"fetch", "partial", "ip", "file", "stop", "start"}

ASSUME CycleAssumption ==
    /\ Unbuildable \subseteq Proxies
    /\ Sets \subseteq SUBSET Proxies
    /\ Checkers \cap Reloaders = {}
    /\ Faults \subseteq AllFaults /\ MaxStarts \in Nat

VARIABLES
    remote,   \* what the subscriptions serve now
    configs,  \* *proxyConfigs
    proxies,  \* ProxyChecker.proxies
    file,     \* the proxies of xray_config.json
    xray,     \* {those of the running instance}, or Stopped
    results,  \* ProxyChecker.results: [proxies -> how the last check went]
    running,  \* checkIterationRunning
    cache,    \* proxy_cache.json
    starts,   \* what of MaxStarts has happened
    proc      \* the goroutines

cycleVars == <<remote, configs, proxies, file, xray, results, running, cache, starts, proc>>
keptVars == <<cache, starts>>

Procs == Checkers \cup Reloaders
Stopped == {}

IdleProc == [pc |-> "idle", new |-> {}, todo |-> {}]

\* A check goes through the proxy's own local port, which is open only while
\* Xray runs with that proxy.
Outcome(p) == IF \E s \in xray : p \in s THEN "through" ELSE "refused"

At(q, pc) == proc[q].pc = pc
Goto(q, pc) == proc' = [proc EXCEPT ![q].pc = pc]

\* checkRunnerMu: cycles hold it shared, an update exclusively; a waiting
\* writer keeps new readers out.
Readers == {q \in Procs : proc[q].pc \in {"check", "emit"}}
Updating == {r \in Reloaders : proc[r].pc \in {"stop", "start"}}
Writers == Updating \cup {r \in Reloaders : At(r, "lock")}

\* What xray-core can build (GenerateValidatedConfig drops the rest).
Valid(s) == s \ Unbuildable

\* reloadMu is held from the fetch to the end of the reload.
Reloading == {r \in Reloaders : proc[r].pc # "idle"}

SourceChanges(s) ==
    /\ s # remote
    /\ remote' = s
    /\ UNCHANGED <<configs, proxies, file, xray, results, running, proc, keptVars>>

-----------------------------------------------------------------------------
(* runCheckIteration.                                                      *)

StartAnotherCycle(q) ==     \* mutant: the flag is set, never tested
    /\ IF q \in Checkers THEN At(q, "idle") ELSE At(q, "recheck")
    /\ running' = TRUE
    /\ Goto(q, "wait")
    /\ UNCHANGED <<remote, configs, proxies, file, xray, results, keptVars>>

\* A cycle that finds another one running is skipped.
StartCycle(q) ==
    /\ ~running
    /\ IF q \in Checkers THEN At(q, "idle") ELSE At(q, "recheck")
    /\ running' = TRUE
    /\ Goto(q, "wait")
    /\ UNCHANGED <<remote, configs, proxies, file, xray, results, keptVars>>

SkipCycle(r) ==
    /\ running
    /\ At(r, "recheck")
    /\ Goto(r, "prune")
    /\ UNCHANGED <<remote, configs, proxies, file, xray, results, running, keptVars>>

ReadLockAnyway(q) == TRUE     \* mutant: cycles take no lock
ReadLock(q) == Writers = {}

\* CheckAllProxies copies the list once the address of the machine is known.
BeginChecks(q) ==
    /\ At(q, "wait")
    /\ ReadLock(q)
    /\ proc' = [proc EXCEPT ![q].pc = "check", ![q].todo = proxies]
    /\ UNCHANGED <<remote, configs, proxies, file, xray, results, running, keptVars>>

SkipChecks(q) ==
    /\ "ip" \in Faults
    /\ At(q, "wait")
    /\ ReadLock(q)
    /\ Goto(q, "check")
    /\ UNCHANGED <<remote, configs, proxies, file, xray, results, running, keptVars>>

\* One goroutine per proxy stores its result, in any order.
StoreResult(q, p) ==
    /\ At(q, "check")
    /\ p \in proc[q].todo
    /\ results' = [x \in DOMAIN results \cup {p} |->
                     IF x = p THEN Outcome(p) ELSE results[x]]
    /\ proc' = [proc EXCEPT ![q].todo = @ \ {p}]
    /\ UNCHANGED <<remote, configs, proxies, file, xray, running, keptVars>>

\* emitSnapshot, and what follows it, still under the read lock.
Emit(q) ==
    /\ At(q, "check")
    /\ proc[q].todo = {}
    /\ Goto(q, "emit")
    /\ UNCHANGED <<remote, configs, proxies, file, xray, results, running, keptVars>>

\* The deferred calls: first RUnlock, then the flag.
ReadUnlock(q) ==
    /\ At(q, "emit")
    /\ Goto(q, "unlocked")
    /\ UNCHANGED <<remote, configs, proxies, file, xray, results, running, keptVars>>

EndCycle(q) ==
    /\ At(q, "unlocked")
    /\ running' = FALSE
    /\ Goto(q, IF q \in Checkers THEN "idle" ELSE "prune")
    /\ UNCHANGED <<remote, configs, proxies, file, xray, results, keptVars>>

-----------------------------------------------------------------------------
(* reloadSubscriptions and updateConfiguration.                            *)

\* A subscription that fails is left out as long as another one is read.
Fetched == IF "partial" \in Faults THEN SUBSET remote \ {{}} ELSE {}

Fetch(r) ==
    /\ Reloading = {}
    /\ \E s \in {remote} \cup Fetched :
          proc' = [proc EXCEPT ![r] = [IdleProc EXCEPT !.pc = "fetch", !.new = s]]
    /\ UNCHANGED <<remote, configs, proxies, file, xray, results, running, keptVars>>

Return(r) == proc' = [proc EXCEPT ![r] = IdleProc]

FetchFails(r) ==
    /\ "fetch" \in Faults
    /\ At(r, "fetch")
    /\ Return(r)
    /\ UNCHANGED <<remote, configs, proxies, file, xray, results, running, keptVars>>

SameSize(old, new) == Cardinality(old) = Cardinality(new)     \* mutant: lengths only
IsConfigsEqual(old, new) == old = new

NothingChanged(r) ==
    /\ At(r, "fetch")
    /\ IsConfigsEqual(configs, proc[r].new)
    /\ Return(r)
    /\ UNCHANGED <<remote, configs, proxies, file, xray, results, running, keptVars>>

\* checkRunnerMu.Lock is called, and waits for the cycles.
RequestLock(r) ==
    /\ At(r, "fetch")
    /\ ~IsConfigsEqual(configs, proc[r].new)
    /\ Goto(r, "lock")
    /\ UNCHANGED <<remote, configs, proxies, file, xray, results, running, keptVars>>

Generate(r) ==
    /\ At(r, "lock")
    /\ Readers = {}
    /\ file' = Valid(proc[r].new)
    /\ Goto(r, "stop")
    /\ UNCHANGED <<remote, configs, proxies, xray, results, running, keptVars>>

GenerateFails(r) ==
    /\ "file" \in Faults
    /\ At(r, "lock")
    /\ Readers = {}
    /\ Return(r)
    /\ UNCHANGED <<remote, configs, proxies, file, xray, results, running, keptVars>>

\* Runner.Stop forgets the instance even when Close reports an error.
StopXray(r) ==
    /\ At(r, "stop")
    /\ xray' = Stopped
    /\ \/ Goto(r, "start")
       \/ "stop" \in Faults /\ Return(r)
    /\ UNCHANGED <<remote, configs, proxies, file, results, running, keptVars>>

\* startXrayWithRetry, then UpdateProxies and *currentConfigs.
ListKept(r) == proxies     \* mutant: UpdateProxies is forgotten
UpdatedList(r) == Valid(proc[r].new)

StartXray(r) ==
    /\ At(r, "start")
    /\ xray' = {file}
    /\ proxies' = UpdatedList(r)
    /\ configs' = Valid(proc[r].new)
    /\ Goto(r, "save")
    /\ UNCHANGED <<remote, file, results, running, keptVars>>

\* The fetched set is saved, with what cannot be built, and no empty one.
Saved(s) == IF s = {} THEN cache ELSE s

SaveNothing(r) ==     \* mutant: only a start writes the cache
    /\ At(r, "save")
    /\ Goto(r, "recheck")
    /\ UNCHANGED <<remote, configs, proxies, file, xray, results, running, keptVars>>

SaveProxyCache(r) ==
    /\ At(r, "save")
    /\ cache' = Saved(proc[r].new)
    /\ Goto(r, "recheck")
    /\ UNCHANGED <<remote, configs, proxies, file, xray, results, running, starts>>

StartFails(r) ==
    /\ "start" \in Faults
    /\ At(r, "start")
    /\ Return(r)
    /\ UNCHANGED <<remote, configs, proxies, file, xray, results, running, keptVars>>

PruneNothing(r) ==     \* mutant
    /\ At(r, "prune")
    /\ Return(r)
    /\ UNCHANGED <<remote, configs, proxies, file, xray, results, running, keptVars>>

PruneStaleResults(r) ==
    /\ At(r, "prune")
    /\ results' = [p \in DOMAIN results \cap proxies |-> results[p]]
    /\ Return(r)
    /\ UNCHANGED <<remote, configs, proxies, file, xray, running, keptVars>>

-----------------------------------------------------------------------------

\* resolveInitialConfigs: after two attempts that failed the proxies of the cache
\* are used, or none.  The first start may find nothing at all.
Offline == "fetch" \in Faults

\* The process runs with the given set and nothing is checked yet.
RunsWith(s) ==
    /\ configs' = s /\ proxies' = s /\ file' = s /\ xray' = {s}
    /\ results' = [p \in {} |-> "through"]
    /\ running' = FALSE
    /\ proc' = [q \in Procs |-> IdleProc]

Restart ==
    /\ starts < MaxStarts /\ starts' = starts + 1
    /\ \/ \E s \in {remote} \cup Fetched : RunsWith(Valid(s)) /\ cache' = Saved(Valid(s))
       \/ Offline /\ RunsWith(Valid(cache)) /\ UNCHANGED cache
    /\ UNCHANGED remote

CycleInit ==
    /\ remote \in Sets
    /\ configs \in {Valid(remote)} \cup (IF Offline THEN {{}} ELSE {})
    /\ cache = configs /\ starts = 0
    /\ proxies = configs
    /\ file = configs
    /\ xray = {configs}
    /\ results = [p \in {} |-> "through"]
    /\ running = FALSE
    /\ proc = [q \in Procs |-> IdleProc]

CycleStep(q) ==
    \/ StartCycle(q) \/ BeginChecks(q) \/ SkipChecks(q)
    \/ \E p \in Proxies : StoreResult(q, p)
    \/ Emit(q) \/ ReadUnlock(q) \/ EndCycle(q)

ReloadStep(r) ==
    \/ SkipCycle(r) \/ FetchFails(r) \/ NothingChanged(r) \/ RequestLock(r)
    \/ Generate(r) \/ GenerateFails(r) \/ StopXray(r) \/ StartXray(r)
    \/ StartFails(r) \/ SaveProxyCache(r) \/ PruneStaleResults(r)

CycleNext ==
    \/ Restart
    \/ \E s \in Sets : SourceChanges(s)
    \/ \E q \in Procs : CycleStep(q)
    \/ \E r \in Reloaders : Fetch(r) \/ ReloadStep(r)

\* Cycles and reloads are scheduled for ever and go on to their end; a source
\* of failures does not fail every time.
CycleFairness ==
    /\ \A q \in Checkers : WF_cycleVars(CycleStep(q))
    /\ \A r \in Reloaders :
          WF_cycleVars(Fetch(r)) /\ WF_cycleVars(CycleStep(r) \/ ReloadStep(r))
    /\ SF_cycleVars(\E q \in Procs : BeginChecks(q))
    /\ SF_cycleVars(\E r \in Reloaders : NothingChanged(r) \/ RequestLock(r))
    /\ SF_cycleVars(\E r \in Reloaders : Generate(r))
    /\ SF_cycleVars(\E r \in Reloaders : StopXray(r) /\ At(r, "start")')
    /\ SF_cycleVars(\E r \in Reloaders : StartXray(r))

CycleSpec == CycleInit /\ [][CycleNext]_cycleVars /\ CycleFairness

-----------------------------------------------------------------------------
(* Properties.                                                             *)

ProcState == [pc : {"idle", "wait", "check", "emit", "unlocked", "fetch", "lock",
                    "stop", "start", "save", "recheck", "prune"},
              new : SUBSET Proxies, todo : SUBSET Proxies]

CycleTypeOK ==
    /\ remote \in Sets
    /\ configs \subseteq Proxies /\ proxies \subseteq Proxies /\ file \subseteq Proxies
    /\ xray = Stopped \/ \E s \in SUBSET Proxies : xray = {s}
    /\ DOMAIN results \subseteq Proxies
    /\ results \in [DOMAIN results -> {"through", "refused"}]
    /\ running \in BOOLEAN /\ cache \subseteq Proxies /\ starts \in 0..MaxStarts
    /\ proc \in [Procs -> ProcState]
    /\ Cardinality(Reloading) <= 1
    /\ running <=> \E q \in Procs : proc[q].pc \in {"wait", "check", "emit", "unlocked"}

\* checkRunnerMu keeps every check away from the restart of Xray, and Xray is
\* restarted with the list that is checked next: a reload announces no outage
\* of its own, and a check is refused by its local port only after an update
\* that failed left Xray stopped.
Refused == {p \in DOMAIN results : results[p] = "refused"}
NoFalseDowns ==
    [][Refused' \subseteq Refused \/ (xray = Stopped /\ Updating = {})]_cycleVars

\* No result of a removed proxy survives the reload that removed it, although
\* cycles store results at the same time (PruneStaleResults).
NoStaleResults == Reloading = {} => DOMAIN results \subseteq proxies

\* Between two updates the checker and *proxyConfigs are of one mind, and Xray,
\* if it runs, runs what they list and what its file says.
OneConfiguration ==
    Updating = {} =>
        /\ configs = proxies
        /\ xray = Stopped \/ (xray = {proxies} /\ file = proxies)

\* The proxy cache holds what is checked, except while a reload swaps the list: a
\* start that reaches no subscription goes on with the proxies of before, whatever
\* sets were fetched in part, refused or failed to start meanwhile.
CacheIsCurrent ==
    (\A r \in Reloaders : ~At(r, "save")) => configs = {} \/ Valid(cache) = configs

\* When the subscriptions settle and are read in full (or not at all: a reload that
\* fails changes nothing), the checker ends up with what they serve, and with a
\* result for each of it, whether or not the reload's own cycle ran, and wherever
\* it started: from them, from the cache or from nothing.
Settled(s) == remote = s /\ \A r \in Reloaders : At(r, "idle") \/ proc[r].new = s
ReloadConverges ==
    \A s \in Sets : <>[]Settled(s) =>
        <>[](proxies = Valid(s) /\ DOMAIN results = proxies)

\* A start that failed is tried again: while the subscriptions serve the same,
\* Xray does not stay stopped for ever.
XrayComesBack ==
    \A s \in Sets : <>[](remote = s) => []<>(xray # Stopped)

=============================================================================
