# xray-checker-tg-bot in TLA+

A verification project for the Go program in this repository: a service that
runs xray-core with one local port per subscribed proxy, checks every proxy
through it, and reports to Prometheus, a web page and a Telegram bot. An
instance may be the *master*; *nodes* elsewhere run the same binary, report
their results to it and take their configuration from its answers.

The modules are translated from the Go source; paths below are relative to the
repository's root. `PROJECT.json` maps every definition to the lines it models.

Contents

1. The system: components, state, operations
2. How the components interact, and what is hard
3. The modules
4. The runs
5. The proofs
6. Where the code and its documentation disagree
7. What is not modelled
8. Plan

## 1. The system

| Component | Source | State it keeps | Operations |
|---|---|---|---|
| Node registry | `nodes/registry.go`, `nodes_store.go` | nodes by name, names by token hash, the stored registrations, pending Disabled snapshots, audits | register, remove, report (HTTP), sweep, merged snapshot, read-outs, restart |
| Alert pipeline | `telegram/alerts.go`, `alert_tracker.go`, `scheduler.go`, `emitSnapshot` in `main.go` | `seeded`, `lastSeen`, tracked alerts and their file, messages in the chats, the buffer of quiet hours, flap holds | process a snapshot, scheduler tick |
| Node health alerts | `telegram/nodes.go` | `lastNodeHealth`, the incidents of nodes | process the registry's health list |
| Check cycle and reload | `main.go`, `checker/checker.go`, `xray/runner.go` | proxies, results, the configuration file, the running Xray, the running flag, `checkRunnerMu`, `reloadMu` | check iteration, reload, update, prune |
| Subscription store | `subscription/manager.go`, `reconcile.go`, `telegram_subscriptions.go`, `nodes/subs_store.go` | dynamic URLs, the managed flag of each, the file | add, remove, reconcile with the master's list, restore, load |
| Node sync | `nodes/report.go`, `reporter.go`, `auditor.go`, `node_manager.go`, part of `main.go` | `reporterRunning`, per-node overrides, the desired configuration | report, retry, apply the answer |
| Statistics | `telegram/stats.go` | transitions, incidents, checks, latency samples, the file | record, close, prune, save, load |
| Check-Host audits | `checker/checkhost.go`, `telegram/checkhost.go` | the running flag, tracked `checkhost:` alerts | audit by the master, processing of a node's audits |
| Bot settings and dialogs | `telegram/bot.go`, `config.go`, `callbacks.go`, `commands.go`, `menu.go`, `targets.go` | the settings and their file, sequence numbers of messages, what the next message is taken for | update with rollback, start and retry of a dialog |
| Startup and caches | `main.go`, `subscription/cache.go`, `subscription.go` | the cache file, the first configuration | first fetch, degraded start, fallback to the cache |
| Targets | `checker/target.go` | the list of target URLs | add, remove, replace |
| Pure algorithms | `models/`, `subscription/parser.go`, `xray/config.go` | none | stable ids, equality of configurations, exclusion of what cannot be built |
| Views, metrics, web, command line, logging, ASN, geo files | the remaining files | none of their own | rendering and I/O |

What makes each of them correct:

- **Registry.** A registered node authenticates with its own token; a removed
  one does not (a node of the `NODES` list still does, section 6); what the
  operator was told is on disk and survives a restart (not for every name, nor
  when `nodes.json` cannot be read, section 6); a node is down exactly after its
  deadline; the end of a node is handed out once (to the alerts or, against the
  comment, to a view); one operation's failure does not stop the others.
- **Alerts.** Each outage is announced once and taken down on recovery, with
  whatever overlaps, fails or restarts in between; alerts of different proxies
  and chats never mix; quiet hours and flap suppression lose no recovery.
- **Cycle and reload.** A check never runs against a half-replaced
  configuration; every piece of the configuration ends up the same; a failed
  step is made good later; results of removed proxies go.
- **Subscriptions.** Memory equals disk; the master removes only what it manages;
  every list in force is applied in the end; the process can start again.
- **Sync.** The newest desired configuration wins; overrides can be taken back.
- **Statistics.** Incidents open and close in turn; pruning drops no live one.
- **Audits.** A host is tracked once, whoever audits it; a recovery ends it.
- **Health of a node.** A living node ends up as up and a silent one as down,
  whichever callback or sweep is late (the second with an exception, section 6).

## 2. Interactions and hard behaviour

```
 bot commands --> URLStore --> reload --> update --> xray, checker, file
 updater ----------------------^  |
 node answer --> ReconcileManaged-^  +--> check cycle --> results
                                            |
 node report --> Registry --> MergedSnapshot--+--> emitSnapshot
 sweep job ------^     ^                            |
 bot views ------------+                     ProcessSnapshot --> tracker, chats
```

- *Locks are short.* `HandleReport` takes the registry's lock three times;
  `ProcessSnapshot` drops `b.mu` before it talks to Telegram and takes it again
  after; `ReconcileManaged` validates URLs over the network between reading the
  store and changing it. Other goroutines run in each of these gaps.
- *Several goroutines call `emitSnapshot`*: the check cycle, the sweep, the bot's
  start, and a new one for every report. Snapshots may be processed out of order.
- *Steps fail one at a time*: each store changes memory before its file; Xray is
  stopped before its successor starts; Telegram calls fail; a fetch fails.
- *The process restarts* and knows only what its files hold.
- *Time*: staleness deadlines, quiet hours, the flap hold of 15 minutes.
- *Flags instead of queues*: a check cycle, an audit or a report that finds one
  running is skipped, not postponed.

`PROJECT.json` lists 40 hazards with their lines, the properties that cover
them, and, for those no property covers yet, why.

## 3. The modules

| Module | Models | State | Actors |
|---|---|---|---|
| `NodeRegistry` | the registry and `nodes.json` | `nodes`, `byToken`, `store`, `loaded`, `mu`, `req`, `audits` | operator, request handlers, sweep, callers of the merged snapshot, the clock |
| `AlertPipeline` | `ProcessSnapshot`, tracker, alert file, digest buffer | `lastSeen`, `seeded`, `alerts`, `disk`, `red`, `em`, `quiet`, ... | emitters, the scheduler, the admin, the network |
| `OutageBoard` | nothing: what the alert pipeline promises the reader of a chat | `known`, `board` | |
| `CheckCycle` | the start, check iterations, reloads, Xray, the proxy cache | `configs`, `proxies`, `file`, `xray`, `results`, `running`, `cache`, `proc` | checkers, reloaders, the subscriptions' source |
| `SubscriptionStore` | URLStore, `/addsub`, `/delsub`, `ReconcileManaged`, the restart | `dynamic`, `managed`, `file`, `applied`, `proc`, `up` | the bot, reconciliations, the updater, the master |
| `NodeSync` | reporter, retries, the master's answer and its application on the node | `cfg`, `saved`, `over`, `desired`, `seen`; `conf`, `managed`, `rep`; `late` | reporter goroutines, operator, bot, network, both processes |
| `NodeReports` | what a report sets off on the master: node health, Check-Host alerts | `results` of the node; `status`, `known`, `stored`, `alerts`, `disk`, `red`, `act` | the node and its auditor, callbacks of reports, the sweep, the master's audit |
| `StatsStore` | the operations of the statistics as operators | (a record `stats`, `log`) | |
| `IncidentLog` | who calls them, and the file | `mem`, `disk`, `last`, `pass`, `clock` | snapshots, node health, the saver |
| `NodeRegistry_proofs`, `AlertPipeline_proofs`, `CheckCycle_proofs`, `SubscriptionStore_proofs`, `NodeSync_proofs`, `NodeReports_proofs`, `IncidentLog_proofs` | theorems about the module of the name | | |
| `SmallSets` | a set with at most one element, for the proofs about locks and flags | | |
| `MCRegistry`, `MCAlerts`, `MCCycle`, `MCSubs`, `MCSync`, `MCReports`, `MCLog` | instances for TLC | | |

`AlertPipeline` is shown to implement `OutageBoard`; `IncidentLog` extends
`StatsStore`. Each of the others owns its state, and what it takes from a
neighbour is an input that may have any value the neighbour can give: a snapshot
in `AlertPipeline` and `IncidentLog`, a fetched set in `CheckCycle`, the list of
managed subscriptions in `SubscriptionStore`, a status in `NodeReports`.

### NodeRegistry

Each exported method that takes `r.mu` once is one action. A report is three:
`Authenticate` (the lookup by token), `AcceptReport` or `AcceptUnregistered` (the
critical section that stores it), `Reply` (the read of the configuration source).
`BadRequest` leaves between the first two. `req[h]` is the goroutine's place and
the name it has authenticated; nothing else is remembered between the sections.

- A token hash is the pair `<<"sha256", t>>`. `nodes[n].token` keeps the code's
  asymmetry: raw for a node of the `NODES` list, a hash for all others.
- `RegisterNode` and `RemoveNode` change memory, then the store; a failing write
  leaves memory changed and the operator is told of the error.
- `Restart` reads `nodes.json`, or fails to: `main` then warns and goes on
  without a store (`loaded` is false), and both methods confirm without a write.
- `acked[n]` is the last answer the bot gave about a name: what it said, the key
  the node was registered with, and whether a write of the file stood behind it.
- Wall time is a count of ticks since the last report, capped by `MaxSilence`; the
  assumption `Deadline(i) < MaxSilence` keeps the cap out of every comparison.
- `MergedSnapshot(consumer)` is enabled only when it changes something. The
  consumer is recorded because a bot view and the alert pipeline call the same
  method.
- When a handler dereferences the state of a node that is gone, it panics with
  the lock held: `mu = "lost"`, and no action that needs the lock is enabled again
  until a restart.
- `acked`, `graceSeen` and `leftover` are history variables.

Names of the `NODES` list are in every property. What the code does not keep for
them is stated at the end of the module (`RemovedNodeIsRefused`,
`RemovedStaysRemoved`, `RegisteredPersists`, `RegisteredIsSaved`), and TLC refutes
each (section 6). What it does keep is `KeysHaveOwners` (no key leads astray but the
one that a removal cannot delete) and `ConfirmedIsOnDisk` (what was confirmed and
written stays written, and decides for every name outside the list).

### AlertPipeline

An emitter takes a snapshot (`Capture`) and goes through the states of
`ProcessSnapshot`: `Seed` or `Process` is the critical section under `b.mu`,
the others are the calls to Telegram and the tracker outside it. In quiet hours
messages are taken down inside the critical section, as in the code.

- A chat is the set of outage messages standing in it (`red`): deletion (clean
  mode) and editing into a recovery (live mode) both remove one. Notes that
  nobody reads again are left out.
- Message ids are reused once nothing refers to them, which bounds the model and
  merges no two messages any property tells apart.
- `StillDown` is the code's `!b.lastSeen[id]`: an unknown proxy counts as down.
- `Events` says what may happen in an instance: crash, failing Telegram calls,
  failing saves, removed proxies, muted node chats, quiet hours, flapping.
- `Known` and the number of messages in `red` for a proxy and target are the
  refinement mapping to `OutageBoard`: an outage message appears only for a proxy
  known to be down and one at a time, and goes only when the outage is over.

### CheckCycle

A cycle holds `checkRunnerMu` shared from `BeginChecks` to `ReadUnlock`; an update
asks for it exclusively (`RequestLock`) and holds it from `Generate` to
`StartXray` or the step that fails. A writer that waits keeps new readers out, as
`sync.RWMutex` does. `reloadMu` is held for the whole reload. The two deferred
calls of an iteration are two actions, since another goroutine may run between
the release of the lock and the reset of the flag.

A proxy's local port answers only while the running Xray has that proxy
(`Outcome`): real outages of the proxy behind it are left out, so a "refused"
result is always the checker's own doing.

`Restart` is the start of the process: the subscriptions are read (all, or what
could be read of several), or both attempts fail and the cache, or nothing, is
used. A start whose Xray does not come up exits and is a start again. The cache
file gets the *fetched* set after a successful reload, with what cannot be built,
and never an empty one; that its write may fail (the code logs it and goes on with
the older file) is left out. The retry of a degraded start is one more reloader.

### SubscriptionStore

The bot handles one command at a time; reconciliations run on goroutines that may
overlap; a reload is two steps, the list read and the list applied, under
`reloadMu`. `Write` models marshalling as it is: a nil slice is written as
`null`, an empty one as `[]`, and `Restart` takes a `null` for a corrupt file, as
`NewURLStore` does. `own` is a history variable: what `/addsub` confirmed and
`/delsub` has not taken back. A read and an immediately following read of the
same store inside `ReconcileManaged` are one step; the window that matters is the
one that contains the validations.

### NodeSync

One node and its master. `Cycle` takes `reporterRunning` and the result to
report; `Answered`, `AttemptFails`, `AttemptTimesOut` and `Rejected` are the ends
of one attempt of `SendWithRetry`. A report whose attempt timed out may still
reach the master (`late`). The answer is computed when the report arrives, from the
bot's configuration or, before the bot runs, the environment, with the node's
overrides on top, and is applied in five steps after the flag was released, so that
a second goroutine may be anywhere in between with a newer answer.

- The eight check settings that `SetRuntimeCheckSettings` replaces together are
  one value; disabled hosts and proxies are one set; the interval of subscription
  updates and the audit's schedule are applied like the check interval and left out.
- `KeptIfEmpty` is the code's rule for targets, disabled proxies and managed
  subscriptions: an empty list changes nothing on the node.
- `Reconcile` abstracts `SubscriptionStore`'s reconciliation to success or failure.

### NodeReports

An actor is a goroutine: a callback of `SetOnUpdate`, the sweep or the master's
audit. Reading the registry and folding it into `lastNodeHealth` are two steps,
because the registry is read before `nodeHealthMu` is taken, and a callback may
take any time before either: it talks to Telegram first (`emitSnapshot`). `Sweep`
waits for none of them, as `SweepStale` does not; its own pass is one at a time
(`SingletonMode`). The history variable `overtaken` says that a sweep came between the
read and the fold of a callback that had read the node as up, and that no report has
come since: the one order after which a dead node stays up.

The node's auditor is an action (`NodeAudits`): it keeps the summary of a check
that fails and of a host that is no target any more. `Report` sends what it has,
and a report without summaries deletes the ones of the master. Targets, blocks,
quiet hours and the life of the node change at any moment (`events` counts them).

An alert is announced in three steps (`StartSend`, `Sent`, `Track`) and resolved
in two (`Resolve`, `TakeDown`), one key after another. `Track` and `Resolve` write
the alert file and ignore a failure (`Saved`); a restart makes the file the
tracker, or starts with none when it cannot be read. `stale` are the keys whose
alert it read from a file that had missed a change. An announcement that neither
the tracker, its file nor an actor refers to is dropped from `red`; nobody finds
it again. The digest of quiet hours and recovery notes that delete themselves are
left out.

A host of `Local` has one key for both auditors. That is so for TCP targets: for
UDP ones the master's key has the port and the node's has not.

### StatsStore and IncidentLog

`StatsStore` holds `RecordInitialDown`, `RecordTransition`, `SyncOnlineState`,
`addIncident` with its two quotas and `PruneInactive` as operators on a record.
`IncidentLog` calls them the way `ProcessSnapshot` and `updateNodeHealthLocked` do,
with any snapshot and any health. The two hold different locks and share nothing but
the store's own, so each is a pass of several actions: `Begin` takes the lock and the
time, `Observe` handles one element of the list, and `EndSnapshot` or `EndHealth`
drops what was not in it. Between two of them the other pass, the saver, the clock or
a crash may come. `RecordCheck` and the record that follows it are one step: the only
call of the other pass on the same id is `PruneInactive`, and a record after it does
what both do after it. A beginning or an end of an outage is saved at once and that
write may fail; `Save` is the one of every five minutes and of `Stop`.

## 4. The runs

Passing runs, with `tlc -workers 2` (times on an ordinary machine):

| Run | States | Instance | Properties |
|---|---|---|---|
| `registry` | 505,974 | names {a, s}, s in `NODES`; 2 tokens; 1 handler; intervals {0, 1}, default 3, cap 1, grace 1; both store writes and the load may fail | `TypeOK`, `RegisteredNodeAuthenticates`, `KeysHaveOwners`, `ConfirmedIsOnDisk`, `GraceHandedOutOnce`, `DownMeansSilent`, `StaysUpOnlyIfReporting` |
| `alerts` | 9,408 | 1 proxy, 2 targets, 1 emitter, 3 messages; quiet hours, flapping | `AlertsPointHome`, `NoOutageMessageForOnline`, `NoOrphanMessage`, `RecoveredIsCleaned`, `BoardRefinement` |
| `alerts_race` | 472,256 | 1 proxy, 1 target, 2 emitters, 3 messages; crash, failing calls and saves, removal, mute | `PipeTypeOK`, `OneOwner`, `ViewConverges` |
| `cycle` | 65,166 | 3 proxies (one cannot be built), 3 sets, 2 checkers, 2 reloaders, all 6 faults, 1 restart | `CycleTypeOK`, `NoStaleResults`, `OneConfiguration`, `CacheIsCurrent`, `NoFalseDowns`, `ReloadConverges` |
| `subs` | 88,492 | 4 URLs (one static, one that serves nothing), 2 lists of the master, 2 reconcilers, 2 events | `SubsTypeOK`, `NeverListedStays`, `StoreStaysOnDisk`, `ReconcileConverges`, `AppliedConverges` |
| `sync` | 412,273 | 2 goroutines of the node, 2 check settings, intervals {5, 30}, 2 target URLs, 1 proxy to disable, 1 managed subscription, 2 results, 2 attempts, 2 events | `SyncTypeOK`, `SettingsConverge`, `ManagedConverges`, `MasterConverges` |
| `reports` | 303,688 | 1 node, 1 host audited by both, 1 chat, 1 callback, 5 messages, 3 events from any initial world | `ReportsTypeOK`, `TrackedStands`, `HealthConverges`, `BlockAnnounced`, `BlockCleared` |
| `incidents` | 1,524,831 | 1 proxy, 1 node, a clock of 2 ticks, quotas of 2 and 3 incidents, 1 restart, 1 failing write | `LogTypeOK`, `CurrentOutageIsLogged`, `DowntimeFitsTheClock`, `HistoryIsOwn` |

Why these bounds are enough for the questions asked:

- `registry`: two names and two tokens are the least with which a token can lead
  to another's node; one name is static and one is not, because removal treats
  them differently. Interval 0 triggers the default, which the cap then shortens.
  With `MaxSilence` 4, both sides of the deadline of 3 are reached. One
  handler is enough, because every property speaks of the state between critical
  sections and a report's store section overwrites what an earlier one stored; the
  proofs of section 5 hold for any number.
- `alerts` and `alerts_race`: proxies do not share state but for `alerts`'
  keys, and two targets already give two keys; two emitters give every
  out-of-order and overlapping pair. Three messages let one be standing, one be
  in flight and one be left over. Overlaps and restarts are kept out of the
  `alerts` run, because its properties do not survive them (section 6). That
  includes `BoardRefinement`, which holds for one emitter at a time.
- `cycle`: two sets that replace each other and one that only adds what cannot be
  built give every answer of `IsConfigsEqual`. Two of each goroutine give each
  overlap, the skipped re-check included. Faults are not counted: any may occur
  any number of times. One restart, from any state, is enough for properties that
  relate one start to what was before it.
- `subs`: one event is a command, a change of the list, a restart or a failure.
  Two let each pair meet, with any interleaving of both reconcilers and the
  updater, which are not counted. Deadlock checking is off because an instance
  with a corrupt file stays down.
- `sync`: an event is an action of the operator, a restart of either side, a new
  result or a rejected report. Two give each pair (a setting changed and changed
  back, a change and a restart), each at any point of both goroutines; attempts
  that are lost, time out or arrive late are not counted. The interval 5 is below
  the minimum of 10 the node enforces. Two attempts stand for the three of
  `DefaultReportBackoffs`: a first that is repeated and a last.
- `reports`: the instance may start with the node dead or alive, the host blocked or
  not, a target or not, by day or in quiet hours; an event is a change of one of these,
  a restart or a failing write of the alert file. Three let a host recover, the write
  of its resolution fail and a restart show it, or a node die, return and die again.
  One callback is enough, because the sweep is its rival for the node's health and the
  audit for the host's alert; the theorems of section 5 hold for any number.
- `incidents`: with two ids, quotas of two for each and three for all make both kinds
  of eviction happen; the clock's two ticks give outages of length 0 and 1, a pass that
  goes on with an old time, and a total that would exceed the clock if a second were
  counted twice.

What the properties say is in the comment above each; in one line each:

- `StaysUpOnlyIfReporting`: a node shown as up for ever keeps reporting, or the
  lock was lost.
- `OneOwner`: at any time one emitter or the tracker, never two, will edit or
  delete a message, in any interleaving and over restarts.
- `ViewConverges`: out-of-order snapshots do not leave a wrong view behind.
- `NoFalseDowns`: a proxy is refused by its local port only after an update that
  failed had left Xray stopped.
- `ReloadConverges`: with a source that settles and is read in full, exactly the
  buildable part of it is checked in the end, each with a result, from whatever the
  process started.
- `CacheIsCurrent`: a start without network goes on with the proxies that were
  checked before it, whichever fetches, builds and starts failed.
- `BoardRefinement`: the pipeline implements `OutageBoard`.
- `SettingsConverge`, `ManagedConverges`, `MasterConverges`: lost, late, repeated
  and overtaken reports and answers leave node and master in agreement in the end.
- `TrackedStands`: no tracked Check-Host alert refers to a message that is gone or
  belongs to somebody else, or it would suppress the host's next block for ever.
- `KeysHaveOwners`: a token leads to the node it was given to, for ever; a removed
  entry of `NODES` may leave its own key behind and nothing else may.
- `ConfirmedIsOnDisk`: a confirmed and written change stays on disk and is what the
  next start finds.
- `BlockAnnounced`, `BlockCleared`: failing sends, failing writes, quiet hours and
  restarts cost neither the announcement of a block nor its end.
- `HealthConverges`: late callbacks and sweeps do not leave the bot with the wrong
  health of a node, but for one order of three steps.
- `CurrentOutageIsLogged`: an outage being counted is the newest, open incident of
  its id, through quotas, pruning and lost writes, unless the log is full.
- `DowntimeFitsTheClock`: no second of an outage is counted twice.
- `HistoryIsOwn`: while the log is not full, a flapping id evicts nobody else.
- `NeverListedStays`: without failures no interleaving costs the admin a URL the
  master never listed.
- `ReconcileConverges`: a settled list ends up in the store, and the store
  manages nothing else.

Fairness. *Registry*: time passes and the sweep job runs (`main.go` schedules
it every 30 s); no report, operator or reader is obliged to act. *Pipeline*:
checks are scheduled for ever and an emitter that has begun goes on to its end
(calls return, with an error at worst). *Cycle*: every goroutine goes on, cycles
and reloads come round, and a step that may fail does not fail each time it is
tried (strong fairness on the success; without it nothing about convergence is
true of any program that fetches over a network). *Subscriptions*: the same per
goroutine, strong fairness on `Fetch` because `sync.Mutex` starves no waiter, and
the periodic update is enabled; with updates switched off `AppliedConverges` is
not claimed. Failures there are bounded by `MaxEvents`. *Sync*: check cycles come
round, an answer gets through some time if it is asked for again and again, and a
reconciliation that is tried again and again succeeds. *Reports*: goroutines go on,
a send tried again and again succeeds, a living node reports and
audits its targets one after another, and the sweep is scheduled every 30 s; the
master's audit, which can be switched off, is obliged to nothing, and a callback may
be as late as it likes. *Incidents* needs none.

Each property of a passing run has a mutant in `PROJECT.json`, a changed
definition under which that property fails. The changed forms stand beside the
originals in the modules, marked `mutant`; nothing else uses them.

## 5. The proofs

Every invariant of the passing runs, the action properties among their temporal ones
and the refinement of `OutageBoard` are theorems, for all values of the constants: any
number of nodes, proxies, chats, goroutines and message ids, all quotas and
settings, all lists the master or a subscription may serve.

| Module | Theorem | Statement |
|---|---|---|
| `NodeRegistry_proofs` | `RegistryTypeCorrect` | `RegSpec => []TypeOK` |
| | `RegisteredAuthenticates` | `RegSpec => []RegisteredNodeAuthenticates` |
| | `KeysLeadHome` | `RegSpec => []KeysHaveOwners` |
| | `RemovedIsRefusedWithoutList` | without a `NODES` list: `RegSpec => RemovedNodeIsRefused` (an action property) |
| | `DownOnlyAfterDeadline` | `RegSpec => []DownMeansSilent` |
| | `ConfirmedReachesDisk` | `RegSpec => []ConfirmedIsOnDisk` |
| | `GraceOnce` | `RegSpec => []GraceHandedOutOnce` |
| `AlertPipeline_proofs` | `PipeTypeCorrect` | `PipeSpec => []PipeTypeOK` |
| | `TrackedMessagesAreHome` | `PipeSpec => []AlertsPointHome` |
| | `MessagesHaveOneOwner` | `PipeSpec => []OneOwner` |
| | `OnlineProxiesAreQuiet` | under `Solo`: `PipeSpec => []NoOutageMessageForOnline` |
| | `MessagesAreTracked` | under `Solo`: `PipeSpec => []NoOrphanMessage` |
| | `PipelineIsABoard` | under `Solo`: `PipeSpec => BoardRefinement` |
| `CheckCycle_proofs` | `CycleTypeCorrect` | `CycleSpec => []CycleTypeOK` |
| | `ConfigurationIsOne` | `CycleSpec => []OneConfiguration` |
| | `ResultsAreOfListedProxies` | `CycleSpec => []NoStaleResults` |
| | `CacheKeepsUp` | `CycleSpec => []CacheIsCurrent` |
| | `RefusedOnlyWhenStopped` | `CycleSpec => NoFalseDowns` (an action property) |
| `SubscriptionStore_proofs` | `SubsTypeCorrect` | `SubsSpec => []SubsTypeOK` |
| | `AdminKeepsSubscriptions` | `SubsSpec => []NeverListedStays` |
| | `DiskFollowsMemory` | `SubsSpec => StoreStaysOnDisk` (an action property) |
| `NodeSync_proofs` | `SyncTypeCorrect` | `SyncSpec => []SyncTypeOK` |
| `NodeReports_proofs` | `ReportsTypeCorrect` | `ReportsSpec => []ReportsTypeOK` |
| | `AlertsAreOwned` | `ReportsSpec => []TrackedStands` |
| `IncidentLog_proofs` | `LogTypeCorrect` | `LogSpec => []LogTypeOK` |
| | `OutageIsLogged` | `LogSpec => []CurrentOutageIsLogged` |
| | `DowntimeIsReal` | `LogSpec => []DowntimeFitsTheClock` |
| | `HistoryIsKept` | `LogSpec => HistoryIsOwn` (an action property) |

Each proof has the same shape: an inductive invariant (`CycleInv`, `SubsInv`, `SyncInv`,
`ReportsInv`, `PipeInv`, `BoardInv`, `LogInv`) that the initial states satisfy, one
lemma for each operation that shows it is kept, and the properties as consequences.
TLC checked each of these invariants on the instance of its run before it was
proved, `BoardInv` on the `alerts` instance with failing saves added.

### Assumptions

Each is named, stands in the module that declares the constants and is evaluated by
TLC in the module's passing run.

- `ConstantsAssumption`, `HashAssumption` (`NodeRegistry`): types; two entries of `NODES`
  have different tokens (`ParseNodes` rejects duplicates); `MaxSilence` lies beyond every
  deadline; SHA-256 is injective on the tokens in use, and no token is a hash of one.
- `PipelineAssumption`, `ReportsAssumption`: `NoMid`, `NoKey` and the like are none of the
  values they stand for the absence of. `NodeReports` has finitely many hosts, chats and
  goroutines, and a message id more than the tracker, its file and the goroutines can
  refer to at once: with fewer, the model and not Telegram would run out of them
  (`SomeMidIsFree` proves that it never does).
- `CycleAssumption`, `SubsAssumption`, `SyncAssumption`, `StatsAssumption`,
  `LogAssumption`: types, bounds that are numbers, quotas that are positive, ids of nodes
  (`node:...`) that are no stable ids.

`Solo` is a hypothesis of three theorems and of no module: at most one emitter, and of
the `Events` only quiet hours, flapping and failing saves. Without it the three are false,
as section 6 says: overlapping emitters, failed calls, a restart, a proxy that leaves the
subscriptions and a muted chat each leave an outage message behind. The run
`alerts` is an instance of it.

### Arguments

**NodeRegistry.** The type invariant is inductive by itself, and so are
`DownMeansSilent`, `ConfirmedIsOnDisk` and `GraceHandedOutOnce` relative to it. The
token properties are not: that a key leads to its owner says nothing about the keys
of other nodes, which a removal might delete. `KeyInv` is `KeysHaveOwners` with

- `StaticKeysStay`: the keys of static entries are never deleted or redirected,
  so that a new node cannot take one over;
- `TokenShapes`, `StoreShapes`: only static nodes keep a raw token, and nobody keeps the
  hash of one, in memory or on disk, which is what makes a removal by `cfg.Token`
  harmless to others.

It holds whatever fails. That a registered node is found needs more, `FoundInv`:
what is stored is what is registered (`StoreMirrored`), under keys of its own
(`StoreApart`), which carries the rest over a restart. It is under
`leftover \/ ...`: once a removal has failed to reach the disk, the name comes back
with the next restart and may share its token with another. `StoreMirrored` speaks of
a process that has loaded the file: one that could not starts with the list alone.

**CheckCycle.** `CycleInv` says who may be where. `Exclusive`: one goroutine is in a
reload and one in a cycle, and `running` is up exactly while one is. `ReadersAndWriters`:
nobody checks while somebody updates, and what a cycle has still to check is in the
list. `OneList` is `OneConfiguration` extended into an update: which of Xray, its file and
the list have been replaced at each step. `ResultsKept` says the same of the results: only
a reload that has swapped the list and not yet pruned may leave a result of a removed
proxy. `NoFalseDowns` then follows for every step: a check takes place only with
no update running, and then Xray runs the list or is stopped.

**SubscriptionStore.** What has to be strengthened is what the goroutines carry
between two steps, because a revert writes back what a reconciliation read long ago.
`Carried` bounds it; `NothingFailed` says that without failures nobody ever gets to a revert,
every managed URL is one of the master's, and a URL of the admin is in the store from the
moment `/addsub` has added it. `StoreStaysOnDisk` needs only the types.

**AlertPipeline.** `OneOwner` is not inductive: it must be known that no emitter holds a
message twice, that the tracker and its *file* have one key for each message (a restart
makes the file the tracker), and that what is tracked is in nobody's hands
(`Ownership`). `EmitterRules` and `Home` say under which key a message in hand will be
tracked. Message ids are used again, so the freshness of one is part of the argument.
Under `Solo`, `OutagesLast` says that whatever is tracked or being announced is of a
proxy known to be down, and `MessagesKept` that every message is tracked, about to be, or
on its way out after its outage. The refinement takes each action in turn: `SentStillDown`
is the announcement; `Recover`, `DeleteDisabled` and, in quiet hours, `Process` take
messages down; `Seed` and `Process` change what is known; all others leave the board as it
is (`SentTooLate` among them: under `Solo` it never happens).

**NodeReports.** The same with goroutines of three kinds, and with a file that may be
older than the tracker by any number of changes. `OneOwnerEach` says that the tracker
and the file each have one key for a message, that a standing one is of that very key,
that what a goroutine holds is held by it alone, and that somebody refers to whatever
stands. A restart needs the part about the file, and the step that resolves an alert
without a message (`stale`) needs that no other key has its id. Three sets refer to
messages, so there are at most twice as many as keys and one for each other goroutine
when one sends: `SomeMidIsFree` gives it a fresh id.

**NodeSync.** `OneReporter`: the flag is up exactly while one goroutine sends. Types are
worth a proof here, because settings travel from the bot or the environment through
overrides, the answer and five separate steps of application.

**IncidentLog.** The log is a sequence that is shortened in the middle and at the end
and grows at the front, so the proof is mostly about positions. `AddIncidentShifts`
says where each incident of the new log was in the old one; `ShiftKeepsQuotas` counts
incidents by the injections this gives in both directions; `ShiftKeepsNewest` shows that
the newest incident of another id stays so. `Logged` is `CurrentOutageIsLogged` for
memory and file alike, because a restart makes the file the memory. For
`DowntimeFitsTheClock` the clock is the wrong measure in the middle of a pass, which goes
on with the time it read when it began: `CountedOnce` bounds an entry by the
`Horizon` of the pass that will observe it next. It also shows that the guard against
negative durations in `RecordTransition` is never needed while the clock does not go back.

### Only model-checked

- Liveness, which the prover cannot do: `StaysUpOnlyIfReporting`, `RecoveredIsCleaned`,
  `ViewConverges`, `ReloadConverges`, `ReconcileConverges`, `AppliedConverges`,
  `SettingsConverge`, `ManagedConverges`, `MasterConverges`, `HealthConverges`,
  `BlockAnnounced`, `BlockCleared`.
- The counterexamples of section 6, which TLC finds.

No module uses a recursive operator, and no proof needs an induction over data.

## 6. Where the code and its documentation disagree

Four runs end in a counterexample. The quotations are in `PROJECT.json`.

- `registry_remove` (`LockNeverLost`): a report of a node that is gone makes the handler
  panic with `r.mu` held, after which every user of the registry blocks. There are two
  ways into it. The run's trace has no race: a node of `NODES` keeps its raw token in
  `cfg.Token`, so `RemoveNode` deletes a key that is not in the map
  (`registry.go:160`); the removed node's next report authenticates and the handler
  dereferences nothing (`registry.go:230`). And a node, of the list or not, may be
  removed between the lookup of its report's token and the storing of the report: with
  `StaticCfg` empty, TLC finds that one.
- `alerts_restart` (`NoTrackedAlertForOnline`): after a restart the bot is seeded
  from an empty snapshot, so a proxy that recovered meanwhile keeps its alert,
  its message, and loses its next outage to `HasAlert`.
- `cycle_start` (`XrayComesBack`): Xray is stopped, the new set fails to start, and
  the source returns to the old set: the sets are equal, the reload returns early,
  and nothing starts Xray again.
- `subs_restart` (`StartsAgain`): a reconciliation that began without dynamic URLs
  and is reverted writes `"dynamic": null`; the next start takes that for a
  corrupt file and exits.

Some promises of the documentation are stated at the end of their module and are in no
run. TLC refutes each when it is put into the configuration named here in place of the
properties that are there:

| Statement | Configuration | What is promised | What happens |
|---|---|---|---|
| `RemovedNodeIsRefused` (property) | `MCRegistry.cfg` | `/nodedel` will "Delete a remote node from master" (`src/README.md:63`) | a node of `NODES` is removed; its next report authenticates (`registry.go:160`) |
| `RemovedStaysRemoved` | `MCRegistry.cfg` | the same | the removal is confirmed, and the next start registers the list again (`registry.go:93`) |
| `RegisteredPersists` | `MCRegistry.cfg`; also with `FailingOps = {}` | "persists across restarts" (`src/README.md:100`) | a start cannot read `nodes.json` and knows no registered node; without failures: a removed name of `NODES` is registered with a new token, which is saved, and the next start skips it because the list holds the name (`registry.go:107`) |
| `RegisteredIsSaved` | `MCRegistry.cfg` | "saved to `/app/data/nodes.json`" (`src/README.md:100`) | the start could not read `nodes.json`, the master runs without a store (`main.go:103-107`) and confirms a registration that is on no disk |
| `GraceReachesTheAlerts` | `MCRegistry.cfg` | "the alert pipeline then cleans its active alerts" (`registry.go:292`) | a view of the bot calls `MergedSnapshot` between the sweep and its `emitSnapshot` and takes the only Disabled snapshot (`registry.go:313`) |
| `DeadNodeIsKnown` (property) | `MCReports.cfg` | "Automatically notifies when a node goes down or recovers" (`src/README.md:117`) | a callback has read the node as up, the sweep takes the node down and folds first; the callback's fold leaves a dead node known as up, and the sweep feeds a transition only once (`telegram/nodes.go:160`) |
| `AnnouncedOnce` | `MCReports.cfg`; also with `MaxEvents = 0` | "a host is tracked exactly once" (`checkhost.go:392-393`) | an alert file that cannot be read is announced anew; without failures: a callback and the master's audit both find no alert and both announce the block, and the first message is then tracked by nobody (`checkhost.go:424`) |

What the code does keep of each is a property of a passing run: `KeysHaveOwners` and the
theorem `RemovedIsRefusedWithoutList` of the first, `ConfirmedIsOnDisk` of the next three,
then `GraceHandedOutOnce`, `HealthConverges` and `TrackedStands`.

Seen while modelling, without a statement of its own:

- Alerts: an emitter may process a recovery between another's `stillDown` check and
  its `Track` (`alerts.go:261`); the outage message of an online proxy then stays
  until its next recovery, and `NoOutageMessageForOnline` fails with two emitters.
- Node health: `alerted` is set although `NodeAlertsEnabled` is off, so a recovery may
  be announced whose outage was not (`nodes.go:120`); after the last node is
  removed `ProcessNodesHealth` returns early, and a new node of that name is
  announced as down while it is pending; messages are sent outside the lock and may
  come in the wrong order.
- Dialogs: the map of sequence numbers is dropped at a thousand entries, so that a slow
  operation may overwrite a newer page (`bot.go:661`).
- Check-Host: in live mode a recovery that comes with a report edits nothing
  (`checkhost.go:466`). The node's auditor never drops the summary of a host that is no
  target any more (`auditor.go:150`), so its block stays announced until the node
  restarts, and after that nothing resolves it. For a UDP target node and master use
  different keys, and both announce it.
- Sync: an empty list of targets, disabled proxies or managed subscriptions leaves the
  node as it is (`main.go:469`, `main.go:500`, `checker/target.go:192`), although
  `main.go:489` says of the targets "empty means the master wants the node back on
  built-in defaults". Until the master's bot runs, every node is sent the
  environment's settings with synchronisation on, whatever the operator had chosen
  (`main.go:344-353`). An override of the interval below 10 is rescheduled at every
  answer, and the timer of subscription updates starts anew with every answer, so that
  it never fires when reports are more frequent than updates (`main.go:494`).
- Reload: a subscription with one outbound that cannot be built differs from the
  validated set at every reload, so Xray is restarted each time; a subscription that
  fails now and then takes its proxies out of the checked set and back, with an Xray
  restart each time (`ReloadConverges` excludes it by its premise).
- Subscriptions: `URLStore.Remove` leaves the managed flag behind, so the same URL typed
  later belongs to the master; `Restore` undoes a concurrent `/addsub`; `AddManaged`
  adopts a URL the admin had added; the node's list in `node_subs.json` survives the
  node's removal.
- Settings: `ConfigManager.Update` changes memory before a write that may fail, and does
  not take it back.
- Statistics: each snapshot prunes the nodes' entries, so their incidents stay open and
  their downtime is 0 (`stats.go:346`), while a snapshot without an enabled proxy prunes
  nothing (`stats.go:347`); a proxy that is down when it is first seen has no incident;
  `SyncOnlineState` is never reached with a proxy, since the seeding snapshot is empty.

## 7. What is not modelled

- Texts, menus, views, formatting, the web pages and metrics: read-only. Their one
  effect on state, the call of `MergedSnapshot`, is an action of `NodeRegistry`.
- URI, JSON and Base64 parsing: string work. What the rest depends on (a URL
  serves proxies or not; an outbound can be built or not) is a constant set.
- The check methods, DNS, TCP and TLS probes: their result is an input.
- Command line, logging, ASN and geo files: I/O at the start.
- The bot's menus and dialogs: a conversation with one operator; what they change is
  modelled where it is used. Stable ids, parsing and error classes: string work.
- The documentation site and the vendored scripts of the web interface.
- Within modelled components: the registry's read-outs; the daytime digest in
  `AlertPipeline`; the check methods and runtime settings in `CheckCycle`; the legacy
  file format's migration in `SubscriptionStore`; the contents of a report and the
  auditor's schedule in `NodeSync`; the Check-Host client and the audit on demand in
  `NodeReports`; rolling windows, latency samples and the flap counter in `StatsStore`.

## 8. Plan

Done, in this order: `NodeRegistry` and its proofs, `AlertPipeline`, `CheckCycle`,
`SubscriptionStore`; then `OutageBoard` and the refinement, `NodeSync`, `StatsStore` and
`IncidentLog`, `NodeReports`, the start and the proxy cache in `CheckCycle`; then the
proofs about all of them, for which `IncidentLog` was split into the steps of its two
passes (a fold over a whole snapshot is out of reach, and hid their interleaving).

Next, more theorems:

1. `SubscriptionStore`: what holds when something did fail, for instance that a
   reconciliation never removes a URL the store does not manage.
2. `NodeSync`: the safety part of `SettingsConverge` (what the node runs with was in an
   answer the master gave), which needs a history of answers.
3. `AlertPipeline`: what is left of the promises to a reader without `Solo`, such as that a
   message of an online proxy is tracked or belongs to an emitter that overlapped.
4. `NodeRegistry`: `audits` and the lock, so that `mu = "lost"` is proved to come from a
   removal during a report, or of an entry of `NODES`, and from nothing else.

Left for modules after that: `HealthAlerts` composed with `NodeRegistry` (the pending
node that alerts), the dialogs' sequence numbers, stable ids with collisions and
quiet hours over midnight as functions against reference definitions.
