------------------------------ MODULE NodeSync ------------------------------
(***************************************************************************)
(* One node and its master: the goroutine that ends a check cycle reports  *)
(* with retries (main.go, nodes/reporter.go), the master resolves what the *)
(* node should run with (main.go SetConfigSource, nodes/report.go) and the *)
(* goroutine applies the answer, piece by piece, after it has released     *)
(* reporterRunning.  Answers are thus applied by several goroutines.       *)
(*                                                                         *)
(* Data: the method, URLs, limits and timeouts of SetRuntimeCheckSettings  *)
(* are one value "check"; DisabledHosts and DisabledProxies are one set.   *)
(***************************************************************************)
EXTENDS Naturals, FiniteSets, Functions

CONSTANTS
    Slots,       \* goroutines that exist at the same time (a bound)
    Checks,      \* values of the check settings
    Intervals,   \* seconds a check interval may be set to
    Urls,        \* diagnostic targets
    Ids,         \* proxies and hosts that can be disabled
    Subs,        \* subscriptions the master can manage
    Results,     \* what the node can find when it checks
    NodeEnv,     \* the node's own environment
    CliEnv,      \* the master's environment
    Attempts,    \* one more than the pauses of DefaultReportBackoffs
    BotTargets,  \* the targets of the bot's configuration, which no command changes
    MaxEvents    \* bound on operator actions, restarts, rejections and new results

Kinds == {"check", "interval", "targets", "disabled"}
\* The kinds an operator can override for one node (nodeSettingKeys).
Overridable == {"check", "interval", "targets"}

\* What an override can hold; the commands accept no empty list.
Values(k) == CASE k = "check"    -> Checks
               [] k = "interval" -> Intervals
               [] k = "targets"  -> SUBSET Urls \ {{}}

Config == [check : Checks, interval : Nat, targets : SUBSET Urls, disabled : SUBSET Ids]

\* rescheduleChecks and the bot's menu accept no shorter interval.
MinInterval == 10

ASSUME SyncAssumption ==
    /\ NodeEnv \in Config /\ CliEnv \in Config
    /\ NodeEnv.disabled = {} /\ CliEnv.disabled = {}
    /\ BotTargets \in SUBSET Urls \ {{}} /\ Results # {}
    /\ Intervals \subseteq Nat \ {0} /\ MaxEvents \in Nat

NoResult == "none"

VARIABLES
    \* the master
    bot,       \* tgBot is set
    cfg,       \* the bot's configuration: sync, interval, disabled
    saved,     \* its file
    over,      \* the node's overrides, in memory and in nodes.json
    desired,   \* the node's managed subscriptions, in node_subs.json
    seen,      \* the result of the node's last stored report
    \* the node
    result,    \* what a check finds
    conf,      \* the settings it runs with
    managed,   \* its managed subscriptions
    running,   \* reporterRunning
    rep,       \* [Slots -> the reporter's goroutines]
    \* between them
    late,      \* reports given up by the node that may still reach the master
    events     \* what of MaxEvents has happened

syncVars == <<bot, cfg, saved, over, desired, seen, result, conf, managed, running,
              rep, late, events>>
masterVars == <<bot, cfg, saved, over, desired>>
nodeVars == <<result, conf, managed>>

NoAnswer == [sync |-> FALSE, conf |-> CliEnv, managed |-> {}]
IdleSlot == [pc |-> "idle", load |-> NoResult, tries |-> 0, answer |-> NoAnswer]

-----------------------------------------------------------------------------
(* The master's answer.                                                    *)

\* What every node inherits.  Until a bot runs it is the master's environment; the
\* interval of the bot's file is part of that from the start.
Inherited ==
    [check    |-> CliEnv.check,
     interval |-> cfg.interval,
     targets  |-> IF bot THEN BotTargets ELSE CliEnv.targets,
     disabled |-> IF bot THEN cfg.disabled ELSE {}]

\* ResolveNodeSync: what is overridden for the node wins.
ResolveNodeSync(b, o) == [k \in Kinds |-> IF k \in DOMAIN o THEN o[k] ELSE b[k]]

\* Without a bot every node is told to synchronise.
Answer == [sync    |-> ~bot \/ cfg.sync,
           conf    |-> ResolveNodeSync(Inherited, over),
           managed |-> desired]

-----------------------------------------------------------------------------
(* The end of a check cycle: SendWithRetry.                                *)

CycleAnyway(s) ==     \* mutant: a push overlaps with the previous one
    /\ rep[s].pc = "idle"
    /\ running' = TRUE
    /\ rep' = [rep EXCEPT ![s] = [IdleSlot EXCEPT !.pc = "send", !.load = result]]
    /\ UNCHANGED <<masterVars, nodeVars, seen, late, events>>

\* A check cycle starts a goroutine that reports, unless one is still sending.
Cycle(s) ==
    /\ rep[s].pc = "idle"
    /\ ~running
    /\ running' = TRUE
    /\ rep' = [rep EXCEPT ![s] = [IdleSlot EXCEPT !.pc = "send", !.load = result]]
    /\ UNCHANGED <<masterVars, nodeVars, seen, late, events>>

\* The report is stored and the answer arrives; the flag is released.
Answered(s) ==
    /\ rep[s].pc = "send"
    /\ seen' = rep[s].load
    /\ running' = FALSE
    /\ rep' = [rep EXCEPT ![s] = [IdleSlot EXCEPT !.pc = "managed", !.answer = Answer]]
    /\ UNCHANGED <<masterVars, nodeVars, late, events>>

\* What becomes of a goroutine whose attempt has failed.
RetryHolding(s) ==     \* mutant: giving up does not release the flag
    /\ rep' = [rep EXCEPT ![s] =
          IF @.tries + 1 < Attempts THEN [@ EXCEPT !.tries = rep[s].tries + 1] ELSE IdleSlot]
    /\ UNCHANGED running

Retry(s) ==
    /\ rep' = [rep EXCEPT ![s] =
          IF @.tries + 1 < Attempts THEN [@ EXCEPT !.tries = rep[s].tries + 1] ELSE IdleSlot]
    /\ running' = (rep[s].tries + 1 < Attempts)

\* The request, or the answer to it, is lost, or the master answers with a
\* server error.
AttemptFails(s) ==
    /\ rep[s].pc = "send"
    /\ seen' \in {seen, rep[s].load}
    /\ Retry(s)
    /\ UNCHANGED <<masterVars, nodeVars, late, events>>

\* The client gives up a request that has not reached the handler yet.
AttemptTimesOut(s) ==
    /\ rep[s].pc = "send"
    /\ late' = late \cup {rep[s].load}
    /\ Retry(s)
    /\ UNCHANGED <<masterVars, nodeVars, seen, events>>

\* HTTP 400 or 401 is not retried.
Rejected(s) ==
    /\ rep[s].pc = "send"
    /\ events < MaxEvents /\ events' = events + 1
    /\ rep' = [rep EXCEPT ![s] = IdleSlot]
    /\ running' = FALSE
    /\ UNCHANGED <<masterVars, nodeVars, seen, late>>

\* The handler stores a report nobody waits for, or its connection is found dead.
LateReport(r) ==
    /\ r \in late
    /\ seen' \in {seen, r}
    /\ late' = late \ {r}
    /\ UNCHANGED <<masterVars, nodeVars, running, rep, events>>

-----------------------------------------------------------------------------
(* The goroutine applies the answer it was given.                          *)

\* What has been applied is dropped from the slot, which keeps the model small.
Applying(s, pc, next, rest) ==
    /\ rep[s].pc = pc
    /\ rep' = [rep EXCEPT ![s] = IF next = "idle" THEN IdleSlot
                                 ELSE [@ EXCEPT !.pc = next, !.answer = rest]]
    /\ UNCHANGED <<masterVars, seen, result, running, late, events>>

\* Lists that are empty in an answer have no effect.
KeptIfEmpty(cur, new) == IF new = {} THEN cur ELSE new

ReconcileIfSynced(s) ==     \* mutant: only under synchronisation
    LET a == rep[s].answer
    IN  /\ Applying(s, "managed", IF a.sync THEN "check" ELSE "idle",
                    [a EXCEPT !.managed = {}])
        /\ managed' \in {managed, IF a.sync THEN KeptIfEmpty(managed, a.managed) ELSE managed}
        /\ UNCHANGED conf

\* A reconciliation may fail as a whole (SubscriptionStore has its steps).
Reconcile(s) ==
    LET a == rep[s].answer
    IN  /\ Applying(s, "managed", IF a.sync THEN "check" ELSE "idle",
                    [a EXCEPT !.managed = {}])
        /\ managed' \in {managed, KeptIfEmpty(managed, a.managed)}
        /\ UNCHANGED conf

\* One that does not fail.
Reconciled(s) == Reconcile(s) /\ managed' = KeptIfEmpty(managed, rep[s].answer.managed)

\* SetRuntimeCheckSettings takes the whole value.
ApplyCheck(s) ==
    /\ Applying(s, "check", "interval",
                [rep[s].answer EXCEPT !.conf.check = CliEnv.check])
    /\ conf' = [conf EXCEPT !.check = rep[s].answer.conf.check]
    /\ UNCHANGED managed

\* rescheduleChecks: zero keeps the interval, a short one is raised.
Rescheduled(cur, new) ==
    IF new = 0 \/ new = cur THEN cur ELSE IF new < MinInterval THEN MinInterval ELSE new

ApplyIntervalStale(s) ==     \* mutant: compared with the environment, not with what runs
    /\ Applying(s, "interval", "targets",
                [rep[s].answer EXCEPT !.conf.interval = CliEnv.interval])
    /\ conf' = [conf EXCEPT !.interval =
                   IF rep[s].answer.conf.interval = NodeEnv.interval THEN @
                   ELSE Rescheduled(@, rep[s].answer.conf.interval)]
    /\ UNCHANGED managed

ApplyInterval(s) ==
    /\ Applying(s, "interval", "targets",
                [rep[s].answer EXCEPT !.conf.interval = CliEnv.interval])
    /\ conf' = [conf EXCEPT !.interval = Rescheduled(@, rep[s].answer.conf.interval)]
    /\ UNCHANGED managed

ApplyTargets(s) ==
    /\ Applying(s, "targets", "disabled",
                [rep[s].answer EXCEPT !.conf.targets = CliEnv.targets])
    /\ conf' = [conf EXCEPT !.targets = KeptIfEmpty(@, rep[s].answer.conf.targets)]
    /\ UNCHANGED managed

ApplyDisabled(s) ==
    /\ Applying(s, "disabled", "idle", NoAnswer)
    /\ conf' = [conf EXCEPT !.disabled = KeptIfEmpty(@, rep[s].answer.conf.disabled)]
    /\ UNCHANGED managed

-----------------------------------------------------------------------------
(* The network the node checks, the operator and the two processes.        *)

\* The next checks find something else.
ResultChanges(r) ==
    /\ events < MaxEvents /\ events' = events + 1
    /\ r # result
    /\ result' = r
    /\ UNCHANGED <<masterVars, seen, conf, managed, running, rep, late>>

Operate ==
    /\ events < MaxEvents /\ events' = events + 1
    /\ UNCHANGED <<seen, nodeVars, running, rep, late>>

\* ConfigManager.Update changes memory first; the error of the write is ignored.
Configure(c) ==
    /\ Operate /\ bot
    /\ cfg' = c
    /\ saved' \in {saved, c}
    /\ UNCHANGED <<bot, over, desired>>

SetInterval(n) ==
    /\ n >= MinInterval /\ n # cfg.interval
    /\ Configure([cfg EXCEPT !.interval = n])
ToggleSync == Configure([cfg EXCEPT !.sync = ~@])
ToggleDisabled(i) ==
    Configure([cfg EXCEPT !.disabled = IF i \in @ THEN @ \ {i} ELSE @ \cup {i}])

\* A failing write leaves the override as it was, in memory and on disk.
SetNodeSetting(k, v) ==
    /\ Operate /\ bot
    /\ over' = [j \in DOMAIN over \cup {k} |-> IF j = k THEN v ELSE over[j]]
    /\ UNCHANGED <<bot, cfg, saved, desired>>

ResetNodeSetting(K) ==
    /\ Operate /\ bot
    /\ K \cap DOMAIN over # {}
    /\ over' = Restrict(over, DOMAIN over \ K)
    /\ UNCHANGED <<bot, cfg, saved, desired>>

ChangeSubs(u) ==
    /\ Operate /\ bot
    /\ desired' = IF u \in desired THEN desired \ {u} ELSE desired \cup {u}
    /\ UNCHANGED <<bot, cfg, saved, over>>

BotStarts ==
    /\ ~bot
    /\ bot' = TRUE
    /\ UNCHANGED <<cfg, saved, over, desired, seen, nodeVars, running, rep, late, events>>

\* The registry starts without reports and requests in flight are lost.
MasterRestart ==
    /\ events < MaxEvents /\ events' = events + 1
    /\ bot' = FALSE /\ seen' = NoResult /\ late' = {}
    /\ cfg' = saved
    /\ UNCHANGED <<saved, over, desired, nodeVars, running, rep>>

\* Only the managed subscriptions are on the node's disk.
NodeRestart ==
    /\ events < MaxEvents /\ events' = events + 1
    /\ conf' = NodeEnv
    /\ running' = FALSE
    /\ rep' = [s \in Slots |-> IdleSlot]
    /\ UNCHANGED <<masterVars, seen, result, managed, late>>

SyncInit ==
    /\ bot = FALSE
    /\ cfg = [sync |-> TRUE, interval |-> CliEnv.interval, disabled |-> {}] /\ saved = cfg
    /\ over = [k \in {} |-> {}] /\ desired = {} /\ seen = NoResult
    /\ result = (CHOOSE r \in Results : TRUE) /\ conf = NodeEnv /\ managed = {}
    /\ running = FALSE /\ rep = [s \in Slots |-> IdleSlot]
    /\ late = {} /\ events = 0

\* The steps of the goroutine that do not depend on the network.
Apply(s) ==
    \/ Reconcile(s) \/ ApplyCheck(s) \/ ApplyInterval(s)
    \/ ApplyTargets(s) \/ ApplyDisabled(s)

SyncNext ==
    \/ \E s \in Slots : \/ Cycle(s)
                        \/ Answered(s) \/ AttemptFails(s) \/ AttemptTimesOut(s)
                        \/ Rejected(s) \/ Apply(s)
    \/ \E r \in Results : ResultChanges(r) \/ LateReport(r)
    \/ \E n \in Intervals : SetInterval(n)
    \/ \E i \in Ids : ToggleDisabled(i)
    \/ \E k \in Overridable : \E v \in Values(k) : SetNodeSetting(k, v)
    \/ \E K \in {{k} : k \in Overridable} \cup {Overridable} : ResetNodeSetting(K)
    \/ \E u \in Subs : ChangeSubs(u)
    \/ ToggleSync \/ BotStarts \/ MasterRestart \/ NodeRestart

\* Check cycles never end, every goroutine goes on, a request that is tried again
\* and again gets through, and a reconciliation that is too succeeds.
SyncFairness ==
    /\ WF_syncVars(\E s \in Slots : Cycle(s))
    /\ \A s \in Slots : /\ SF_syncVars(Answered(s))
                        /\ SF_syncVars(Reconciled(s))
                        /\ WF_syncVars(Apply(s))
    /\ \A r \in Results : WF_syncVars(LateReport(r))
    /\ WF_syncVars(BotStarts)

SyncSpec == SyncInit /\ [][SyncNext]_syncVars /\ SyncFairness

-----------------------------------------------------------------------------
(* Properties.                                                             *)

\* Types, and at most one push is in flight: the flag is up exactly while one is.
SyncTypeOK ==
    /\ conf \in Config /\ managed \subseteq Subs /\ desired \subseteq Subs
    /\ seen \in Results \cup {NoResult} /\ result \in Results
    /\ cfg.disabled \subseteq Ids /\ DOMAIN over \subseteq Overridable
    /\ late \subseteq Results
    /\ \A s \in Slots : rep[s].answer.conf \in Config
    /\ Cardinality({s \in Slots : rep[s].pc = "send"}) = IF running THEN 1 ELSE 0

\* The node runs with the settings c: short intervals are raised, and a list that
\* has become empty is not taken back (main.go:500, target.go:192).
RunsWith(c) ==
    /\ conf.check = c.check
    /\ conf.interval = Rescheduled(conf.interval, c.interval)
    /\ conf.targets = KeptIfEmpty(conf.targets, c.targets)
    /\ conf.disabled = KeptIfEmpty(conf.disabled, c.disabled)

\* After the last change and restart, and with synchronisation on, the node runs for
\* good with what the master resolves for it, although reports and answers are lost
\* and an older answer may be applied after, or between the pieces of, a newer one.
SettingsConverge == <>[](Answer.sync => RunsWith(Answer.conf))

\* It also ends up with the subscriptions the master lists for it, whether
\* synchronisation is on or off; an emptied list is the exception (main.go:468).
ManagedConverges == <>[](desired # {} => managed = desired)

\* Whatever is lost, repeated or late, the master ends up with what the node finds.
MasterConverges == <>[](seen = result)

=============================================================================
