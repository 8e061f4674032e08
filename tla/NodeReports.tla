----------------------------- MODULE NodeReports ----------------------------
(***************************************************************************)
(* What follows a node's report on the master (main.go SetOnUpdate): a     *)
(* goroutine of its own compares the health of the node with what the bot  *)
(* knows (telegram/nodes.go), then raises and resolves the Check-Host      *)
(* alerts of the hosts the node audits.  The sweep of silent nodes does    *)
(* the former too, and the master's own audit of its proxies the latter    *)
(* (telegram/checkhost.go): both share the alert tracker under one key per *)
(* chat and host.                                                          *)
(*                                                                         *)
(* One node.  Its reports arrive in the order they were sent (NodeSync has *)
(* the others).  CheckHostAlertEnabled and quiet hours only decide whether *)
(* a block is announced.                                                   *)
(***************************************************************************)
EXTENDS Naturals, FiniteSets

CONSTANTS
    Callbacks,   \* goroutines of reports that exist at the same time (a bound)
    Hosts,       \* audited addresses
    Local,       \* those the master audits too, under the same key: TCP targets
                 \* (for UDP the master's key has the port, the node's has not)
    Chats,
    Mids,        \* message ids
    MaxEvents    \* bound on restarts, failing saves, changes of the world and settings

Actors == Callbacks \cup {"sweep", "audit"}
Keys == Hosts \X Chats
NoMid == 0

ASSUME ReportsAssumption ==
    /\ Local \subseteq Hosts /\ MaxEvents \in Nat
    /\ IsFiniteSet(Hosts) /\ IsFiniteSet(Chats) /\ IsFiniteSet(Callbacks)
    \* Enough ids for every message tracked, in the file and held.
    /\ NoMid \notin Mids
    /\ Cardinality(Mids) >= 2 * Cardinality(Keys) + Cardinality(Actors)

VARIABLES
    alive,     \* the node sends reports
    targets,   \* the hosts it audits now
    blocked,   \* hosts that are unreachable from Russia
    results,   \* the node's summaries: host -> was it blocked when last checked
    status,    \* its status in the registry
    known,     \* Bot.lastNodeHealth of it
    stored,    \* r.audits of it: the summaries of its last report
    loud,      \* CheckHostAlertEnabled and no quiet hours
    alerts,    \* the tracker: key -> message
    disk,      \* the tracker's file
    red,       \* the announcements that stand in the chats and that the tracker,
               \* its file or a goroutine refers to: message -> key
    act,       \* [Actors -> the goroutines]
    events,    \* what of MaxEvents has happened
    (* History, for the properties only. *)
    stale,     \* keys whose alert a restart read from a file that missed a change
    overtaken  \* the sweep came when a callback had read the node as up and had not
               \* folded that yet, and no report has come since

worldVars == <<alive, targets, blocked, results, loud>>
healthVars == <<status, known, stored, overtaken>>
alertVars == <<alerts, disk, red, stale>>
repVars == <<worldVars, healthVars, alertVars, act, events>>

NoMap == [x \in {} |-> NoMid]

Idle == [pc |-> "idle", up |-> FALSE, view |-> NoMap, loud |-> FALSE, todo |-> {},
         cur |-> <<>>, mid |-> NoMid]

Drop(f, S) == [x \in DOMAIN f \ S |-> f[x]]
Put(f, k, v) == [x \in DOMAIN f \cup {k} |-> IF x = k THEN v ELSE f[x]]
Held == {act[a].mid : a \in Actors} \ {NoMid}
Listed(f) == {f[k] : k \in DOMAIN f}
Referred == Listed(alerts) \cup Listed(disk) \cup Held
FreshMid == CHOOSE m \in Mids : m \notin Referred

\* A message that nobody finds any more leaves the picture.
RedFollows == red' = Drop(red, DOMAIN red \ Referred')

-----------------------------------------------------------------------------
(* The world, the settings and the process.                                *)

Change ==
    /\ events < MaxEvents /\ events' = events + 1
    /\ UNCHANGED <<healthVars, alertVars, act>>

\* The node loses its summaries when its process stops, not when its network does.
NodeLives ==
    /\ Change
    /\ alive' = ~alive
    /\ results' \in {results, NoMap}
    /\ UNCHANGED <<targets, blocked, loud>>

Toggled(S, h) == IF h \in S THEN S \ {h} ELSE S \cup {h}

HostChanges(h) ==
    /\ Change
    /\ blocked' = Toggled(blocked, h)
    /\ UNCHANGED <<alive, targets, results, loud>>

\* A proxy comes or goes on the node, or its audits are switched on or off.
TargetsChange(h) ==
    /\ Change
    /\ targets' = Toggled(targets, h)
    /\ UNCHANGED <<alive, blocked, results, loud>>

LoudChanges == Change /\ loud' = ~loud /\ UNCHANGED <<alive, targets, blocked, results>>

\* The tracker is read from its file, or starts empty when that fails (NewAlertTracker
\* ignores the error); the registry starts without reports.
Restart ==
    /\ events < MaxEvents /\ events' = events + 1
    /\ status' = "pending" /\ known' = "unknown" /\ stored' = NoMap /\ overtaken' = FALSE
    /\ act' = [a \in Actors |-> Idle]
    /\ alerts' \in {disk, NoMap}
    /\ stale' = {k \in DOMAIN alerts' :
                    k \in DOMAIN alerts /\ alerts[k] = disk[k] => k \in stale}
    /\ UNCHANGED <<worldVars, disk>>
    /\ RedFollows

\* A write of the alert file may fail, which Track and Resolve ignore.
Saved ==
    \/ disk' = alerts' /\ events' = events
    \/ disk' = disk /\ events < MaxEvents /\ events' = events + 1

-----------------------------------------------------------------------------
(* Reports, the sweep and the health of the node.                          *)

\* The node's auditor checks one host; a check that fails keeps the summary it had,
\* and the summary of a host that is no target any more is never removed.
NodeAudits(h) ==
    /\ alive /\ h \in targets
    /\ results' = Put(results, h, h \in blocked)
    /\ UNCHANGED <<alive, targets, blocked, loud, healthVars, alertVars, act, events>>

\* A report without summaries deletes the node's audits (no summaries are sent as
\* none).
Report(c) ==
    /\ alive
    /\ act[c].pc = "idle"
    /\ status' = "up"
    /\ stored' = results /\ overtaken' = FALSE
    /\ act' = [act EXCEPT ![c] = [Idle EXCEPT !.pc = "start"]]
    /\ UNCHANGED <<worldVars, known, alertVars, events>>

SweepSilently ==     \* mutant: the sweep feeds nothing
    /\ ~alive /\ status = "up"
    /\ status' = "down"
    /\ UNCHANGED <<worldVars, known, stored, overtaken, alertVars, act, events>>

\* The job sweeps a silent node, whatever the callbacks of its reports are doing.
Sweep ==
    /\ ~alive /\ status = "up"
    /\ act["sweep"].pc = "idle"
    /\ status' = "down"
    /\ overtaken' = (\E c \in Callbacks : act[c].pc = "read" /\ act[c].up)
    /\ act' = [act EXCEPT !["sweep"] = [Idle EXCEPT !.pc = "start"]]
    /\ UNCHANGED <<worldVars, known, stored, alertVars, events>>

\* HealthSnapshot, before nodeHealthMu is taken.
ReadHealth(a) ==
    /\ act[a].pc = "start"
    /\ act' = [act EXCEPT ![a].pc = "read", ![a].up = (status = "up")]
    /\ UNCHANGED <<worldVars, healthVars, alertVars, events>>

FoldThenAudits(a) ==     \* mutant: the sweep goes on to the audits as a report does
    /\ act[a].pc = "read"
    /\ known' = IF act[a].up THEN "up" ELSE "down"
    /\ act' = [act EXCEPT ![a] = [Idle EXCEPT !.pc = "audits"]]
    /\ UNCHANGED <<worldVars, status, stored, overtaken, alertVars, events>>

\* updateNodeHealthLocked; the sweep ends here.
FoldHealth(a) ==
    /\ act[a].pc = "read"
    /\ known' = IF act[a].up THEN "up" ELSE "down"
    /\ act' = [act EXCEPT ![a] = IF a = "sweep" THEN Idle
                                ELSE [Idle EXCEPT !.pc = "audits"]]
    /\ UNCHANGED <<worldVars, status, stored, overtaken, alertVars, events>>

-----------------------------------------------------------------------------
(* Whose audits are processed.                                             *)

\* ProcessNodeCheckHostAudits with what NodeAudits returns by now.
ReadAudits(a) ==
    /\ act[a].pc = "audits"
    /\ act' = [act EXCEPT ![a] =
          IF DOMAIN stored = {} THEN Idle
          ELSE [Idle EXCEPT !.pc = "alert", !.view = stored, !.loud = loud,
                            !.todo = (DOMAIN stored) \X Chats]]
    /\ UNCHANGED <<worldVars, healthVars, alertVars, events>>

\* RunCheckHostAudit: one at a time (checkHostRunning), one host after the other.
AuditLocal(h) ==
    /\ h \in Local
    /\ act["audit"].pc = "idle"
    /\ act' = [act EXCEPT !["audit"] =
          [Idle EXCEPT !.pc = "alert", !.view = [x \in {h} |-> x \in blocked],
                       !.loud = loud, !.todo = {h} \X Chats]]
    /\ UNCHANGED <<worldVars, healthVars, alertVars, events>>

-----------------------------------------------------------------------------
(* Announcing and resolving, per host and chat.                            *)

AlertStep == UNCHANGED <<worldVars, healthVars>>
FileKept == UNCHANGED <<disk, stale, events>>

\* A block that is announced already, or is not to be announced now.
SkipBlock(a, k) ==
    /\ act[a].pc = "alert" /\ k \in act[a].todo
    /\ act[a].view[k[1]]
    /\ k \in DOMAIN alerts \/ ~act[a].loud
    /\ act' = [act EXCEPT ![a].todo = @ \ {k}]
    /\ UNCHANGED <<alertVars, events>> /\ AlertStep

\* HasAlert is false; the message is sent next.
StartSend(a, k) ==
    /\ act[a].pc = "alert" /\ k \in act[a].todo
    /\ act[a].view[k[1]]
    /\ k \notin DOMAIN alerts /\ act[a].loud
    /\ act' = [act EXCEPT ![a].pc = "send", ![a].todo = @ \ {k}, ![a].cur = k]
    /\ UNCHANGED <<alertVars, events>> /\ AlertStep

SendFails(a) ==
    /\ act[a].pc = "send"
    /\ act' = [act EXCEPT ![a].pc = "alert", ![a].cur = <<>>]
    /\ UNCHANGED <<alertVars, events>> /\ AlertStep

Sent(a) ==
    /\ act[a].pc = "send"
    /\ red' = Put(red, FreshMid, act[a].cur)
    /\ act' = [act EXCEPT ![a].pc = "track", ![a].mid = FreshMid]
    /\ UNCHANGED alerts /\ FileKept /\ AlertStep

TrackNothing(a) ==     \* mutant: the announcement is not tracked
    /\ act[a].pc = "track"
    /\ act' = [act EXCEPT ![a].pc = "alert", ![a].cur = <<>>, ![a].mid = NoMid]
    /\ red' = Drop(red, {act[a].mid})
    /\ UNCHANGED alerts /\ FileKept /\ AlertStep

\* Track replaces the alert of another actor; nobody finds its message any more,
\* unless the file still has it.
Track(a) ==
    LET k == act[a].cur
    IN  /\ act[a].pc = "track"
        /\ alerts' = Put(alerts, k, act[a].mid)
        /\ Saved
        /\ stale' = stale \ {k}
        /\ act' = [act EXCEPT ![a].pc = "alert", ![a].cur = <<>>, ![a].mid = NoMid]
        /\ RedFollows /\ AlertStep

ResolveKept(a, k) ==     \* mutant: the alert is looked up and not removed
    /\ act[a].pc = "alert" /\ k \in act[a].todo
    /\ ~act[a].view[k[1]]
    /\ IF k \in DOMAIN alerts /\ alerts[k] \notin Held
       THEN act' = [act EXCEPT ![a].pc = "take", ![a].todo = @ \ {k}, ![a].mid = alerts[k]]
       ELSE act' = [act EXCEPT ![a].todo = @ \ {k}]
    /\ UNCHANGED <<alertVars, events>> /\ AlertStep

Taken(a, k) ==
    /\ k \in DOMAIN alerts
    /\ alerts' = Drop(alerts, {k})
    /\ Saved
    /\ stale' = stale \ {k}
    /\ act' = [act EXCEPT ![a].pc = "take", ![a].todo = @ \ {k}, ![a].mid = alerts[k]]
    /\ RedFollows

NotTaken(a, k) ==
    /\ act' = [act EXCEPT ![a].todo = @ \ {k}]
    /\ UNCHANGED <<alertVars, events>>

ResolveLoud(a, k) ==     \* mutant: alerts are resolved only when they may be announced
    /\ act[a].pc = "alert" /\ k \in act[a].todo
    /\ ~act[a].view[k[1]]
    /\ \/ act[a].loud /\ Taken(a, k)
       \/ (k \notin DOMAIN alerts \/ ~act[a].loud) /\ NotTaken(a, k)
    /\ AlertStep

\* The host is reachable: Resolve takes the alert out of the tracker and its file.
Resolve(a, k) ==
    /\ act[a].pc = "alert" /\ k \in act[a].todo
    /\ ~act[a].view[k[1]]
    /\ \/ Taken(a, k)
       \/ k \notin DOMAIN alerts /\ NotTaken(a, k)
    /\ AlertStep

\* Clean mode deletes the message.  In live mode the master's audit edits it and a
\* node's report leaves it as it is; either way nobody holds it any more.
TakeDown(a) ==
    /\ act[a].pc = "take"
    /\ red' = Drop(red, {act[a].mid})
    /\ act' = [act EXCEPT ![a].pc = "alert", ![a].mid = NoMid]
    /\ UNCHANGED alerts /\ FileKept /\ AlertStep

EndAlerts(a) ==
    /\ act[a].pc = "alert" /\ act[a].todo = {}
    /\ act' = [act EXCEPT ![a] = Idle]
    /\ UNCHANGED <<alertVars, events>> /\ AlertStep

ReportsInit ==
    /\ alive \in BOOLEAN /\ status = "pending" /\ known = "unknown"
    /\ overtaken = FALSE
    /\ blocked \in SUBSET Hosts /\ targets \in SUBSET Hosts /\ loud \in BOOLEAN
    /\ results = NoMap /\ stored = NoMap
    /\ alerts = NoMap /\ disk = NoMap /\ red = NoMap /\ stale = {}
    /\ act = [a \in Actors |-> Idle] /\ events = 0

ActorStep(a) ==
    \/ ReadHealth(a) \/ FoldHealth(a) \/ ReadAudits(a)
    \/ \E k \in Keys : SkipBlock(a, k) \/ StartSend(a, k) \/ Resolve(a, k)
    \/ SendFails(a) \/ Sent(a) \/ Track(a) \/ TakeDown(a) \/ EndAlerts(a)

ReportsNext ==
    \/ NodeLives \/ LoudChanges \/ Restart \/ Sweep
    \/ \E h \in Hosts : HostChanges(h) \/ TargetsChange(h) \/ NodeAudits(h) \/ AuditLocal(h)
    \/ \E c \in Callbacks : Report(c)
    \/ \E a \in Actors : ActorStep(a)

\* Goroutines go on, a send that is tried again and again succeeds, a living node
\* audits its targets and reports, and the sweep is run every 30 seconds.
ReportsFairness ==
    /\ \A a \in Actors : WF_repVars(ActorStep(a)) /\ SF_repVars(Sent(a))
    /\ SF_repVars(\E c \in Callbacks : Report(c))
    /\ \A h \in Hosts : WF_repVars(NodeAudits(h))
    /\ SF_repVars(Sweep)

ReportsSpec == ReportsInit /\ [][ReportsNext]_repVars /\ ReportsFairness

-----------------------------------------------------------------------------
(* Properties.                                                             *)

\* Types; the actors of health end before the alerts, and only a send or a deletion
\* that is under way holds a message.
ReportsTypeOK ==
    /\ status \in {"pending", "up", "down"} /\ known \in {"unknown", "up", "down"}
    /\ DOMAIN alerts \cup DOMAIN disk \cup stale \subseteq Keys /\ DOMAIN red \subseteq Mids
    /\ \A a \in Actors : act[a].mid # NoMid <=> act[a].pc \in {"track", "take"}
    /\ act["sweep"].pc \in {"idle", "start", "read"}

\* A tracked alert stands for a message that is still in the chat, is of that chat and
\* host and is handled by nobody else: a stale one would keep the host's next block
\* from being announced.  Reports and the master's audit interleave freely; only an
\* alert read back after a failed save may stand for a message that is gone.
TrackedStands ==
    \A k \in DOMAIN alerts :
        /\ alerts[k] \in DOMAIN red \/ k \in stale
        /\ alerts[k] \in DOMAIN red => red[alerts[k]] = k
        /\ alerts[k] \notin Held

\* Whatever callback and sweep is late, a node that goes on reporting ends up known as
\* up, and one that falls silent for good as not up (ProcessNodesHealth).  The one order
\* that leaves a dead node up for ever is the exception: a callback reads the node as
\* up, the sweep takes it down and folds that, and the callback folds what it read.
HealthConverges ==
    <>[](IF alive THEN known = "up" ELSE known # "up" \/ overtaken)

\* A block of a host the node audits that lasts is announced in every chat as long as
\* the node reports, however many sends fail and whoever else handles the host.  The
\* exception is an alert that a failed save brought back.
BlockAnnounced ==
    <>[](alive /\ loud => \A k \in Keys : k[1] \in blocked \cap targets =>
            k \in stale \/ (k \in DOMAIN alerts /\ alerts[k] \in DOMAIN red))

\* A host the node audits that stays reachable ends up without alerts, quiet hours,
\* failed saves and restarts or not.
BlockCleared ==
    <>[](alive => \A k \in Keys : k[1] \in targets \ blocked => k \notin DOMAIN alerts)

-----------------------------------------------------------------------------
(* What the repository promises and the code does not keep: TLC refutes     *)
(* both on the instance of MCReports.cfg (README, section 6).               *)

\* A block is announced once per chat: "a host is tracked exactly once" by reports and
\* the master's audit together (HasAlert, sendAndReturn, Track).
AnnouncedOnce == \A m, n \in DOMAIN red : red[m] = red[n] => m = n

\* "Automatically notifies when a node goes down": every silent node is
\* known as not up in the end (ProcessNodesHealth, SweepStale).
DeadNodeIsKnown == <>[](~alive => known # "up")

=============================================================================
