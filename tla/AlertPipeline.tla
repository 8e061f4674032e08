---------------------------- MODULE AlertPipeline ----------------------------
(***************************************************************************)
(* From a snapshot of proxy states to outage messages in the chats:        *)
(* telegram/alerts.go (ProcessSnapshot), telegram/alert_tracker.go and the *)
(* emitSnapshot closure of main.go.                                        *)
(*                                                                         *)
(* emitSnapshot runs on the check goroutine, on a goroutine per accepted   *)
(* node report, on the sweep job and at bot start.  Each such goroutine is *)
(* an emitter: it takes a snapshot, runs the b.mu section of               *)
(* ProcessSnapshot, and then talks to Telegram without the lock, so the    *)
(* emitters interleave at every arrow of                                   *)
(*   idle -> locked -> del -> out <-> send -> track -> out -> rec -> idle. *)
(*                                                                         *)
(* A chat is reduced to its outage messages (the red ones): deleting one   *)
(* (clean mode) and turning it into a recovery line (live mode) both take  *)
(* it out of red.  Recovery notes are never read back and are left out.    *)
(* A message id may be reused once nothing refers to it.                   *)
(***************************************************************************)
EXTENDS Integers, FiniteSets

CONSTANTS
    Ids,        \* StableIDs of the proxies
    NodeIds,    \* those reported by a remote node
    Targets,    \* chats (or topics) the alerts go to
    Emitters,   \* goroutines running emitSnapshot
    Mids,       \* message ids; bounds how many messages exist at once
    Events      \* what may happen to the pipeline, a subset of AllEvents

\* "crash": the process restarts; "api": a Telegram call fails; "save": the
\* alert file is not written; "remove": a proxy leaves the subscriptions;
\* "mute": the admin switches the chat alerts for node proxies; "quiet": quiet
\* hours begin and end; "flap": a proxy flaps more than 10 times a day.
AllEvents == {"crash", "api", "save", "remove", "mute", "quiet", "flap"}

\* In the place of a message id when there is none.
NoMid == 0

ASSUME PipelineAssumption ==
    /\ NodeIds \subseteq Ids
    /\ Events \subseteq AllEvents
    /\ NoMid \notin Mids

VARIABLES
    world,     \* what MetricsSnapshot returns for each proxy now
    seeded,    \* b.seeded
    lastSeen,  \* b.lastSeen: [known proxies -> online?]
    alerts,    \* tracker.alerts: [subset of Keys -> Mids]
    disk,      \* the alert file
    red,       \* outage messages standing in the chats: [subset of Mids -> Keys]
    em,        \* the emitters
    quiet,     \* IsQuietTime(now, cfg)
    wasQuiet,  \* b.wasQuiet: the same at the scheduler's last tick
    flapping,  \* proxies the stats store counts more than 10 flaps for
    held,      \* proxies whose lastFlapAlert is less than 15 minutes old
    buffer,    \* b.eventBuffer, as a set of events
    nodeChat   \* cfg.NodeProxyAlertsChat

pipeVars == <<world, seeded, lastSeen, alerts, disk, red, em, quiet, wasQuiet,
              flapping, held, buffer, nodeChat>>

Keys == Targets \X Ids
NoKey == <<>>

Seen == {"on", "off", "disabled"}
\* A proxy without a result yet, or gone from the subscriptions, is absent.
WorldState == Seen \cup {"absent"}

SnapshotOf(w) == [i \in {j \in Ids : w[j] # "absent"} |-> w[i]]

IdleEmitter == [pc |-> "idle", snap |-> [i \in {} |-> "on"], dels |-> {},
                outs |-> {}, recs |-> {}, cur |-> NoKey, mid |-> NoMid]

Drop(f, S) == [x \in DOMAIN f \ S |-> f[x]]
Put(f, k, v) == [x \in DOMAIN f \cup {k} |-> IF x = k THEN v ELSE f[x]]

\* alertKey: one entry for every target and proxy.
AlertKeyByProxy(t, i) == <<CHOOSE u \in Targets : TRUE, i>>     \* mutant
AlertKey(t, i) == <<t, i>>

KeysOf(S) == {AlertKey(t, i) : t \in Targets, i \in S}
MidsFor(S) == {alerts[k] : k \in DOMAIN alerts \cap KeysOf(S)}

\* Resolve on each of the keys.  Every entry it removes is followed by
\* saveLocked, whose error is ignored: the file then keeps what the last
\* successful write put there.
ResolveAll(S) ==
    LET gone == S \cap DOMAIN alerts
    IN  /\ alerts' = Drop(alerts, gone)
        /\ \/ disk' = IF gone = {} THEN disk ELSE alerts'
           \/ /\ "save" \in Events
              /\ \E done \in SUBSET gone :
                    disk' = IF done = {} THEN disk ELSE Drop(alerts, done)

\* DeleteMessage or EditMessageText on each of the messages; errors are ignored.
TakeDown(S) ==
    \/ red' = Drop(red, S)
    \/ /\ "api" \in Events
       /\ \E done \in SUBSET S : done # S /\ red' = Drop(red, done)

MidsInUse == DOMAIN red
    \cup {alerts[k] : k \in DOMAIN alerts} \cup {disk[k] : k \in DOMAIN disk}
    \cup UNION {em[e].dels \cup em[e].recs \cup {em[e].mid} : e \in Emitters}

\* Telegram gives every message a new id.
FreshMids == Mids \ MidsInUse
FreshMid == CHOOSE m \in FreshMids : TRUE

-----------------------------------------------------------------------------
(* What the bot is given.                                                  *)

\* A check, a toggle of the disabled list or a new subscription content.
WorldChanges(i, v) ==
    /\ v \in Seen \cup (IF "remove" \in Events THEN {"absent"} ELSE {})
    /\ v # world[i]
    /\ world' = [world EXCEPT ![i] = v]
    /\ UNCHANGED <<seeded, lastSeen, alerts, disk, red, em, quiet, wasQuiet, flapping,
                   held, buffer, nodeChat>>

\* emitSnapshot up to the call of ProcessSnapshot.
Capture(e, snap) ==
    /\ em[e].pc = "idle"
    /\ em' = [em EXCEPT ![e] = [IdleEmitter EXCEPT !.pc = "locked", !.snap = snap]]
    /\ UNCHANGED <<world, seeded, lastSeen, alerts, disk, red, quiet, wasQuiet, flapping,
                   held, buffer, nodeChat>>

-----------------------------------------------------------------------------
(* ProcessSnapshot while it holds b.mu.                                    *)

Enabled(snap) == {i \in DOMAIN snap : snap[i] # "disabled"}

ViewOnce(snap) ==     \* mutant: a known proxy keeps its first state
    [i \in Enabled(snap) |-> IF i \in DOMAIN lastSeen THEN lastSeen[i] ELSE snap[i] = "on"]
View(snap) == [i \in Enabled(snap) |-> snap[i] = "on"]

\* The first snapshot only records what is there.
Seed(e) ==
    LET snap == em[e].snap
    IN  /\ em[e].pc = "locked"
        /\ ~seeded
        /\ seeded' = TRUE
        /\ lastSeen' = View(snap)
        /\ ResolveAll(KeysOf({i \in Enabled(snap) : snap[i] = "on"}))
        /\ em' = [em EXCEPT ![e] = IdleEmitter]
        /\ UNCHANGED <<world, red, quiet, wasQuiet, flapping, held, buffer, nodeChat>>

Muted(i) == i \in NodeIds /\ ~nodeChat
WentDown(snap) == {i \in Enabled(snap) \cap DOMAIN lastSeen : lastSeen[i] /\ snap[i] = "off"}
CameUp(snap) == {i \in Enabled(snap) \cap DOMAIN lastSeen : ~lastSeen[i] /\ snap[i] = "on"}
Suppressed(i) == i \in flapping /\ i \in held

\* The alerts the loop over the snapshot resolves.
ResolvedDisabled(snap) == KeysOf(DOMAIN snap \ Enabled(snap))     \* mutant: not on recovery
ResolvedLoud(snap) ==     \* mutant: not on recovery in quiet hours
    KeysOf((DOMAIN snap \ Enabled(snap)) \cup (IF quiet THEN {} ELSE CameUp(snap)))
Resolved(snap) == KeysOf((DOMAIN snap \ Enabled(snap)) \cup CameUp(snap))

\* In quiet hours the messages are deleted or edited under b.mu.
QuietRecoveryForgets(S) == red' = red     \* mutant
QuietRecovery(S) == TakeDown(MidsFor(S))

Process(e) ==
    LET snap   == em[e].snap
        loud   == {i \in WentDown(snap) : ~Muted(i) /\ ~quiet}
        spoken == {i \in CameUp(snap) : ~Muted(i)}
    IN  /\ em[e].pc = "locked"
        /\ seeded
        /\ lastSeen' = View(snap)
        /\ ResolveAll(Resolved(snap))
        /\ em' = [em EXCEPT ![e] =
              [IdleEmitter EXCEPT
                 !.pc   = "del",
                 !.dels = MidsFor(DOMAIN snap \ Enabled(snap)),
                 !.outs = Targets \X {i \in loud : ~Suppressed(i)},
                 !.recs = IF quiet THEN {} ELSE MidsFor(spoken)]]
        /\ IF quiet THEN QuietRecovery(spoken) ELSE red' = red
        /\ buffer' = IF quiet
                     THEN buffer
                          \cup {<<"down", i>> : i \in {j \in WentDown(snap) : ~Muted(j)}}
                          \cup {<<"up", i>> : i \in spoken}
                     ELSE buffer
        \* lastFlapAlert outlives a disabled proxy, not an absent one.
        /\ held' = (held \cup (loud \cap flapping)) \ (DOMAIN lastSeen \ DOMAIN snap)
        /\ UNCHANGED <<world, seeded, quiet, wasQuiet, flapping, nodeChat>>

-----------------------------------------------------------------------------
(* ProcessSnapshot after b.mu is released.                                 *)

NetUnchanged == UNCHANGED <<world, seeded, lastSeen, quiet, wasQuiet, flapping, held,
                            buffer, nodeChat>>

DeleteDisabledForgets(e) ==     \* mutant
    /\ em[e].pc = "del"
    /\ em' = [em EXCEPT ![e].pc = "out", ![e].dels = {}]
    /\ UNCHANGED <<alerts, disk, red>> /\ NetUnchanged

DeleteDisabled(e) ==
    /\ em[e].pc = "del"
    /\ TakeDown(em[e].dels)
    /\ em' = [em EXCEPT ![e].pc = "out", ![e].dels = {}]
    /\ UNCHANGED <<alerts, disk>> /\ NetUnchanged

HasAlert(k) == AlertKey(k[1], k[2]) \in DOMAIN alerts

\* A tracked alert stands for this outage too.
SkipAlerted(e, k) ==
    /\ em[e].pc = "out"
    /\ k \in em[e].outs /\ HasAlert(k)
    /\ em' = [em EXCEPT ![e].outs = @ \ {k}]
    /\ UNCHANGED <<alerts, disk, red>> /\ NetUnchanged

StartSend(e, k) ==
    /\ em[e].pc = "out"
    /\ k \in em[e].outs /\ ~HasAlert(k)
    /\ em' = [em EXCEPT ![e].pc = "send", ![e].outs = @ \ {k}, ![e].cur = k]
    /\ UNCHANGED <<alerts, disk, red>> /\ NetUnchanged

\* stillDown is !b.lastSeen[id], so an unknown proxy counts as down.
StillDown(i) == ~(i \in DOMAIN lastSeen /\ lastSeen[i])

SendFailsUnnoticed(e) ==     \* mutant: the error of sendAndReturn is ignored
    /\ "api" \in Events
    /\ em[e].pc = "send"
    /\ em' = [em EXCEPT ![e].pc = "track"]
    /\ UNCHANGED <<alerts, disk, red>> /\ NetUnchanged

SendFails(e) ==
    /\ "api" \in Events
    /\ em[e].pc = "send"
    /\ em' = [em EXCEPT ![e].pc = "out", ![e].cur = NoKey]
    /\ UNCHANGED <<alerts, disk, red>> /\ NetUnchanged

\* The message is in the chat and the proxy is looked up again under b.mu.
SentStillDown(e) ==
    /\ em[e].pc = "send"
    /\ FreshMids # {}
    /\ StillDown(em[e].cur[2])
    /\ red' = Put(red, FreshMid, em[e].cur)
    /\ em' = [em EXCEPT ![e].pc = "track", ![e].mid = FreshMid]
    /\ UNCHANGED <<alerts, disk>> /\ NetUnchanged

\* Recovered meanwhile: the message is deleted at once.
SentTooLate(e) ==
    /\ em[e].pc = "send"
    /\ FreshMids # {}
    /\ ~StillDown(em[e].cur[2])
    /\ red' = red \/ ("api" \in Events /\ red' = Put(red, FreshMid, em[e].cur))
    /\ em' = [em EXCEPT ![e].pc = "out", ![e].cur = NoKey]
    /\ UNCHANGED <<alerts, disk>> /\ NetUnchanged

Track(e) ==
    /\ em[e].pc = "track"
    /\ alerts' = Put(alerts, AlertKey(em[e].cur[1], em[e].cur[2]), em[e].mid)
    /\ disk' = alerts' \/ ("save" \in Events /\ disk' = disk)
    /\ em' = [em EXCEPT ![e].pc = "out", ![e].cur = NoKey, ![e].mid = NoMid]
    /\ UNCHANGED red /\ NetUnchanged

\* The recoveries come after the last outage.
Recover(e) ==
    /\ em[e].pc = "out"
    /\ em[e].outs = {}
    /\ TakeDown(em[e].recs)
    /\ em' = [em EXCEPT ![e] = IdleEmitter]
    /\ UNCHANGED <<alerts, disk>> /\ NetUnchanged

-----------------------------------------------------------------------------
(* The clock, the stats store, the settings and the process.               *)

\* Quiet hours or a snooze begin or end.
QuietChanges ==
    /\ "quiet" \in Events
    /\ quiet' = ~quiet
    /\ UNCHANGED <<world, seeded, lastSeen, alerts, disk, red, em, wasQuiet, flapping,
                   held, buffer, nodeChat>>

\* The scheduler's tick.  The first one outside quiet hours sends the buffered
\* events as the morning digest, if it comes within an hour of QuietHoursEnd (a
\* snooze may end at any time); otherwise they stay for a later digest.
CheckSchedules(nearEnd) ==
    /\ wasQuiet' = quiet
    /\ buffer' = IF wasQuiet /\ ~quiet /\ nearEnd THEN {} ELSE buffer
    /\ UNCHANGED <<world, seeded, lastSeen, alerts, disk, red, em, quiet,
                   flapping, held, nodeChat>>

\* GetFlapCount24h of a proxy crosses the limit of 10, in either direction.
FlapCountChanges(i) ==
    /\ "flap" \in Events
    /\ flapping' = IF i \in flapping THEN flapping \ {i} ELSE flapping \cup {i}
    /\ UNCHANGED <<world, seeded, lastSeen, alerts, disk, red, em, quiet,
                   wasQuiet, held, buffer, nodeChat>>

\* 15 minutes have passed since lastFlapAlert.
HoldExpires(i) ==
    /\ i \in held
    /\ held' = held \ {i}
    /\ UNCHANGED <<world, seeded, lastSeen, alerts, disk, red, em, quiet,
                   wasQuiet, flapping, buffer, nodeChat>>

ToggleNodeChat ==
    /\ "mute" \in Events
    /\ nodeChat' = ~nodeChat
    /\ UNCHANGED <<world, seeded, lastSeen, alerts, disk, red, em, quiet,
                   wasQuiet, flapping, held, buffer>>

\* A new process: the alert file is loaded, nothing else is remembered, and
\* MetricsSnapshot is empty until the first check has results.
Restart ==
    /\ "crash" \in Events
    /\ world' = [i \in Ids |-> "absent"]
    /\ seeded' = FALSE
    /\ lastSeen' = [i \in {} |-> TRUE]
    /\ alerts' = disk
    /\ em' = [e \in Emitters |-> IdleEmitter]
    /\ held' = {} /\ buffer' = {} /\ wasQuiet' = quiet
    /\ UNCHANGED <<disk, red, quiet, flapping, nodeChat>>

PipeInit ==
    /\ world = [i \in Ids |-> "absent"]
    /\ seeded = FALSE
    /\ lastSeen = [i \in {} |-> TRUE]
    /\ alerts = [k \in {} |-> NoMid]
    /\ disk = [k \in {} |-> NoMid]
    /\ red = [m \in {} |-> NoKey]
    /\ em = [e \in Emitters |-> IdleEmitter]
    /\ quiet = FALSE /\ wasQuiet = FALSE
    /\ flapping = {} /\ held = {} /\ buffer = {}
    /\ nodeChat = TRUE

\* One emitter's part of ProcessSnapshot.
EmitterStep(e) ==
    \/ Seed(e) \/ Process(e) \/ DeleteDisabled(e)
    \/ \E k \in Keys : SkipAlerted(e, k)
    \/ \E k \in Keys : StartSend(e, k)
    \/ SendFails(e) \/ SentStillDown(e) \/ SentTooLate(e)
    \/ Track(e) \/ Recover(e)

EnvStep ==
    \/ QuietChanges
    \/ \E nearEnd \in BOOLEAN : CheckSchedules(nearEnd)
    \/ \E i \in Ids : FlapCountChanges(i)
    \/ \E i \in Ids : HoldExpires(i)
    \/ ToggleNodeChat \/ Restart

PipeNext ==
    \/ \E i \in Ids, v \in WorldState : WorldChanges(i, v)
    \/ \E e \in Emitters : Capture(e, SnapshotOf(world))
    \/ \E e \in Emitters : EmitterStep(e)
    \/ EnvStep

\* Checks are scheduled for ever and ProcessSnapshot runs to its end.
PipeFairness ==
    \A e \in Emitters : /\ WF_pipeVars(Capture(e, SnapshotOf(world)))
                        /\ WF_pipeVars(EmitterStep(e))

PipeSpec == PipeInit /\ [][PipeNext]_pipeVars /\ PipeFairness

-----------------------------------------------------------------------------
(* Properties.                                                             *)

EmitterState ==
    [pc : {"idle", "locked", "del", "out", "send", "track"},
     snap : UNION {[S -> Seen] : S \in SUBSET Ids},
     dels : SUBSET Mids, outs : SUBSET Keys, recs : SUBSET Mids,
     cur : Keys \cup {NoKey}, mid : Mids \cup {NoMid}]

PipeTypeOK ==
    /\ world \in [Ids -> WorldState]
    /\ seeded \in BOOLEAN
    /\ DOMAIN lastSeen \subseteq Ids /\ lastSeen \in [DOMAIN lastSeen -> BOOLEAN]
    /\ DOMAIN alerts \subseteq Keys /\ alerts \in [DOMAIN alerts -> Mids]
    /\ DOMAIN disk \subseteq Keys /\ disk \in [DOMAIN disk -> Mids]
    /\ DOMAIN red \subseteq Mids /\ red \in [DOMAIN red -> Keys]
    /\ em \in [Emitters -> EmitterState]
    /\ quiet \in BOOLEAN /\ wasQuiet \in BOOLEAN
    /\ flapping \subseteq Ids /\ held \subseteq Ids
    /\ buffer \subseteq {"down", "up"} \X Ids
    /\ nodeChat \in BOOLEAN

\* The places that may act on a message: the tracker's entries and, for each
\* emitter, the message it is about to track, delete or turn into a recovery.
Trackers(m) == {k \in DOMAIN alerts : alerts[k] = m}
Holders(m) == {e \in Emitters : em[e].mid = m \/ m \in em[e].dels \/ m \in em[e].recs}

\* However the emitters interleave, and across restarts, a message is in the
\* hands of at most one of them: Resolve hands it to one goroutine, and one
\* that is being handled is no longer tracked.  So no recovery edits or deletes
\* the message of another outage.
OneOwner ==
    \A m \in Mids :
        /\ Cardinality(Trackers(m)) + Cardinality(Holders(m)) <= 1
        /\ \A e \in Emitters :
              Cardinality({x \in {"mid", "dels", "recs"} :
                  \/ x = "mid" /\ em[e].mid = m
                  \/ x = "dels" /\ m \in em[e].dels
                  \/ x = "recs" /\ m \in em[e].recs}) <= 1

\* A tracked alert points to its own message: the chat and the proxy it was
\* sent for (alertKey keeps topics and proxies apart).
AlertsPointHome ==
    \A k \in DOMAIN alerts : alerts[k] \in DOMAIN red => red[alerts[k]] = k

AllIdle == \A e \in Emitters : em[e].pc = "idle"
KnownOnline(i) == i \in DOMAIN lastSeen /\ lastSeen[i]

\* Between two calls of ProcessSnapshot no outage message stands for a proxy
\* the bot knows to be online: clean mode deletes it upon recovery, live mode
\* edits it.
NoOutageMessageForOnline ==
    AllIdle => \A m \in DOMAIN red : ~KnownOnline(red[m][2])

\* Between two calls every outage message is tracked, so that a later recovery
\* will find it.
NoOrphanMessage ==
    AllIdle => \A m \in DOMAIN red : red[m] \in DOMAIN alerts /\ alerts[red[m]] = m

\* Between two calls no alert is tracked for a proxy the bot knows to be online.
\* A stale one keeps the next outage of the proxy from being announced.
NoTrackedAlertForOnline ==
    AllIdle => \A k \in DOMAIN alerts : ~KnownOnline(k[2])

\* A proxy that stays online ends up without tracked alerts.
RecoveredIsCleaned ==
    \A i \in Ids : <>[](world[i] = "on") => <>[](KeysOf({i}) \cap DOMAIN alerts = {})

\* Snapshots may be processed in another order than they were taken; once a
\* proxy's state settles, lastSeen agrees with it for good.
ViewConverges ==
    \A i \in Ids :
        /\ <>[](world[i] = "on") => <>[](i \in DOMAIN lastSeen /\ lastSeen[i])
        /\ <>[](world[i] = "off") => <>[](i \in DOMAIN lastSeen /\ ~lastSeen[i])

-----------------------------------------------------------------------------
(* Refinement: what the chats show implements OutageBoard.                 *)

Known(i) == IF i \notin DOMAIN lastSeen THEN "unknown"
            ELSE IF lastSeen[i] THEN "up" ELSE "down"

Board == INSTANCE OutageBoard WITH
    known <- [i \in Ids |-> Known(i)],
    board <- [s \in Targets \X Ids |-> Cardinality({m \in DOMAIN red : red[m] = s})]

\* With one emitter at a time the pipeline is an outage board: every announcement
\* is of a known outage that is not announced yet, and no message is taken down
\* while its outage lasts, through quiet hours, suppression and disabling.
BoardRefinement == Board!BoardSpec

=============================================================================
