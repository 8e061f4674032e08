----------------------------- MODULE IncidentLog ----------------------------
(***************************************************************************)
(* Who writes the statistics: ProcessSnapshot under b.mu                   *)
(* (telegram/alerts.go) and updateNodeHealthLocked under nodeHealthMu      *)
(* (telegram/nodes.go), which share nothing but the StatsStore and so      *)
(* interleave id by id, and the file it is saved to.  Which snapshots come *)
(* in which order is the subject of AlertPipeline and NodeReports; here    *)
(* any may come.                                                           *)
(***************************************************************************)
EXTENDS StatsStore

CONSTANTS
    Proxies,       \* stable ids
    Nodes,         \* "node:" ids, different from every stable id
    MaxClock,      \* bound of the clock
    MaxStarts,     \* bound of the restarts
    MaxFails       \* bound of the writes that fail

ASSUME LogAssumption == /\ Proxies \cap Nodes = {}
                        /\ MaxClock \in Nat /\ MaxStarts \in Nat /\ MaxFails \in Nat

Ids == Proxies \cup Nodes

VARIABLES
    clock, starts, fails,
    seeded,     \* Bot.seeded
    last,       \* Bot.lastSeen and Bot.lastNodeHealth, up or not
    pass,       \* the running ProcessSnapshot and updateNodeHealthLocked
    mem,        \* the StatsStore
    disk        \* its file

logVars == <<clock, starts, fails, seeded, last, pass, mem, disk>>

Passes == {"snapshot", "health"}
IdsOf(w) == IF w = "snapshot" THEN Proxies ELSE Nodes

\* seen is seenNow in the one, seen in the other.
NoPass == [busy |-> FALSE, now |-> 0, seen |-> {}]
NoView == [x \in {} |-> FALSE]

-----------------------------------------------------------------------------
(* One pass.                                                               *)

\* A pass takes the time when it has its lock, and keeps it.
Begin(w) ==
    /\ ~pass[w].busy
    /\ pass' = [pass EXCEPT ![w] = [busy |-> TRUE, now |-> clock, seen |-> {}]]
    /\ UNCHANGED <<clock, starts, fails, seeded, last, mem, disk>>

\* The beginning and the end of an outage are saved at once, and the error of such a
\* write is ignored.
Saved(i) ==
    IF Saves(mem, mem', i)
    THEN \/ disk' = mem' /\ fails' = fails
         \/ fails < MaxFails /\ fails' = fails + 1 /\ disk' = disk
    ELSE UNCHANGED <<disk, fails>>

\* A proxy that was there before is recorded when it changes, a node that is new too;
\* the first snapshot records every proxy as it is found.
Changed(w, i, up) ==
    IF i \in DOMAIN last[w] THEN last[w][i] # up ELSE w = "health" \/ ~seeded

\* One element of the snapshot or of the health list.
Observe(w, i, up) ==
    /\ pass[w].busy /\ i \in IdsOf(w) \ pass[w].seen
    /\ pass' = [pass EXCEPT ![w].seen = pass[w].seen \cup {i}]
    /\ last' = [last EXCEPT ![w] = Put(last[w], i, up)]
    /\ mem' = IF Changed(w, i, up) THEN Record(Checked(mem, i), i, up, pass[w].now)
                                   ELSE Checked(mem, i)
    /\ Saved(i)
    /\ UNCHANGED <<clock, starts, seeded>>

\* What was not seen is forgotten.
Forget(w) ==
    /\ pass[w].busy
    /\ pass' = [pass EXCEPT ![w] = NoPass]
    /\ last' = [last EXCEPT ![w] = [i \in DOMAIN last[w] \cap pass[w].seen |-> last[w][i]]]
    /\ UNCHANGED <<clock, starts, fails, disk>>

\* A snapshot may be empty or have disabled proxies only.  The first prunes nothing.
EndSnapshot ==
    /\ Forget("snapshot")
    /\ seeded' = TRUE
    /\ mem' = IF seeded THEN PruneInactive(mem, pass["snapshot"].seen) ELSE mem

\* Nothing happens without nodes.
EndHealth ==
    /\ pass["health"].seen # {}
    /\ Forget("health")
    /\ UNCHANGED <<seeded, mem>>

-----------------------------------------------------------------------------
(* Time, the periodic save and the process.                                *)

Tick ==
    /\ clock < MaxClock
    /\ clock' = clock + 1
    /\ UNCHANGED <<starts, fails, seeded, last, pass, mem, disk>>

\* Every five minutes and at Stop.
Save ==
    /\ disk' = mem
    /\ UNCHANGED <<clock, starts, fails, seeded, last, pass, mem>>

Restart ==
    /\ starts < MaxStarts
    /\ starts' = starts + 1
    /\ seeded' = FALSE
    /\ last' = [w \in Passes |-> NoView] /\ pass' = [w \in Passes |-> NoPass]
    /\ mem' = disk
    /\ UNCHANGED <<clock, fails, disk>>

LogInit ==
    /\ clock = 1 /\ starts = 0 /\ fails = 0
    /\ seeded = FALSE
    /\ last = [w \in Passes |-> NoView] /\ pass = [w \in Passes |-> NoPass]
    /\ mem = EmptyStore /\ disk = EmptyStore

LogNext ==
    \/ \E w \in Passes : Begin(w) \/ \E i \in IdsOf(w), up \in BOOLEAN : Observe(w, i, up)
    \/ EndSnapshot \/ EndHealth
    \/ Tick \/ Save \/ Restart

LogSpec == LogInit /\ [][LogNext]_logVars

-----------------------------------------------------------------------------
(* Properties.                                                             *)

\* The newest incident of i.
Newest(log, i) == log[Min(Of(log, i))]

\* Types, the quota of each id and the size of the log (addIncident).
LogTypeOK ==
    /\ DOMAIN mem.stats \subseteq Ids
    /\ \A w \in Passes : DOMAIN last[w] \subseteq IdsOf(w) /\ pass[w].seen \subseteq IdsOf(w)
    /\ \A i \in DOMAIN mem.stats : mem.stats[i].downAt <= clock /\ mem.stats[i].total \in Nat
    /\ Len(mem.log) <= MaxGlobal
    /\ \A i \in Ids : Cardinality(Of(mem.log, i)) <= MaxPerProxy

\* An outage the statistics count from downAt is the newest, open incident of its id,
\* through quotas, pruning, lost saves and restarts, unless the log is full.
CurrentOutageIsLogged ==
    \A i \in DOMAIN mem.stats :
        mem.stats[i].down =>
            \/ Len(mem.log) = MaxGlobal
            \/ /\ Open(mem.log, i) # {}
               /\ Newest(mem.log, i).upAt = 0
               /\ Newest(mem.log, i).downAt = mem.stats[i].downAt

\* No second of downtime is counted twice, even if a save is lost and the outage is
\* ended again after the restart, or the clock has moved on since a pass read it.
DowntimeFitsTheClock ==
    \A i \in DOMAIN mem.stats :
        mem.stats[i].total + (IF mem.stats[i].down THEN clock - mem.stats[i].downAt ELSE 0)
            <= clock - 1

\* While the log is not full, an id that comes and goes costs no other id an incident
\* ("to prevent flapping nodes from evicting all other history").
HistoryIsOwn ==
    [][\A i \in Ids :
          Cardinality(Of(mem'.log, i)) < Cardinality(Of(mem.log, i))
             => starts' # starts \/ Len(mem.log) = MaxGlobal]_logVars

=============================================================================
