----------------------------- MODULE StatsStore -----------------------------
(***************************************************************************)
(* The store of telegram/stats.go as operators on its content m, a record  *)
(* of Stats and Incidents.  Counters of checks and drops, latencies, names *)
(* and the rolling transitions are left out.                               *)
(***************************************************************************)
EXTENDS Naturals, Sequences, SequencesExt, FiniteSetsExt

CONSTANTS
    MaxPerProxy,   \* maxPerProxy, 15 in the code
    MaxGlobal      \* maxGlobal, 100 in the code

ASSUME StatsAssumption == MaxPerProxy \in Nat \ {0} /\ MaxGlobal \in Nat \ {0}

NewEntry == [down |-> FALSE, downAt |-> 0, total |-> 0]
NoStats == [x \in {} |-> NewEntry]
EmptyStore == [stats |-> NoStats, log |-> <<>>]

Put(f, k, v) == [x \in DOMAIN f \cup {k} |-> IF x = k THEN v ELSE f[x]]
Entry(m, i) == IF i \in DOMAIN m.stats THEN m.stats[i] ELSE NewEntry
WithEntry(m, i, e) == [m EXCEPT !.stats = Put(m.stats, i, e)]

IsDown(m, i) == Entry(m, i).down

\* Seconds between two readings of the clock, in whichever order they are stored.
Seconds(from, to) == IF to > from THEN to - from ELSE 0

\* Positions of the incidents of i, newest first; upAt is 0 while one is open.
Of(log, i) == {k \in DOMAIN log : log[k].id = i}
Open(log, i) == {k \in Of(log, i) : log[k].upAt = 0}

AddIncidentLate(log, inc) ==     \* mutant: one more than the quota
    LET own  == Of(log, inc.id)
        kept == IF Cardinality(own) > MaxPerProxy THEN RemoveAt(log, Max(own)) ELSE log
    IN  SubSeq(<<inc>> \o kept, 1, Min({MaxGlobal, Len(kept) + 1}))

AddIncidentLast(log, inc) ==     \* mutant: the quota counts everybody's incidents
    LET kept == IF Len(log) >= MaxPerProxy THEN RemoveAt(log, Len(log)) ELSE log
    IN  SubSeq(<<inc>> \o kept, 1, Min({MaxGlobal, Len(kept) + 1}))

AddIncidentBehind(log, inc) ==     \* mutant: appended behind the others
    LET own  == Of(log, inc.id)
        kept == IF Cardinality(own) >= MaxPerProxy THEN RemoveAt(log, Max(own)) ELSE log
    IN  SubSeq(kept \o <<inc>>, 1, Min({MaxGlobal, Len(kept) + 1}))

\* addIncident: a proxy at its quota loses its oldest incident, the whole log its last.
AddIncident(log, inc) ==
    LET own  == Of(log, inc.id)
        kept == IF Cardinality(own) >= MaxPerProxy THEN RemoveAt(log, Max(own)) ELSE log
    IN  SubSeq(<<inc>> \o kept, 1, Min({MaxGlobal, Len(kept) + 1}))

\* RecordCheck: there is an entry from the first check on.
Checked(m, i) == WithEntry(m, i, Entry(m, i))

\* RecordInitialDown and RecordTransition(false): once per outage.
RecordDown(m, i, now) ==
    IF IsDown(m, i) THEN m
    ELSE [stats |-> WithEntry(m, i, [Entry(m, i) EXCEPT !.down = TRUE, !.downAt = now]).stats,
          log   |-> AddIncident(m.log, [id |-> i, downAt |-> now, upAt |-> 0])]

\* All open incidents of the proxy end, those of outages it lost track of too.
CloseAll(log, i, now) ==
    [k \in DOMAIN log |-> IF k \in Open(log, i) THEN [log[k] EXCEPT !.upAt = now] ELSE log[k]]

RecordUpStill(m, i, now) ==     \* mutant: the outage is closed and not forgotten
    IF ~IsDown(m, i) THEN m
    ELSE [stats |-> WithEntry(m, i, [Entry(m, i) EXCEPT
                       !.total = @ + Seconds(Entry(m, i).downAt, now)]).stats,
          log   |-> CloseAll(m.log, i, now)]

\* RecordTransition(true) and SyncOnlineState.
RecordUp(m, i, now) ==
    IF ~IsDown(m, i) THEN m
    ELSE [stats |-> WithEntry(m, i, [down |-> FALSE, downAt |-> 0,
                       total |-> Entry(m, i).total + Seconds(Entry(m, i).downAt, now)]).stats,
          log   |-> CloseAll(m.log, i, now)]

Record(m, i, online, now) == IF online THEN RecordUp(m, i, now) ELSE RecordDown(m, i, now)

\* PruneInactive does nothing when no id is active.
PruneInactive(m, active) ==
    IF active = {} THEN m
    ELSE [m EXCEPT !.stats = [i \in DOMAIN m.stats \cap active |-> m.stats[i]]]

\* Only the beginning and the end of an outage are saved at once.
Saves(m, n, i) == IsDown(m, i) # IsDown(n, i)

=============================================================================
