------------------------ MODULE AlertPipeline_proofs ------------------------
(***************************************************************************)
(* Proofs that the safety properties of AlertPipeline hold for all proxies *)
(* and chats: the ownership of messages for any number of emitters and all *)
(* events, what the chats show (and the refinement of OutageBoard) for one *)
(* emitter at a time, as the run has it.                                   *)
(***************************************************************************)
EXTENDS AlertPipeline, SmallSets, TLAPS

-----------------------------------------------------------------------------
(* Ownership: the inductive invariant for any number of emitters.          *)

Hands(e) == em[e].dels \cup em[e].recs \cup {em[e].mid}
HandsOff == \A e, f \in Emitters : e # f => Hands(e) \cap Hands(f) \subseteq {NoMid}

\* An emitter holds a new message exactly until it is tracked, under the key of the
\* outage it announces.
EmitterRules ==
    \A e \in Emitters :
        /\ em[e].mid # NoMid <=> em[e].pc = "track"
        /\ em[e].pc \in {"send", "track"} => em[e].cur \in Keys

\* The tracker and its file have one entry per message, none of a message in hand; no
\* two emitters have the same one, and no emitter has one twice.
Ownership ==
    /\ \A j, k \in DOMAIN alerts : alerts[j] = alerts[k] => j = k
    /\ \A j, k \in DOMAIN disk : disk[j] = disk[k] => j = k
    /\ \A k \in DOMAIN alerts, e \in Emitters : alerts[k] \notin Hands(e)
    /\ HandsOff
    /\ \A e \in Emitters : em[e].dels \cap em[e].recs = {}
                           /\ em[e].mid \notin em[e].dels \cup em[e].recs

\* Entries of the tracker, of its file and those about to be made are of the chat and
\* the proxy of their message.
Home ==
    /\ AlertsPointHome
    /\ \A k \in DOMAIN disk : disk[k] \in DOMAIN red => red[disk[k]] = k
    /\ \A e \in Emitters : em[e].pc = "track" /\ em[e].mid \in DOMAIN red =>
                           red[em[e].mid] = em[e].cur

PipeInv == PipeTypeOK /\ EmitterRules /\ Ownership /\ Home

-----------------------------------------------------------------------------
(* What the chats show: the inductive invariant for one emitter at a time. *)

\* The instance the promises to the reader of a chat are made for: one call of
\* ProcessSnapshot at a time, calls to Telegram that succeed, no restart, no
\* proxy that leaves and no admin who mutes node alerts.
Solo == NoDuplicate(Emitters) /\ Events \subseteq {"quiet", "flap", "save"}

Down(seen, i) == i \in DOMAIN seen /\ ~seen[i]

\* Tracked alerts and announcements are of outages that last.
OutagesLast ==
    /\ nodeChat
    /\ \A i \in DOMAIN lastSeen : world[i] # "absent"
    /\ ~seeded => /\ DOMAIN alerts = {} /\ DOMAIN red = {}
                  /\ \A e \in Emitters : em[e].pc \in {"idle", "locked"}
    /\ \A k \in DOMAIN alerts : Down(lastSeen, k[2])
    /\ \A e \in Emitters :
          /\ em[e].pc \in {"idle", "locked"} => em[e].recs = {}
          /\ em[e].pc # "del" => em[e].dels = {}
          /\ em[e].pc = "locked" => /\ DOMAIN lastSeen \subseteq DOMAIN em[e].snap
                                    /\ \A i \in DOMAIN em[e].snap : world[i] # "absent"
          /\ \A k \in em[e].outs : Down(lastSeen, k[2])
          /\ em[e].pc \in {"send", "track"} =>
                Down(lastSeen, em[e].cur[2]) /\ em[e].cur \notin DOMAIN alerts

\* A message that stands is tracked, or about to be, or on its way out after its
\* outage; there is one for an outage and chat.
MessagesKept ==
    /\ \A m, n \in DOMAIN red : red[m] = red[n] => m = n
    /\ \A e \in Emitters : \A m \in DOMAIN red :
          m \in em[e].dels \cup em[e].recs => ~Down(lastSeen, red[m][2])
    /\ \A m \in DOMAIN red :
          \/ red[m] \in DOMAIN alerts /\ alerts[red[m]] = m
          \/ \E e \in Emitters : \/ m \in em[e].dels \cup em[e].recs
                                 \/ em[e].pc = "track" /\ em[e].mid = m

BoardInv == PipeInv /\ OutagesLast /\ MessagesKept

-----------------------------------------------------------------------------
(* What the helpers of the actions do.                                     *)

\* g is a part of the map f.
Restricts(g, f) == DOMAIN g \subseteq DOMAIN f /\ \A x \in DOMAIN g : g[x] = f[x]

LEMMA ResolveEffect ==
    ASSUME PipeTypeOK, NEW S, ResolveAll(S)
    PROVE  /\ DOMAIN alerts' = DOMAIN alerts \ S /\ Restricts(alerts', alerts)
           /\ DOMAIN alerts' \subseteq Keys /\ alerts' \in [DOMAIN alerts' -> Mids]
           /\ disk' = disk \/ Restricts(disk', alerts)
           /\ DOMAIN disk' \subseteq Keys /\ disk' \in [DOMAIN disk' -> Mids]
<1>1. \A T : /\ Restricts(Drop(alerts, T), alerts) /\ DOMAIN Drop(alerts, T) \subseteq Keys
             /\ Drop(alerts, T) \in [DOMAIN Drop(alerts, T) -> Mids]
  BY DEF PipeTypeOK, Drop, Restricts
<1>2. alerts' = Drop(alerts, S \cap DOMAIN alerts)
  BY DEF ResolveAll
<1>3. DOMAIN alerts' = DOMAIN alerts \ S
  BY <1>2 DEF Drop
<1>4. disk' = disk \/ \E T : disk' = Drop(alerts, T)
  BY <1>2 DEF ResolveAll
<1> QED BY <1>1, <1>2, <1>3, <1>4 DEF PipeTypeOK

LEMMA TakeDownEffect ==
    ASSUME PipeTypeOK, NEW S, TakeDown(S)
    PROVE  /\ Restricts(red', red)
           /\ DOMAIN red' \subseteq Mids /\ red' \in [DOMAIN red' -> Keys]
BY DEF TakeDown, PipeTypeOK, Drop, Restricts

LEMMA FreshMidIsFree ==
    ASSUME FreshMids # {}
    PROVE  FreshMid \in Mids /\ FreshMid \notin MidsInUse /\ FreshMid # NoMid
BY PipelineAssumption DEF FreshMid, FreshMids

LEMMA KeysAreAlertKeys ==
    /\ \A k \in Keys : AlertKey(k[1], k[2]) = k
    /\ \A S \in SUBSET Ids : KeysOf(S) = {k \in Keys : k[2] \in S}
BY DEF Keys, AlertKey, KeysOf

\* The messages of tracked alerts are message ids.
LEMMA MidsForTyped ==
    ASSUME PipeTypeOK, NEW S
    PROVE  MidsFor(S) \subseteq Mids
BY DEF PipeTypeOK, MidsFor

LEMMA IdleEmitterTyped == IdleEmitter \in EmitterState
<1>1. [i \in {} |-> "on"] \in [{} -> Seen]
  BY DEF Seen
<1>2. [i \in {} |-> "on"] \in UNION {[S -> Seen] : S \in SUBSET Ids}
  BY <1>1
<1> QED BY <1>2 DEF IdleEmitter, EmitterState, NoMid, NoKey

\* What the bot remembers of a snapshot.
LEMMA ViewTyped ==
    ASSUME NEW snap, snap \in UNION {[S -> Seen] : S \in SUBSET Ids}
    PROVE  /\ DOMAIN View(snap) \subseteq Ids /\ View(snap) \in [DOMAIN View(snap) -> BOOLEAN]
           /\ DOMAIN View(snap) = Enabled(snap) /\ DOMAIN snap \subseteq Ids
           /\ \A i \in Enabled(snap) : View(snap)[i] = (snap[i] = "on")
BY DEF View, Enabled

-----------------------------------------------------------------------------
(* Types.                                                                  *)

\* The types of everything but the emitters, the tracker, its file and the chats.
RestTyped ==
    /\ world \in [Ids -> WorldState]
    /\ seeded \in BOOLEAN
    /\ DOMAIN lastSeen \subseteq Ids /\ lastSeen \in [DOMAIN lastSeen -> BOOLEAN]
    /\ quiet \in BOOLEAN /\ wasQuiet \in BOOLEAN
    /\ flapping \subseteq Ids /\ held \subseteq Ids
    /\ buffer \subseteq {"down", "up"} \X Ids
    /\ nodeChat \in BOOLEAN

MessagesTyped ==
    /\ DOMAIN alerts \subseteq Keys /\ alerts \in [DOMAIN alerts -> Mids]
    /\ DOMAIN disk \subseteq Keys /\ disk \in [DOMAIN disk -> Mids]
    /\ DOMAIN red \subseteq Mids /\ red \in [DOMAIN red -> Keys]

LEMMA EmitterMoves ==
    ASSUME PipeTypeOK, NEW e \in Emitters, NEW s \in EmitterState,
           em' = [em EXCEPT ![e] = s]
    PROVE  em' \in [Emitters -> EmitterState]
BY DEF PipeTypeOK

LEMMA CaptureTyped ==
    ASSUME PipeTypeOK, NEW e \in Emitters, Capture(e, SnapshotOf(world))
    PROVE  PipeTypeOK'
<1> DEFINE snap == SnapshotOf(world)
<1>1. snap \in [{j \in Ids : world[j] # "absent"} -> Seen]
  BY DEF PipeTypeOK, SnapshotOf, WorldState
<1>2. snap \in UNION {[S -> Seen] : S \in SUBSET Ids}
  BY <1>1
<1> HIDE DEF snap
<1>3. [IdleEmitter EXCEPT !.pc = "locked", !.snap = snap] \in EmitterState
  BY <1>2, IdleEmitterTyped DEF EmitterState
<1>4. em' \in [Emitters -> EmitterState]
  BY <1>3, EmitterMoves DEF Capture, snap
<1> QED BY <1>4 DEF Capture, PipeTypeOK

LEMMA SeedTyped ==
    ASSUME PipeTypeOK, NEW e \in Emitters, Seed(e)
    PROVE  PipeTypeOK'
<1>1. em[e].snap \in UNION {[S -> Seen] : S \in SUBSET Ids}
  BY DEF PipeTypeOK, EmitterState
<1>2. RestTyped'
  BY <1>1, ViewTyped DEF Seed, PipeTypeOK, RestTyped
<1>3. MessagesTyped'
  BY ResolveEffect DEF Seed, PipeTypeOK, MessagesTyped
<1>4. em' \in [Emitters -> EmitterState]
  BY IdleEmitterTyped, EmitterMoves DEF Seed
<1> QED BY <1>2, <1>3, <1>4 DEF RestTyped, MessagesTyped, PipeTypeOK

LEMMA ProcessTyped ==
    ASSUME PipeTypeOK, NEW e \in Emitters, Process(e)
    PROVE  PipeTypeOK'
<1> DEFINE snap == em[e].snap
           loud == {i \in WentDown(snap) : ~Muted(i) /\ ~quiet}
           spoken == {i \in CameUp(snap) : ~Muted(i)}
           s == [IdleEmitter EXCEPT
                    !.pc   = "del",
                    !.dels = MidsFor(DOMAIN snap \ Enabled(snap)),
                    !.outs = Targets \X {i \in loud : ~Suppressed(i)},
                    !.recs = IF quiet THEN {} ELSE MidsFor(spoken)]
<1>1. snap \in UNION {[S -> Seen] : S \in SUBSET Ids}
  BY DEF PipeTypeOK, EmitterState
<1> HIDE DEF snap
<1>2. WentDown(snap) \subseteq Ids /\ CameUp(snap) \subseteq Ids
  BY DEF PipeTypeOK, WentDown, CameUp
<1>3. RestTyped'
  <2>1. DOMAIN lastSeen' \subseteq Ids /\ lastSeen' \in [DOMAIN lastSeen' -> BOOLEAN]
    BY <1>1, ViewTyped DEF Process, snap
  <2>2. held' \subseteq Ids
    BY DEF Process, PipeTypeOK
  <2>3. buffer' \subseteq {"down", "up"} \X Ids
    <3>1. buffer' \subseteq buffer \cup ({"down", "up"} \X (WentDown(snap) \cup CameUp(snap)))
      BY DEF Process, snap
    <3> QED BY <1>2, <3>1 DEF PipeTypeOK
  <2> QED BY <2>1, <2>2, <2>3 DEF Process, PipeTypeOK, RestTyped
<1>4. MessagesTyped'
  <2>1. DOMAIN red' \subseteq Mids /\ red' \in [DOMAIN red' -> Keys]
    BY TakeDownEffect DEF Process, PipeTypeOK, QuietRecovery
  <2> QED BY <2>1, ResolveEffect DEF Process, PipeTypeOK, MessagesTyped
<1>5. s \in EmitterState
  <2>1. Targets \X {i \in loud : ~Suppressed(i)} \subseteq Keys
    BY <1>2 DEF Keys
  <2>2. MidsFor(DOMAIN snap \ Enabled(snap)) \subseteq Mids /\ MidsFor(spoken) \subseteq Mids
    BY MidsForTyped
  <2> HIDE DEF loud, spoken
  <2> QED BY <2>1, <2>2, IdleEmitterTyped DEF EmitterState
<1>6. em' = [em EXCEPT ![e] = s]
  BY DEF Process, snap
<1>7. em' \in [Emitters -> EmitterState]
  BY <1>5, <1>6, EmitterMoves
<1> QED BY <1>3, <1>4, <1>7 DEF RestTyped, MessagesTyped, PipeTypeOK

\* The steps without the lock.
LEMMA NetTyped ==
    ASSUME PipeTypeOK, EmitterRules, NEW e \in Emitters,
           \/ DeleteDisabled(e) \/ SendFails(e) \/ SentStillDown(e) \/ SentTooLate(e)
           \/ Track(e) \/ Recover(e)
           \/ \E k \in Keys : SkipAlerted(e, k) \/ StartSend(e, k)
    PROVE  PipeTypeOK'
<1>1. em[e] \in EmitterState
  BY DEF PipeTypeOK
<1>2. ASSUME NetUnchanged, MessagesTyped', em' \in [Emitters -> EmitterState]
      PROVE  PipeTypeOK'
  <2>1. RestTyped'
    BY <1>2 DEF NetUnchanged, RestTyped, PipeTypeOK
  <2> QED BY <1>2, <2>1 DEF RestTyped, MessagesTyped, PipeTypeOK
<1>3. CASE DeleteDisabled(e)
  <2>1. [[em[e] EXCEPT !.pc = "out"] EXCEPT !.dels = {}] \in EmitterState
    BY <1>1 DEF EmitterState
  <2>2. em' \in [Emitters -> EmitterState]
    BY <1>3, <2>1 DEF DeleteDisabled, PipeTypeOK
  <2>3. MessagesTyped'
    BY <1>3, TakeDownEffect DEF DeleteDisabled, MessagesTyped, PipeTypeOK
  <2> QED BY <1>2, <1>3, <2>2, <2>3 DEF DeleteDisabled
<1>4. CASE SendFails(e)
  <2>1. [[em[e] EXCEPT !.pc = "out"] EXCEPT !.cur = NoKey] \in EmitterState
    BY <1>1 DEF EmitterState
  <2>2. em' \in [Emitters -> EmitterState]
    BY <1>4, <2>1 DEF SendFails, PipeTypeOK
  <2> QED BY <1>2, <1>4, <2>2 DEF SendFails, MessagesTyped, PipeTypeOK
<1>5. CASE SentStillDown(e)
  <2>1. FreshMid \in Mids /\ em[e].cur \in Keys
    BY <1>5, FreshMidIsFree DEF SentStillDown, EmitterRules
  <2>2. [[em[e] EXCEPT !.pc = "track"] EXCEPT !.mid = FreshMid] \in EmitterState
    BY <1>1, <2>1 DEF EmitterState
  <2>3. em' \in [Emitters -> EmitterState]
    BY <1>5, <2>2 DEF SentStillDown, PipeTypeOK
  <2>4. MessagesTyped'
    BY <1>5, <2>1 DEF SentStillDown, Put, MessagesTyped, PipeTypeOK
  <2> QED BY <1>2, <1>5, <2>3, <2>4 DEF SentStillDown
<1>6. CASE SentTooLate(e)
  <2>1. FreshMid \in Mids /\ em[e].cur \in Keys
    BY <1>6, FreshMidIsFree DEF SentTooLate, EmitterRules
  <2>2. [[em[e] EXCEPT !.pc = "out"] EXCEPT !.cur = NoKey] \in EmitterState
    BY <1>1 DEF EmitterState
  <2>3. em' \in [Emitters -> EmitterState]
    BY <1>6, <2>2 DEF SentTooLate, PipeTypeOK
  <2>4. MessagesTyped'
    BY <1>6, <2>1 DEF SentTooLate, Put, MessagesTyped, PipeTypeOK
  <2> QED BY <1>2, <1>6, <2>3, <2>4 DEF SentTooLate
<1>7. CASE Track(e)
  <2>1. em[e].mid \in Mids /\ em[e].cur \in Keys
    BY <1>1, <1>7 DEF Track, EmitterRules, EmitterState
  <2>2. [[[em[e] EXCEPT !.pc = "out"] EXCEPT !.cur = NoKey] EXCEPT !.mid = NoMid]
           \in EmitterState
    BY <1>1 DEF EmitterState
  <2>3. em' \in [Emitters -> EmitterState]
    BY <1>7, <2>2 DEF Track, PipeTypeOK
  <2>4. DOMAIN alerts' \subseteq Keys /\ alerts' \in [DOMAIN alerts' -> Mids]
    BY <1>7, <2>1, KeysAreAlertKeys DEF Track, Put, PipeTypeOK
  <2>5. MessagesTyped'
    BY <1>7, <2>4 DEF Track, MessagesTyped, PipeTypeOK
  <2> QED BY <1>2, <1>7, <2>3, <2>5 DEF Track
<1>8. CASE Recover(e)
  <2>1. em' \in [Emitters -> EmitterState]
    BY <1>8, IdleEmitterTyped, EmitterMoves DEF Recover
  <2>2. MessagesTyped'
    BY <1>8, TakeDownEffect DEF Recover, MessagesTyped, PipeTypeOK
  <2> QED BY <1>2, <1>8, <2>1, <2>2 DEF Recover
<1>9. ASSUME NEW k \in Keys, SkipAlerted(e, k) PROVE PipeTypeOK'
  <2>1. [em[e] EXCEPT !.outs = @ \ {k}] \in EmitterState
    BY <1>1 DEF EmitterState
  <2>2. em' \in [Emitters -> EmitterState]
    BY <1>9, <2>1 DEF SkipAlerted, PipeTypeOK
  <2> QED BY <1>2, <1>9, <2>2 DEF SkipAlerted, MessagesTyped, PipeTypeOK
<1>10. ASSUME NEW k \in Keys, StartSend(e, k) PROVE PipeTypeOK'
  <2> DEFINE s == [em[e] EXCEPT !.pc = "send", !.outs = @ \ {k}, !.cur = k]
  <2>1. s \in EmitterState
    BY <1>1 DEF EmitterState
  <2>2. em' = [em EXCEPT ![e] = s]
    BY <1>10 DEF StartSend
  <2>3. em' \in [Emitters -> EmitterState]
    BY <2>1, <2>2, EmitterMoves
  <2> QED BY <1>2, <1>10, <2>3 DEF StartSend, MessagesTyped, PipeTypeOK
<1> QED BY <1>3, <1>4, <1>5, <1>6, <1>7, <1>8, <1>9, <1>10

LEMMA EnvTyped ==
    ASSUME PipeTypeOK, EnvStep \/ \E i \in Ids, v \in WorldState : WorldChanges(i, v)
    PROVE  PipeTypeOK'
<1>1. CASE Restart
  <2>1. em' \in [Emitters -> EmitterState]
    BY <1>1, IdleEmitterTyped DEF Restart
  <2>2. RestTyped'
    BY <1>1 DEF Restart, RestTyped, PipeTypeOK, WorldState
  <2>3. MessagesTyped'
    BY <1>1 DEF Restart, MessagesTyped, PipeTypeOK
  <2> QED BY <2>1, <2>2, <2>3 DEF RestTyped, MessagesTyped, PipeTypeOK
<1>2. CASE QuietChanges \/ ToggleNodeChat
  BY <1>2 DEF QuietChanges, ToggleNodeChat, PipeTypeOK
<1>3. CASE \E nearEnd \in BOOLEAN : CheckSchedules(nearEnd)
  BY <1>3 DEF CheckSchedules, PipeTypeOK
<1>4. CASE \E i \in Ids : FlapCountChanges(i) \/ HoldExpires(i)
  BY <1>4 DEF FlapCountChanges, HoldExpires, PipeTypeOK
<1>5. CASE \E i \in Ids, v \in WorldState : WorldChanges(i, v)
  BY <1>5 DEF WorldChanges, PipeTypeOK
<1> QED BY <1>1, <1>2, <1>3, <1>4, <1>5 DEF EnvStep

-----------------------------------------------------------------------------
(* Ownership.                                                              *)

\* Nothing new is tracked, held or sent.
LEMMA OwnershipShrinks ==
    ASSUME PipeInv, PipeTypeOK',
           Restricts(alerts', alerts), disk' = disk \/ Restricts(disk', alerts),
           Restricts(red', red),
           \A f \in Emitters :
               /\ em'[f].dels \subseteq em[f].dels /\ em'[f].recs \subseteq em[f].recs
               /\ em'[f].mid \in {em[f].mid, NoMid}
               /\ em'[f].pc = "track" => /\ em[f].pc = "track"
                                         /\ em'[f].mid = em[f].mid /\ em'[f].cur = em[f].cur
    PROVE  Ownership' /\ Home'
<1>1. \A f \in Emitters : Hands(f)' \subseteq Hands(f) \cup {NoMid}
  BY DEF Hands
<1>2. \A k \in DOMAIN alerts : alerts[k] # NoMid
  BY PipelineAssumption DEF PipeInv, PipeTypeOK
<1>3. \A f \in Emitters : NoMid \notin em'[f].dels \cup em'[f].recs
  BY PipelineAssumption DEF PipeTypeOK, EmitterState
<1>4. Ownership'
  <2> USE DEF PipeInv, Ownership, Restricts
  <2>1. \A j, k \in DOMAIN alerts' : alerts'[j] = alerts'[k] => j = k
    OBVIOUS
  <2>2. \A j, k \in DOMAIN disk' : disk'[j] = disk'[k] => j = k
    OBVIOUS
  <2>3. \A k \in DOMAIN alerts', f \in Emitters : alerts'[k] \notin Hands(f)'
    BY <1>1, <1>2
  <2>4. HandsOff'
    BY <1>1 DEF HandsOff
  <2>5. \A f \in Emitters : em'[f].dels \cap em'[f].recs = {}
                            /\ em'[f].mid \notin em'[f].dels \cup em'[f].recs
    BY <1>3
  <2> QED BY <2>1, <2>2, <2>3, <2>4, <2>5
<1>5. Home'
  <2> USE DEF PipeInv, Home, AlertsPointHome, Restricts
  <2>1. AlertsPointHome'
    OBVIOUS
  <2>2. \A k \in DOMAIN disk' : disk'[k] \in DOMAIN red' => red'[disk'[k]] = k
    OBVIOUS
  <2>3. \A f \in Emitters : em'[f].pc = "track" /\ em'[f].mid \in DOMAIN red' =>
                            red'[em'[f].mid] = em'[f].cur
    OBVIOUS
  <2> QED BY <2>1, <2>2, <2>3
<1> QED BY <1>4, <1>5

\* A message is sent, and held or left alone.
LEMMA OwnershipSends ==
    ASSUME PipeInv, PipeTypeOK', NEW e \in Emitters, FreshMids # {},
           em[e].pc = "send", UNCHANGED <<alerts, disk>>,
           red' = Put(red, FreshMid, em[e].cur),
           \A f \in Emitters \ {e} : em'[f] = em[f],
           em'[e].dels = em[e].dels, em'[e].recs = em[e].recs,
           \/ em'[e].pc = "track" /\ em'[e].mid = FreshMid /\ em'[e].cur = em[e].cur
           \/ em'[e].pc = "out" /\ em'[e].mid = em[e].mid
    PROVE  Ownership' /\ Home'
<1> DEFINE m == FreshMid
<1>1. m \in Mids /\ m # NoMid /\ m \notin MidsInUse
  BY FreshMidIsFree
<1> HIDE DEF m
<1>2. /\ m \notin DOMAIN red
      /\ \A k \in DOMAIN alerts : alerts[k] # m
      /\ \A k \in DOMAIN disk : disk[k] # m
      /\ \A f \in Emitters : m \notin Hands(f)
  BY <1>1 DEF MidsInUse, Hands
<1>3. DOMAIN red' = DOMAIN red \cup {m} /\ red'[m] = em[e].cur
      /\ \A x \in DOMAIN red : red'[x] = red[x]
  BY <1>2 DEF Put, m
<1>4. em[e].mid = NoMid
  BY DEF PipeInv, EmitterRules
<1>5. Hands(e)' \subseteq Hands(e) \cup {m} /\ \A f \in Emitters \ {e} : Hands(f)' = Hands(f)
  BY <1>4 DEF Hands, m
<1>6. \A f \in Emitters : NoMid \notin em'[f].dels \cup em'[f].recs
  BY PipelineAssumption DEF PipeTypeOK, EmitterState
<1>7. Ownership'
  <2> USE DEF PipeInv, Ownership
  <2>1. \A k \in DOMAIN alerts', f \in Emitters : alerts'[k] \notin Hands(f)'
    BY <1>2, <1>5
  <2>2. HandsOff'
    BY <1>1, <1>2, <1>5 DEF HandsOff
  <2>3. \A f \in Emitters : em'[f].dels \cap em'[f].recs = {}
                            /\ em'[f].mid \notin em'[f].dels \cup em'[f].recs
    <3>1. m \notin em[e].dels \cup em[e].recs
      BY <1>2 DEF Hands
    <3> QED BY <1>6, <3>1 DEF m
  <2> QED BY <2>1, <2>2, <2>3
<1>8. Home'
  <2> USE DEF PipeInv, Home
  <2>1. AlertsPointHome'
    BY <1>2, <1>3 DEF AlertsPointHome
  <2>2. \A k \in DOMAIN disk' : disk'[k] \in DOMAIN red' => red'[disk'[k]] = k
    BY <1>2, <1>3
  <2>3. \A f \in Emitters \ {e} : em[f].mid # m
    BY <1>2 DEF Hands
  <2>4. \A f \in Emitters : em'[f].pc = "track" /\ em'[f].mid \in DOMAIN red' =>
                            red'[em'[f].mid] = em'[f].cur
    BY <1>3, <2>3 DEF m
  <2> QED BY <2>1, <2>2, <2>4
<1> QED BY <1>7, <1>8

\* The message passes from the emitter to the tracker.
LEMMA OwnershipTracks ==
    ASSUME PipeInv, PipeTypeOK', NEW e \in Emitters, Track(e)
    PROVE  Ownership' /\ Home'
<1> DEFINE m == em[e].mid
           k == em[e].cur
<1>1. m \in Mids /\ m # NoMid /\ k \in Keys /\ em[e] \in EmitterState
  BY DEF Track, PipeInv, PipeTypeOK, EmitterRules, EmitterState
<1>2. alerts' = Put(alerts, k, m) /\ (disk' = alerts' \/ disk' = disk) /\ red' = red
  BY <1>1, KeysAreAlertKeys DEF Track
<1>3. /\ em'[e].pc = "out" /\ em'[e].mid = NoMid
      /\ em'[e].dels = em[e].dels /\ em'[e].recs = em[e].recs
      /\ \A f \in Emitters \ {e} : em'[f] = em[f]
  BY <1>1 DEF Track, PipeInv, PipeTypeOK, EmitterState
<1>4. /\ m \notin em[e].dels \cup em[e].recs
      /\ \A f \in Emitters \ {e} : m \notin Hands(f)
      /\ \A j \in DOMAIN alerts : alerts[j] # m
  BY <1>1 DEF PipeInv, Ownership, HandsOff, Hands
<1>5. m \in DOMAIN red => red[m] = k
  BY DEF Track, PipeInv, Home
<1> HIDE DEF m, k
<1>6. /\ DOMAIN alerts' = DOMAIN alerts \cup {k} /\ alerts'[k] = m
      /\ \A j \in DOMAIN alerts \ {k} : alerts'[j] = alerts[j]
  BY <1>2 DEF Put
<1>7. Hands(e)' = (Hands(e) \ {m}) \cup {NoMid}
      /\ \A f \in Emitters \ {e} : Hands(f)' = Hands(f)
  <2>1. Hands(e)' = em[e].dels \cup em[e].recs \cup {NoMid}
    BY <1>3 DEF Hands
  <2>2. Hands(e) = em[e].dels \cup em[e].recs \cup {m}
    BY DEF Hands, m
  <2> QED BY <1>3, <1>4, <2>1, <2>2 DEF Hands
<1>8. \A f \in Emitters : NoMid \notin em'[f].dels \cup em'[f].recs
  BY PipelineAssumption DEF PipeTypeOK, EmitterState
<1>9. \A j \in DOMAIN alerts : alerts[j] # NoMid
  BY PipelineAssumption DEF PipeInv, PipeTypeOK
<1>10. Ownership'
  <2> USE DEF PipeInv, Ownership
  <2>1. \A i, j \in DOMAIN alerts' : alerts'[i] = alerts'[j] => i = j
    BY <1>4, <1>6
  <2>2. \A i, j \in DOMAIN disk' : disk'[i] = disk'[j] => i = j
    BY <1>2, <2>1
  <2>3. \A j \in DOMAIN alerts', f \in Emitters : alerts'[j] \notin Hands(f)'
    BY <1>1, <1>4, <1>6, <1>7, <1>9
  <2>4. HandsOff'
    BY <1>7 DEF HandsOff
  <2>5. \A f \in Emitters : em'[f].dels \cap em'[f].recs = {}
                            /\ em'[f].mid \notin em'[f].dels \cup em'[f].recs
    BY <1>3, <1>8
  <2> QED BY <2>1, <2>2, <2>3, <2>4, <2>5
<1>11. Home'
  <2> USE DEF PipeInv, Home
  <2>1. AlertsPointHome'
    BY <1>2, <1>5, <1>6 DEF AlertsPointHome
  <2>2. \A j \in DOMAIN disk' : disk'[j] \in DOMAIN red' => red'[disk'[j]] = j
    BY <1>2, <2>1 DEF AlertsPointHome
  <2>3. \A f \in Emitters : em'[f].pc = "track" /\ em'[f].mid \in DOMAIN red' =>
                            red'[em'[f].mid] = em'[f].cur
    BY <1>2, <1>3
  <2> QED BY <2>1, <2>2, <2>3
<1> QED BY <1>10, <1>11

\* What the b.mu section of ProcessSnapshot makes of an emitter and its alerts: D are
\* the disabled proxies of the snapshot, U those that came up and are not muted.
LEMMA ProcessEffect ==
    ASSUME PipeInv, NEW e \in Emitters, Process(e)
    PROVE  LET snap == em[e].snap
               D == DOMAIN snap \ Enabled(snap)
               U == {i \in CameUp(snap) : ~Muted(i)}
           IN  /\ D \subseteq Ids /\ CameUp(snap) \subseteq Ids /\ D \cap CameUp(snap) = {}
               /\ em'[e].pc = "del" /\ em'[e].mid = NoMid
               /\ em'[e].dels = MidsFor(D)
               /\ em'[e].recs = IF quiet THEN {} ELSE MidsFor(U)
               /\ em'[e].outs \subseteq {k \in Keys : k[2] \in WentDown(snap)}
               /\ \A f \in Emitters \ {e} : em'[f] = em[f]
               /\ DOMAIN alerts' = {k \in DOMAIN alerts : k[2] \notin D \cup CameUp(snap)}
               /\ Restricts(alerts', alerts)
               /\ disk' = disk \/ Restricts(disk', alerts)
               /\ red' = red \/ (TakeDown(MidsFor(U)) /\ quiet)
               /\ ~quiet => red' = red
<1> DEFINE snap == em[e].snap
           D == DOMAIN snap \ Enabled(snap)
           U == {i \in CameUp(snap) : ~Muted(i)}
           loud == {i \in WentDown(snap) : ~Muted(i) /\ ~quiet}
           s == [IdleEmitter EXCEPT
                    !.pc   = "del",
                    !.dels = MidsFor(D),
                    !.outs = Targets \X {i \in loud : ~Suppressed(i)},
                    !.recs = IF quiet THEN {} ELSE MidsFor(U)]
<1>1. snap \in UNION {[S -> Seen] : S \in SUBSET Ids}
  BY DEF PipeInv, PipeTypeOK, EmitterState
<1>2. D \subseteq Ids /\ CameUp(snap) \subseteq Ids /\ WentDown(snap) \subseteq Ids
      /\ D \cap CameUp(snap) = {}
  BY <1>1 DEF CameUp, WentDown, Enabled
<1>3. em' = [em EXCEPT ![e] = s]
  BY DEF Process
<1>4. em'[e] = s /\ \A f \in Emitters \ {e} : em'[f] = em[f]
  BY <1>3 DEF PipeInv, PipeTypeOK
<1>5. /\ s.pc = "del" /\ s.mid = NoMid /\ s.dels = MidsFor(D)
      /\ s.recs = IF quiet THEN {} ELSE MidsFor(U)
      /\ s.outs = Targets \X {i \in loud : ~Suppressed(i)}
  BY DEF IdleEmitter
<1>6. Targets \X {i \in loud : ~Suppressed(i)} \subseteq {k \in Keys : k[2] \in WentDown(snap)}
  BY <1>2 DEF Keys
<1>7. Resolved(snap) = {k \in Keys : k[2] \in D \cup CameUp(snap)}
  BY <1>2, KeysAreAlertKeys DEF Resolved
<1>8. /\ DOMAIN alerts' = DOMAIN alerts \ Resolved(snap) /\ Restricts(alerts', alerts)
      /\ disk' = disk \/ Restricts(disk', alerts)
  BY ResolveEffect DEF Process, PipeInv
<1>9. DOMAIN alerts' = {k \in DOMAIN alerts : k[2] \notin D \cup CameUp(snap)}
  BY <1>7, <1>8 DEF PipeInv, PipeTypeOK
<1>10. /\ red' = red \/ (TakeDown(MidsFor(U)) /\ quiet)
       /\ ~quiet => red' = red
  <2>1. IF quiet THEN QuietRecovery(U) ELSE red' = red
    BY DEF Process
  <2>2. CASE quiet
    BY <2>1, <2>2 DEF QuietRecovery
  <2>3. CASE ~quiet
    BY <2>1, <2>3
  <2> QED BY <2>2, <2>3
<1> HIDE DEF snap, D, U, loud, s
<1>11. em'[e].outs \subseteq {k \in Keys : k[2] \in WentDown(snap)}
  BY <1>4, <1>5, <1>6
<1> QED BY <1>2, <1>4, <1>5, <1>8, <1>9, <1>10, <1>11 DEF snap, D, U

LEMMA MidsForKeys ==
    ASSUME PipeTypeOK, NEW S \in SUBSET Ids
    PROVE  MidsFor(S) = {alerts[k] : k \in {j \in DOMAIN alerts : j[2] \in S}}
BY KeysAreAlertKeys DEF MidsFor, PipeTypeOK

\* Resolved alerts pass from the tracker to the emitter, the disabled ones to dels and
\* the recovered ones to recs.
LEMMA OwnershipProcesses ==
    ASSUME PipeInv, PipeTypeOK', NEW e \in Emitters, Process(e)
    PROVE  Ownership' /\ Home'
<1> DEFINE snap == em[e].snap
           D == DOMAIN snap \ Enabled(snap)
           U == {i \in CameUp(snap) : ~Muted(i)}
<1>1. /\ D \subseteq Ids /\ U \subseteq Ids /\ D \cap U = {} /\ U \subseteq CameUp(snap)
      /\ em'[e].pc = "del" /\ em'[e].mid = NoMid
      /\ em'[e].dels = MidsFor(D)
      /\ em'[e].recs \subseteq MidsFor(U)
      /\ \A f \in Emitters \ {e} : em'[f] = em[f]
      /\ \A k \in DOMAIN alerts' : k[2] \notin D \cup U
      /\ Restricts(alerts', alerts)
      /\ disk' = disk \/ Restricts(disk', alerts)
  BY ProcessEffect
<1>2. Restricts(red', red)
  <2>1. red' = red \/ TakeDown(MidsFor(U))
    BY ProcessEffect
  <2> QED BY <2>1, TakeDownEffect DEF PipeInv, Restricts
<1>3. MidsFor(D) = {alerts[k] : k \in {j \in DOMAIN alerts : j[2] \in D}}
      /\ MidsFor(U) = {alerts[k] : k \in {j \in DOMAIN alerts : j[2] \in U}}
  BY <1>1, MidsForKeys DEF PipeInv
<1> HIDE DEF D, U, snap
<1>4. MidsFor(D) \cap MidsFor(U) = {}
  BY <1>1, <1>3 DEF PipeInv, Ownership
<1>5. /\ Hands(e)' \subseteq MidsFor(D) \cup MidsFor(U) \cup {NoMid}
      /\ \A f \in Emitters \ {e} : Hands(f)' = Hands(f)
  BY <1>1 DEF Hands
<1>6. \A x \in MidsFor(D) \cup MidsFor(U) :
          /\ x # NoMid
          /\ \A f \in Emitters : x \notin Hands(f)
          /\ \A k \in DOMAIN alerts' : alerts'[k] # x
  BY <1>1, <1>3, PipelineAssumption DEF PipeInv, PipeTypeOK, Ownership, Restricts
<1>7. \A f \in Emitters : NoMid \notin em'[f].dels \cup em'[f].recs
  BY PipelineAssumption DEF PipeTypeOK, EmitterState
<1>8. \A k \in DOMAIN alerts : alerts[k] # NoMid
  BY PipelineAssumption DEF PipeInv, PipeTypeOK
<1>9. Ownership'
  <2> USE DEF PipeInv, Ownership, Restricts
  <2>1. \A j, k \in DOMAIN alerts' : alerts'[j] = alerts'[k] => j = k
    BY <1>1
  <2>2. \A j, k \in DOMAIN disk' : disk'[j] = disk'[k] => j = k
    BY <1>1
  <2>3. \A k \in DOMAIN alerts', f \in Emitters : alerts'[k] \notin Hands(f)'
    BY <1>1, <1>5, <1>6, <1>8
  <2>4. HandsOff'
    BY <1>5, <1>6 DEF HandsOff
  <2>5. \A f \in Emitters : em'[f].dels \cap em'[f].recs = {}
                            /\ em'[f].mid \notin em'[f].dels \cup em'[f].recs
    BY <1>1, <1>4, <1>7
  <2> QED BY <2>1, <2>2, <2>3, <2>4, <2>5
<1>10. Home'
  <2> USE <1>1, <1>2 DEF PipeInv, Home, AlertsPointHome, Restricts
  <2>1. AlertsPointHome'
    OBVIOUS
  <2>2. \A k \in DOMAIN disk' : disk'[k] \in DOMAIN red' => red'[disk'[k]] = k
    OBVIOUS
  <2>3. \A f \in Emitters : em'[f].pc = "track" /\ em'[f].mid \in DOMAIN red' =>
                            red'[em'[f].mid] = em'[f].cur
    OBVIOUS
  <2> QED BY <2>1, <2>2, <2>3
<1> QED BY <1>9, <1>10

\* The tracker is read from its file, and nobody holds anything.
LEMMA OwnershipRestarts ==
    ASSUME PipeInv, PipeTypeOK', Restart
    PROVE  Ownership' /\ Home'
<1>1. /\ alerts' = disk /\ disk' = disk /\ red' = red
      /\ \A e \in Emitters : em'[e] = IdleEmitter
  BY DEF Restart
<1>2. \A e \in Emitters : /\ em'[e].dels = {} /\ em'[e].recs = {} /\ em'[e].mid = NoMid
                          /\ em'[e].pc = "idle"
  BY <1>1 DEF IdleEmitter
<1>3. \A k \in DOMAIN alerts' : alerts'[k] # NoMid
  BY PipelineAssumption DEF PipeTypeOK
<1>4. \A e \in Emitters : Hands(e)' = {NoMid}
  BY <1>2 DEF Hands
<1>5. Ownership'
  BY <1>1, <1>2, <1>3, <1>4 DEF PipeInv, Ownership, HandsOff
<1>6. Home'
  BY <1>1, <1>2 DEF PipeInv, Home, AlertsPointHome
<1> QED BY <1>5, <1>6

-----------------------------------------------------------------------------
(* The invariant is inductive.                                             *)

\* Where an emitter goes.
LEMMA EmitterRulesKept ==
    ASSUME PipeInv, NEW e \in Emitters,
           Capture(e, SnapshotOf(world)) \/ EmitterStep(e)
    PROVE  EmitterRules' /\ \A f \in Emitters \ {e} : em'[f] = em[f]
<1> USE DEF PipeInv, PipeTypeOK, EmitterRules, EmitterState
<1>1. em[e] \in EmitterState
  OBVIOUS
<1>2. IdleEmitter.mid = NoMid /\ IdleEmitter.pc = "idle"
  BY DEF IdleEmitter
<1>3. CASE Capture(e, SnapshotOf(world))
  BY <1>2, <1>3 DEF Capture, IdleEmitter
<1>4. CASE Seed(e) \/ Recover(e)
  BY <1>2, <1>4 DEF Seed, Recover
<1>5. CASE Process(e)
  BY <1>5, ProcessEffect
<1>6. CASE DeleteDisabled(e) \/ SendFails(e) \/ SentTooLate(e)
  BY <1>1, <1>6 DEF DeleteDisabled, SendFails, SentTooLate
<1>7. CASE Track(e)
  BY <1>1, <1>7 DEF Track
<1>8. CASE SentStillDown(e)
  <2>1. FreshMid # NoMid
    BY <1>8, FreshMidIsFree DEF SentStillDown
  <2> QED BY <1>1, <1>8, <2>1 DEF SentStillDown
<1>9. CASE \E k \in Keys : SkipAlerted(e, k) \/ StartSend(e, k)
  BY <1>1, <1>9 DEF SkipAlerted, StartSend
<1> QED BY <1>3, <1>4, <1>5, <1>6, <1>7, <1>8, <1>9 DEF EmitterStep

LEMMA OwnershipKept ==
    ASSUME PipeInv, PipeTypeOK', NEW e \in Emitters,
           Capture(e, SnapshotOf(world)) \/ EmitterStep(e)
    PROVE  Ownership' /\ Home'
<1>1. em[e] \in EmitterState /\ em \in [Emitters -> EmitterState]
  BY DEF PipeInv, PipeTypeOK
<1>2. \A f \in Emitters \ {e} : em'[f] = em[f]
  BY EmitterRulesKept
<1>3. Restricts(alerts, alerts) /\ Restricts(red, red)
  BY DEF Restricts
<1>4. CASE Capture(e, SnapshotOf(world))
  <2>1. /\ em'[e].dels = {} /\ em'[e].recs = {} /\ em'[e].mid = NoMid
        /\ em'[e].pc = "locked"
    BY <1>1, <1>4 DEF Capture, IdleEmitter
  <2>2. UNCHANGED <<alerts, disk, red>>
    BY <1>4 DEF Capture
  <2> QED BY <1>2, <1>3, <2>1, <2>2, OwnershipShrinks
<1>5. CASE Seed(e)
  <2>1. /\ em'[e].dels = {} /\ em'[e].recs = {} /\ em'[e].mid = NoMid
        /\ em'[e].pc = "idle"
    BY <1>1, <1>5 DEF Seed, IdleEmitter
  <2>2. red' = red /\ Restricts(alerts', alerts)
        /\ (disk' = disk \/ Restricts(disk', alerts))
    BY <1>5, ResolveEffect DEF Seed, PipeInv
  <2> QED BY <1>2, <1>3, <2>1, <2>2, OwnershipShrinks
<1>6. CASE Process(e)
  BY <1>6, OwnershipProcesses
<1>7. CASE DeleteDisabled(e)
  <2>1. /\ em'[e].dels = {} /\ em'[e].recs = em[e].recs /\ em'[e].mid = em[e].mid
        /\ em'[e].pc = "out"
    BY <1>1, <1>7 DEF DeleteDisabled, EmitterState
  <2>2. UNCHANGED <<alerts, disk>> /\ Restricts(red', red)
    BY <1>7, TakeDownEffect DEF DeleteDisabled, PipeInv
  <2> QED BY <1>2, <1>3, <2>1, <2>2, OwnershipShrinks
<1>8. CASE Recover(e)
  <2>1. /\ em'[e].dels = {} /\ em'[e].recs = {} /\ em'[e].mid = NoMid
        /\ em'[e].pc = "idle"
    BY <1>1, <1>8 DEF Recover, IdleEmitter
  <2>2. UNCHANGED <<alerts, disk>> /\ Restricts(red', red)
    BY <1>8, TakeDownEffect DEF Recover, PipeInv
  <2> QED BY <1>2, <1>3, <2>1, <2>2, OwnershipShrinks
<1>9. CASE Track(e)
  BY <1>9, OwnershipTracks
<1>10. CASE SentStillDown(e)
  <2>1. /\ em'[e].dels = em[e].dels /\ em'[e].recs = em[e].recs /\ em'[e].mid = FreshMid
        /\ em'[e].pc = "track" /\ em'[e].cur = em[e].cur
    BY <1>1, <1>10 DEF SentStillDown, EmitterState
  <2> QED BY <1>2, <1>10, <2>1, OwnershipSends DEF SentStillDown
<1>11. CASE SentTooLate(e)
  <2>1. /\ em'[e].dels = em[e].dels /\ em'[e].recs = em[e].recs
        /\ em'[e].mid = em[e].mid /\ em'[e].pc = "out"
    BY <1>1, <1>11 DEF SentTooLate, EmitterState
  <2>2. CASE red' = red
    BY <1>2, <1>3, <1>11, <2>1, <2>2, OwnershipShrinks DEF SentTooLate
  <2>3. CASE red' = Put(red, FreshMid, em[e].cur)
    BY <1>2, <1>11, <2>1, <2>3, OwnershipSends DEF SentTooLate
  <2> QED BY <1>11, <2>2, <2>3 DEF SentTooLate
<1>12. CASE SendFails(e) \/ \E k \in Keys : SkipAlerted(e, k) \/ StartSend(e, k)
  <2>1. /\ em'[e].dels = em[e].dels /\ em'[e].recs = em[e].recs /\ em'[e].mid = em[e].mid
        /\ em'[e].pc \in {"out", "send"}
    <3>1. CASE SendFails(e)
      BY <1>1, <3>1 DEF SendFails, EmitterState
    <3>2. ASSUME NEW k \in Keys, SkipAlerted(e, k)
          PROVE  em'[e] = [em[e] EXCEPT !.outs = @ \ {k}] /\ em[e].pc = "out"
      BY <1>1, <3>2 DEF SkipAlerted
    <3>3. ASSUME NEW k \in Keys, StartSend(e, k)
          PROVE  em'[e] = [em[e] EXCEPT !.pc = "send", !.outs = @ \ {k}, !.cur = k]
      BY <1>1, <3>3 DEF StartSend
    <3> QED BY <1>1, <1>12, <3>1, <3>2, <3>3 DEF EmitterState
  <2>2. UNCHANGED <<alerts, disk, red>>
    BY <1>12 DEF SendFails, SkipAlerted, StartSend
  <2> QED BY <1>2, <1>3, <2>1, <2>2, OwnershipShrinks
<1> QED BY <1>4, <1>5, <1>6, <1>7, <1>8, <1>9, <1>10, <1>11, <1>12 DEF EmitterStep

LEMMA PipeInvInit == PipeInit => PipeInv
<1> SUFFICES ASSUME PipeInit PROVE PipeInv
  OBVIOUS
<1>1. \A e \in Emitters : /\ em[e] = IdleEmitter /\ em[e].pc = "idle"
                          /\ em[e].dels = {} /\ em[e].recs = {} /\ em[e].mid = NoMid
  BY DEF PipeInit, IdleEmitter
<1>2. PipeTypeOK
  <2>1. [i \in {} |-> TRUE] \in [{} -> BOOLEAN] /\ [k \in {} |-> NoMid] \in [{} -> Mids]
        /\ [m \in {} |-> NoKey] \in [{} -> Keys]
    OBVIOUS
  <2>2. em \in [Emitters -> EmitterState]
    BY IdleEmitterTyped DEF PipeInit
  <2>3. world \in [Ids -> WorldState]
    BY DEF PipeInit, WorldState
  <2> QED BY <2>1, <2>2, <2>3 DEF PipeInit, PipeTypeOK
<1>3. EmitterRules
  BY <1>1 DEF EmitterRules
<1>4. Ownership /\ Home
  BY <1>1 DEF PipeInit, Ownership, HandsOff, Hands, Home, AlertsPointHome
<1> QED BY <1>2, <1>3, <1>4 DEF PipeInv

LEMMA PipeInvNext == PipeInv /\ [PipeNext]_pipeVars => PipeInv'
<1> SUFFICES ASSUME PipeInv, [PipeNext]_pipeVars PROVE PipeInv'
  OBVIOUS
<1>1. ASSUME NEW e \in Emitters, Capture(e, SnapshotOf(world)) \/ EmitterStep(e)
      PROVE  PipeInv'
  <2>1. PipeTypeOK'
    BY <1>1, CaptureTyped, SeedTyped, ProcessTyped, NetTyped DEF EmitterStep, PipeInv
  <2> QED BY <1>1, <2>1, EmitterRulesKept, OwnershipKept DEF PipeInv
<1>2. CASE Restart
  <2>1. PipeTypeOK'
    BY <1>2, EnvTyped DEF EnvStep, PipeInv
  <2>2. EmitterRules'
    BY <1>2 DEF Restart, EmitterRules, IdleEmitter
  <2> QED BY <1>2, <2>1, <2>2, OwnershipRestarts DEF PipeInv
<1>3. CASE (EnvStep /\ ~Restart) \/ \E i \in Ids, v \in WorldState : WorldChanges(i, v)
  <2>1. PipeTypeOK'
    BY <1>3, EnvTyped DEF PipeInv
  <2>2. UNCHANGED <<alerts, disk, red, em>>
    BY <1>3 DEF EnvStep, QuietChanges, CheckSchedules, FlapCountChanges, HoldExpires,
       ToggleNodeChat, WorldChanges
  <2> QED BY <2>1, <2>2 DEF PipeInv, EmitterRules, Ownership, HandsOff, Hands, Home,
         AlertsPointHome
<1>4. CASE UNCHANGED pipeVars
  BY <1>4 DEF pipeVars, PipeInv, PipeTypeOK, EmitterRules, Ownership, HandsOff, Hands,
     Home,
     AlertsPointHome
<1> QED BY <1>1, <1>2, <1>3, <1>4 DEF PipeNext

\* The inductive invariant of the ownership holds in every reachable state.
THEOREM PipeInvariant == PipeSpec => []PipeInv
<1> QED BY PipeInvInit, PipeInvNext, PTL DEF PipeSpec

\* Types of the whole pipeline (alerts.go, alert_tracker.go).
THEOREM PipeTypeCorrect == PipeSpec => []PipeTypeOK
<1>1. PipeInv => PipeTypeOK
  BY DEF PipeInv
<1> QED BY <1>1, PipeInvariant, PTL

\* A tracked alert never points to the message of another chat or proxy, whatever
\* fails and however the emitters interleave.
THEOREM TrackedMessagesAreHome == PipeSpec => []AlertsPointHome
<1>1. PipeInv => AlertsPointHome
  BY DEF PipeInv, Home
<1> QED BY <1>1, PipeInvariant, PTL

\* At most one goroutine or tracker entry may act on a message at a time: no recovery
\* edits or deletes the message of another outage.
THEOREM MessagesHaveOneOwner == PipeSpec => []OneOwner
<1>1. PipeInv => OneOwner
  <2> SUFFICES ASSUME PipeInv, NEW m \in Mids
               PROVE  /\ Cardinality(Trackers(m)) + Cardinality(Holders(m)) <= 1
                      /\ \A e \in Emitters :
                            Cardinality({x \in {"mid", "dels", "recs"} :
                                \/ x = "mid" /\ em[e].mid = m
                                \/ x = "dels" /\ m \in em[e].dels
                                \/ x = "recs" /\ m \in em[e].recs}) <= 1
    BY DEF OneOwner
  <2>1. m # NoMid
    BY PipelineAssumption
  <2>2. NoDuplicate(Trackers(m))
    BY DEF NoDuplicate, Trackers, PipeInv, Ownership
  <2>3. NoDuplicate(Holders(m))
    BY <2>1 DEF NoDuplicate, Holders, PipeInv, Ownership, HandsOff, Hands
  <2>4. Trackers(m) = {} \/ Holders(m) = {}
    BY DEF Trackers, Holders, PipeInv, Ownership, Hands
  <2>5. Cardinality(Trackers(m)) + Cardinality(Holders(m)) <= 1
    BY <2>2, <2>3, <2>4, AtMostOne, FS_CardinalityType
  <2>6. ASSUME NEW e \in Emitters
        PROVE  Cardinality({x \in {"mid", "dels", "recs"} :
                  \/ x = "mid" /\ em[e].mid = m
                  \/ x = "dels" /\ m \in em[e].dels
                  \/ x = "recs" /\ m \in em[e].recs}) <= 1
    <3> DEFINE S == {x \in {"mid", "dels", "recs"} :
                  \/ x = "mid" /\ em[e].mid = m
                  \/ x = "dels" /\ m \in em[e].dels
                  \/ x = "recs" /\ m \in em[e].recs}
    <3>1. NoDuplicate(S)
      BY DEF NoDuplicate, PipeInv, Ownership
    <3> HIDE DEF S
    <3>2. Cardinality(S) <= 1
      BY <3>1, AtMostOne
    <3> QED BY <3>2 DEF S
  <2> QED BY <2>5, <2>6
<1> QED BY <1>1, PipeInvariant, PTL

-----------------------------------------------------------------------------
(* What the chats show.                                                    *)

\* Without failures every message is taken down.
LEMMA SoloTakesAllDown ==
    ASSUME Solo, NEW S, TakeDown(S)
    PROVE  DOMAIN red' = DOMAIN red \ S /\ Restricts(red', red)
<1>1. red' = Drop(red, S)
  BY DEF Solo, TakeDown
<1> QED BY <1>1 DEF Drop, Restricts

\* A snapshot is processed: what it knows to be up or disabled is resolved.
LEMMA SoloProcesses ==
    ASSUME Solo, BoardInv, PipeTypeOK', NEW e \in Emitters, Process(e)
    PROVE  OutagesLast' /\ MessagesKept'
<1> DEFINE snap == em[e].snap
           D == DOMAIN snap \ Enabled(snap)
           U == {i \in CameUp(snap) : ~Muted(i)}
<1>1. \A f \in Emitters : f = e
  BY DEF Solo, NoDuplicate
<1>2. snap \in UNION {[S -> Seen] : S \in SUBSET Ids}
  BY DEF BoardInv, PipeInv, PipeTypeOK, EmitterState
<1>3. U = CameUp(snap)
  BY DEF BoardInv, OutagesLast, Muted
<1>4. /\ D \subseteq Ids /\ U \subseteq Ids
      /\ em'[e].pc = "del" /\ em'[e].mid = NoMid
      /\ em'[e].dels = MidsFor(D)
      /\ em'[e].recs = IF quiet THEN {} ELSE MidsFor(U)
      /\ em'[e].outs \subseteq {k \in Keys : k[2] \in WentDown(snap)}
      /\ DOMAIN alerts' = {k \in DOMAIN alerts : k[2] \notin D \cup U}
      /\ Restricts(alerts', alerts)
  BY <1>3, ProcessEffect DEF BoardInv
<1>5. DOMAIN red' = DOMAIN red \ (IF quiet THEN MidsFor(U) ELSE {}) /\ Restricts(red', red)
  <2>1. ASSUME quiet PROVE TakeDown(MidsFor(U))
    BY <2>1 DEF Process, QuietRecovery
  <2>2. ASSUME ~quiet PROVE red' = red
    BY <2>2, ProcessEffect DEF BoardInv
  <2>3. CASE quiet
    BY <2>1, <2>3, SoloTakesAllDown
  <2>4. CASE ~quiet
    BY <2>2, <2>4 DEF Restricts
  <2> QED BY <2>3, <2>4
<1>6. /\ MidsFor(D) = {alerts[k] : k \in {j \in DOMAIN alerts : j[2] \in D}}
      /\ MidsFor(U) = {alerts[k] : k \in {j \in DOMAIN alerts : j[2] \in U}}
  BY <1>4, MidsForKeys DEF BoardInv, PipeInv
<1>7. /\ UNCHANGED <<world, seeded, nodeChat>> /\ seeded
      /\ em[e].pc = "locked"
      /\ DOMAIN lastSeen' = Enabled(snap)
      /\ \A i \in Enabled(snap) : lastSeen'[i] = (snap[i] = "on")
  BY <1>2, ViewTyped DEF Process
<1>8. /\ em[e].dels = {} /\ em[e].recs = {}
      /\ DOMAIN lastSeen \subseteq DOMAIN snap
      /\ \A i \in DOMAIN snap : world[i] # "absent"
      /\ \A k \in DOMAIN alerts : Down(lastSeen, k[2])
      /\ nodeChat
  BY <1>7 DEF BoardInv, OutagesLast
<1>9. Enabled(snap) \subseteq DOMAIN snap /\ \A i \in Enabled(snap) : snap[i] \in {"on", "off"}
  BY <1>2 DEF Enabled, Seen
<1>10. /\ \A i \in WentDown(snap) : Down(lastSeen', i)
       /\ \A i \in U : ~Down(lastSeen', i)
       /\ \A i \in D : ~Down(lastSeen', i)
  BY <1>3, <1>7, <1>9 DEF Down, WentDown, CameUp
<1>11. \A k \in DOMAIN alerts : k[2] \notin D \cup U => Down(lastSeen', k[2])
  <2>1. ASSUME NEW k \in DOMAIN alerts, k[2] \notin D \cup U PROVE Down(lastSeen', k[2])
    <3>1. k[2] \in Enabled(snap) /\ k[2] \in DOMAIN lastSeen /\ ~lastSeen[k[2]]
      BY <1>8, <2>1 DEF Down
    <3>2. snap[k[2]] = "off"
      BY <1>3, <1>9, <2>1, <3>1 DEF CameUp
    <3> QED BY <1>7, <3>1, <3>2 DEF Down
  <2> QED BY <2>1
<1>12. \A m \in DOMAIN red : red[m] \in DOMAIN alerts /\ alerts[red[m]] = m
  BY <1>1, <1>7, <1>8 DEF BoardInv, MessagesKept
<1> HIDE DEF D, U, snap
<1>13. OutagesLast'
  <2>1. \A k \in DOMAIN alerts' : Down(lastSeen', k[2])
    BY <1>4, <1>11
  <2>2. \A i \in DOMAIN lastSeen' : world'[i] # "absent"
    BY <1>7, <1>8, <1>9
  <2>3. \A k \in em'[e].outs : Down(lastSeen', k[2])
    BY <1>4, <1>10
  <2> QED BY <1>1, <1>4, <1>7, <1>8, <2>1, <2>2, <2>3 DEF OutagesLast
<1>14. MessagesKept'
  <2>1. \A m, n \in DOMAIN red' : red'[m] = red'[n] => m = n
    BY <1>5 DEF Restricts, BoardInv, MessagesKept
  <2>2. \A m \in DOMAIN red' : m \in em'[e].dels \cup em'[e].recs => ~Down(lastSeen', red'[m][2])
    <3>1. ASSUME NEW m \in DOMAIN red', m \in MidsFor(D) \cup MidsFor(U)
          PROVE  ~Down(lastSeen', red'[m][2])
      <4>1. m \in DOMAIN red /\ red'[m] = red[m]
        BY <1>5 DEF Restricts
      <4>2. red[m][2] \in D \cup U
        BY <1>6, <1>12, <3>1, <4>1 DEF BoardInv, PipeInv, Ownership
      <4> QED BY <1>10, <4>1, <4>2
    <3> QED BY <1>4, <3>1
  <2>3. ASSUME NEW m \in DOMAIN red'
        PROVE  \/ red'[m] \in DOMAIN alerts' /\ alerts'[red'[m]] = m
               \/ m \in em'[e].dels \cup em'[e].recs
    <3>1. m \in DOMAIN red /\ red'[m] = red[m]
      BY <1>5 DEF Restricts
    <3>2. red[m] \in DOMAIN alerts /\ alerts[red[m]] = m
      BY <1>12, <3>1
    <3>3. CASE red[m][2] \in D
      BY <1>4, <1>6, <3>2, <3>3
    <3>4. CASE red[m][2] \in U
      <4>1. m \in MidsFor(U)
        BY <1>6, <3>2, <3>4
      <4> QED BY <1>4, <1>5, <4>1
    <3>5. CASE red[m][2] \notin D \cup U
      BY <1>4, <3>1, <3>2, <3>5 DEF Restricts
    <3> QED BY <3>3, <3>4, <3>5
  <2> QED BY <1>1, <2>1, <2>2, <2>3 DEF MessagesKept
<1> QED BY <1>13, <1>14

\* The first snapshot finds neither alerts nor messages.
LEMMA SoloSeeds ==
    ASSUME Solo, BoardInv, NEW e \in Emitters, Seed(e)
    PROVE  OutagesLast' /\ MessagesKept'
<1> DEFINE snap == em[e].snap
<1>1. \A f \in Emitters : f = e
  BY DEF Solo, NoDuplicate
<1>2. snap \in UNION {[S -> Seen] : S \in SUBSET Ids}
  BY DEF BoardInv, PipeInv, PipeTypeOK, EmitterState
<1>3. /\ em'[e].pc = "idle" /\ em'[e].dels = {} /\ em'[e].recs = {} /\ em'[e].outs = {}
      /\ UNCHANGED <<world, red, nodeChat>> /\ seeded'
      /\ em[e].pc = "locked"
  BY DEF Seed, IdleEmitter, BoardInv, PipeInv, PipeTypeOK
<1>4. DOMAIN alerts = {} /\ DOMAIN red = {}
      /\ nodeChat /\ \A i \in DOMAIN snap : world[i] # "absent"
  BY <1>3 DEF Seed, BoardInv, OutagesLast
<1>5. DOMAIN alerts' = {}
  BY <1>4, ResolveEffect DEF Seed, BoardInv, PipeInv
<1>6. DOMAIN lastSeen' \subseteq DOMAIN snap
  BY <1>2, ViewTyped DEF Seed, Enabled
<1>7. OutagesLast'
  BY <1>1, <1>3, <1>4, <1>5, <1>6 DEF OutagesLast
<1>8. MessagesKept'
  BY <1>3, <1>4 DEF MessagesKept
<1> QED BY <1>7, <1>8

\* The message of a new outage is the only one of that outage.
LEMMA SoloSends ==
    ASSUME Solo, BoardInv, NEW e \in Emitters, SentStillDown(e)
    PROVE  /\ OutagesLast' /\ MessagesKept'
           /\ \A m \in DOMAIN red : red[m] # em[e].cur
<1> DEFINE m == FreshMid
           k == em[e].cur
<1>1. \A f \in Emitters : f = e
  BY DEF Solo, NoDuplicate
<1>2. m \in Mids /\ m # NoMid /\ m \notin MidsInUse
  BY FreshMidIsFree DEF SentStillDown
<1>3. em[e] \in EmitterState
  BY DEF BoardInv, PipeInv, PipeTypeOK
<1>4. /\ em'[e].pc = "track" /\ em'[e].mid = m /\ em'[e].cur = k
      /\ em'[e].dels = em[e].dels /\ em'[e].recs = em[e].recs /\ em'[e].outs = em[e].outs
      /\ em[e].pc = "send"
  BY <1>3 DEF SentStillDown, EmitterState, BoardInv, PipeInv, PipeTypeOK
<1>5. UNCHANGED <<world, seeded, lastSeen, nodeChat, alerts>> /\ red' = Put(red, m, k)
  BY DEF SentStillDown, NetUnchanged
<1> HIDE DEF m, k
<1>6. m \notin DOMAIN red /\ m \notin em[e].dels \cup em[e].recs
  BY <1>2 DEF MidsInUse
<1>7. DOMAIN red' = DOMAIN red \cup {m} /\ red'[m] = k
      /\ \A x \in DOMAIN red : red'[x] = red[x]
  BY <1>5, <1>6 DEF Put
<1>8. Down(lastSeen, k[2]) /\ k \notin DOMAIN alerts
  BY <1>4 DEF BoardInv, OutagesLast, k
<1>9. \A x \in DOMAIN red : red[x] # k
  BY <1>1, <1>4, <1>8 DEF BoardInv, MessagesKept
<1>10. OutagesLast'
  <2>1. seeded
    BY <1>4 DEF BoardInv, OutagesLast
  <2> QED BY <1>1, <1>4, <1>5, <1>8, <2>1 DEF BoardInv, OutagesLast
<1>11. MessagesKept'
  <2>1. \A x, y \in DOMAIN red' : red'[x] = red'[y] => x = y
    BY <1>7, <1>9 DEF BoardInv, MessagesKept
  <2>2. \A x \in DOMAIN red' : x \in em'[e].dels \cup em'[e].recs => ~Down(lastSeen', red'[x][2])
    BY <1>4, <1>5, <1>6, <1>7 DEF BoardInv, MessagesKept, Down
  <2>3. \A x \in DOMAIN red' : \/ red'[x] \in DOMAIN alerts' /\ alerts'[red'[x]] = x
                               \/ x \in em'[e].dels \cup em'[e].recs
                               \/ em'[e].pc = "track" /\ em'[e].mid = x
    BY <1>1, <1>4, <1>5, <1>7 DEF BoardInv, MessagesKept
  <2> QED BY <1>1, <2>1, <2>2, <2>3 DEF MessagesKept
<1> QED BY <1>9, <1>10, <1>11 DEF k

\* The message is tracked, under the key of its outage.
LEMMA SoloTracks ==
    ASSUME Solo, BoardInv, NEW e \in Emitters, Track(e)
    PROVE  OutagesLast' /\ MessagesKept'
<1> DEFINE m == em[e].mid
           k == em[e].cur
<1>1. \A f \in Emitters : f = e
  BY DEF Solo, NoDuplicate
<1>2. em[e] \in EmitterState /\ k \in Keys /\ em[e].pc = "track"
  BY DEF BoardInv, PipeInv, PipeTypeOK, EmitterRules, Track
<1>3. /\ em'[e].pc = "out"
      /\ em'[e].dels = em[e].dels /\ em'[e].recs = em[e].recs /\ em'[e].outs = em[e].outs
  BY <1>2 DEF Track, EmitterState, BoardInv, PipeInv, PipeTypeOK
<1>4. UNCHANGED <<world, seeded, lastSeen, nodeChat, red>> /\ alerts' = Put(alerts, k, m)
  BY <1>2, KeysAreAlertKeys DEF Track, NetUnchanged
<1> HIDE DEF m, k
<1>5. DOMAIN alerts' = DOMAIN alerts \cup {k} /\ alerts'[k] = m
      /\ \A j \in DOMAIN alerts \ {k} : alerts'[j] = alerts[j]
  BY <1>4 DEF Put
<1>6. Down(lastSeen, k[2]) /\ k \notin DOMAIN alerts /\ (m \in DOMAIN red => red[m] = k)
  BY <1>2 DEF BoardInv, OutagesLast, PipeInv, Home, k, m
<1>7. OutagesLast'
  <2>1. \A j \in DOMAIN alerts' : Down(lastSeen', j[2])
    BY <1>4, <1>5, <1>6 DEF BoardInv, OutagesLast, Down
  <2>2. seeded
    BY <1>2 DEF BoardInv, OutagesLast
  <2> QED BY <1>1, <1>2, <1>3, <1>4, <2>1, <2>2 DEF BoardInv, OutagesLast, Down
<1>8. MessagesKept'
  <2>1. \A x \in DOMAIN red' : x \in em'[e].dels \cup em'[e].recs => ~Down(lastSeen', red'[x][2])
    BY <1>3, <1>4 DEF BoardInv, MessagesKept, Down
  <2>2. \A x \in DOMAIN red' : \/ red'[x] \in DOMAIN alerts' /\ alerts'[red'[x]] = x
                               \/ x \in em'[e].dels \cup em'[e].recs
    BY <1>1, <1>3, <1>4, <1>5, <1>6 DEF BoardInv, MessagesKept, m
  <2> QED BY <1>1, <1>4, <2>1, <2>2 DEF BoardInv, MessagesKept
<1> QED BY <1>7, <1>8

\* The messages of outages that are over go, and nothing else.
LEMMA SoloTakesDown ==
    ASSUME Solo, BoardInv, NEW e \in Emitters, DeleteDisabled(e) \/ Recover(e)
    PROVE  /\ OutagesLast' /\ MessagesKept'
           /\ Restricts(red', red)
           /\ \A m \in DOMAIN red \ DOMAIN red' : ~Down(lastSeen', red[m][2])
<1>1. \A f \in Emitters : f = e
  BY DEF Solo, NoDuplicate
<1>2. em[e] \in EmitterState /\ em \in [Emitters -> EmitterState]
  BY DEF BoardInv, PipeInv, PipeTypeOK
<1>3. UNCHANGED <<world, seeded, lastSeen, nodeChat, alerts>>
  BY DEF DeleteDisabled, Recover, NetUnchanged
<1>4. CASE DeleteDisabled(e)
  <2>1. /\ em'[e].pc = "out" /\ em'[e].dels = {}
        /\ em'[e].recs = em[e].recs /\ em'[e].outs = em[e].outs
        /\ em[e].pc = "del"
    BY <1>2, <1>4 DEF DeleteDisabled, EmitterState
  <2>2. DOMAIN red' = DOMAIN red \ em[e].dels /\ Restricts(red', red)
    BY <1>4, SoloTakesAllDown DEF DeleteDisabled
  <2>3. seeded
    BY <2>1 DEF BoardInv, OutagesLast
  <2>4. OutagesLast'
    BY <1>1, <1>3, <2>1, <2>3 DEF BoardInv, OutagesLast, Down
  <2>5. MessagesKept'
    BY <1>1, <1>3, <2>1, <2>2 DEF BoardInv, MessagesKept, Down, Restricts
  <2>6. \A m \in DOMAIN red \ DOMAIN red' : ~Down(lastSeen', red[m][2])
    BY <1>3, <2>2 DEF BoardInv, MessagesKept, Down
  <2> QED BY <2>2, <2>4, <2>5, <2>6
<1>5. CASE Recover(e)
  <2>1. /\ em'[e].pc = "idle" /\ em'[e].dels = {} /\ em'[e].recs = {} /\ em'[e].outs = {}
        /\ em[e].pc = "out"
    BY <1>2, <1>5 DEF Recover, IdleEmitter
  <2>2. DOMAIN red' = DOMAIN red \ em[e].recs /\ Restricts(red', red)
    BY <1>5, SoloTakesAllDown DEF Recover
  <2>3. seeded /\ em[e].dels = {}
    BY <2>1 DEF BoardInv, OutagesLast
  <2>4. OutagesLast'
    BY <1>1, <1>3, <2>1, <2>3 DEF BoardInv, OutagesLast, Down
  <2>5. MessagesKept'
    BY <1>1, <1>3, <2>1, <2>2, <2>3 DEF BoardInv, MessagesKept, Down, Restricts
  <2>6. \A m \in DOMAIN red \ DOMAIN red' : ~Down(lastSeen', red[m][2])
    BY <1>3, <2>2 DEF BoardInv, MessagesKept, Down
  <2> QED BY <2>2, <2>4, <2>5, <2>6
<1> QED BY <1>4, <1>5

\* The other steps of an emitter, of which a failed and a late send cannot happen.
LEMMA SoloWalks ==
    ASSUME Solo, BoardInv, NEW e \in Emitters,
           \/ Capture(e, SnapshotOf(world)) \/ SendFails(e) \/ SentTooLate(e)
           \/ \E k \in Keys : SkipAlerted(e, k) \/ StartSend(e, k)
    PROVE  OutagesLast' /\ MessagesKept' /\ UNCHANGED <<red, lastSeen>>
<1>1. \A f \in Emitters : f = e
  BY DEF Solo, NoDuplicate
<1>2. em[e] \in EmitterState /\ em \in [Emitters -> EmitterState]
  BY DEF BoardInv, PipeInv, PipeTypeOK
<1>3. ~SendFails(e) /\ ~SentTooLate(e)
  <2>1. ~SendFails(e)
    BY DEF Solo, SendFails
  <2>2. em[e].pc = "send" => Down(lastSeen, em[e].cur[2])
    BY DEF BoardInv, OutagesLast
  <2>3. ~SentTooLate(e)
    BY <2>2 DEF SentTooLate, StillDown, Down
  <2> QED BY <2>1, <2>3
<1>4. CASE Capture(e, SnapshotOf(world))
  <2>1. /\ em'[e].pc = "locked" /\ em'[e].dels = {} /\ em'[e].recs = {} /\ em'[e].outs = {}
        /\ em'[e].snap = SnapshotOf(world)
        /\ em[e].pc = "idle"
    BY <1>2, <1>4 DEF Capture, IdleEmitter
  <2>2. UNCHANGED <<world, seeded, lastSeen, nodeChat, alerts, red>>
    BY <1>4 DEF Capture
  <2>3. DOMAIN SnapshotOf(world) = {i \in Ids : world[i] # "absent"}
    BY DEF SnapshotOf
  <2>4. DOMAIN lastSeen \subseteq DOMAIN SnapshotOf(world)
    BY <2>3 DEF BoardInv, OutagesLast, PipeInv, PipeTypeOK
  <2>5. OutagesLast'
    BY <1>1, <2>1, <2>2, <2>3, <2>4 DEF BoardInv, OutagesLast, Down
  <2>6. em[e].dels = {} /\ em[e].recs = {}
    BY <2>1 DEF BoardInv, OutagesLast
  <2>7. MessagesKept'
    BY <1>1, <2>1, <2>2, <2>6 DEF BoardInv, MessagesKept, Down
  <2> QED BY <2>2, <2>5, <2>7
<1>5. ASSUME NEW k \in Keys, SkipAlerted(e, k) \/ StartSend(e, k)
      PROVE  OutagesLast' /\ MessagesKept' /\ UNCHANGED <<red, lastSeen>>
  <2>1. /\ em'[e].dels = em[e].dels /\ em'[e].recs = em[e].recs
        /\ em'[e].outs \subseteq em[e].outs
        /\ em[e].pc = "out"
        /\ em'[e].pc \in {"out", "send"}
        /\ em'[e].pc = "send" => em'[e].cur = k /\ k \notin DOMAIN alerts /\ k \in em[e].outs
    <3>1. CASE SkipAlerted(e, k)
      <4>1. em'[e] = [em[e] EXCEPT !.outs = @ \ {k}] /\ em[e].pc = "out"
        BY <1>2, <3>1 DEF SkipAlerted
      <4> QED BY <1>2, <4>1 DEF EmitterState
    <3>2. CASE StartSend(e, k)
      <4>1. /\ em'[e] = [em[e] EXCEPT !.pc = "send", !.outs = @ \ {k}, !.cur = k]
            /\ em[e].pc = "out" /\ k \in em[e].outs
        BY <1>2, <3>2 DEF StartSend
      <4>2. k \notin DOMAIN alerts
        BY <3>2, KeysAreAlertKeys DEF StartSend, HasAlert
      <4> QED BY <1>2, <4>1, <4>2 DEF EmitterState
    <3> QED BY <1>5, <3>1, <3>2
  <2>2. UNCHANGED <<world, seeded, lastSeen, nodeChat, alerts, red>>
    BY <1>5 DEF SkipAlerted, StartSend, NetUnchanged
  <2>3. seeded
    BY <2>1 DEF BoardInv, OutagesLast
  <2>4. OutagesLast'
    BY <1>1, <2>1, <2>2, <2>3 DEF BoardInv, OutagesLast, Down
  <2>5. MessagesKept'
    BY <1>1, <2>1, <2>2 DEF BoardInv, MessagesKept, Down
  <2> QED BY <2>2, <2>4, <2>5
<1> QED BY <1>3, <1>4, <1>5

\* The world, the clock and the settings.
LEMMA SoloEnv ==
    ASSUME Solo, BoardInv,
           EnvStep \/ \E i \in Ids, v \in WorldState : WorldChanges(i, v)
    PROVE  OutagesLast' /\ MessagesKept' /\ UNCHANGED <<red, lastSeen>>
<1>1. ~Restart /\ ~ToggleNodeChat
  BY DEF Solo, Restart, ToggleNodeChat
<1>2. UNCHANGED <<seeded, lastSeen, nodeChat, alerts, red, em>>
  BY <1>1 DEF EnvStep, QuietChanges, CheckSchedules, FlapCountChanges, HoldExpires,
     WorldChanges
<1>3. \A i \in Ids : world[i] # "absent" => world'[i] # "absent"
  <2>1. ASSUME NEW i \in Ids, NEW v \in WorldState, WorldChanges(i, v)
        PROVE  \A j \in Ids : world[j] # "absent" => world'[j] # "absent"
    BY <2>1 DEF WorldChanges, Solo, Seen, BoardInv, PipeInv, PipeTypeOK
  <2>2. CASE UNCHANGED world
    BY <2>2
  <2> QED BY <1>1, <2>1, <2>2 DEF EnvStep, QuietChanges, CheckSchedules,
  FlapCountChanges,
         HoldExpires
<1>4. DOMAIN lastSeen \subseteq Ids
      /\ \A e \in Emitters : DOMAIN em[e].snap \subseteq Ids
  BY DEF BoardInv, PipeInv, PipeTypeOK, EmitterState
<1>5. OutagesLast'
  BY <1>2, <1>3, <1>4 DEF BoardInv, OutagesLast, Down
<1>6. MessagesKept'
  BY <1>2 DEF BoardInv, MessagesKept, Down
<1> QED BY <1>2, <1>5, <1>6

LEMMA BoardInvInit == PipeInit => BoardInv
<1> SUFFICES ASSUME PipeInit PROVE BoardInv
  OBVIOUS
<1>1. PipeInv
  BY PipeInvInit
<1>2. \A e \in Emitters : /\ em[e].pc = "idle" /\ em[e].dels = {} /\ em[e].recs = {}
                          /\ em[e].outs = {}
  BY DEF PipeInit, IdleEmitter
<1>3. DOMAIN alerts = {} /\ DOMAIN red = {} /\ DOMAIN lastSeen = {} /\ nodeChat
  BY DEF PipeInit
<1> QED BY <1>1, <1>2, <1>3 DEF BoardInv, OutagesLast, MessagesKept

LEMMA BoardInvNext ==
    ASSUME Solo, BoardInv, [PipeNext]_pipeVars
    PROVE  BoardInv'
<1>1. PipeInv' /\ PipeTypeOK'
  BY PipeInvNext DEF BoardInv, PipeInv
<1>2. ASSUME NEW e \in Emitters, Capture(e, SnapshotOf(world)) \/ EmitterStep(e)
      PROVE  OutagesLast' /\ MessagesKept'
  BY <1>1, <1>2, SoloProcesses, SoloSeeds, SoloSends, SoloTracks, SoloTakesDown,
     SoloWalks
     DEF EmitterStep
<1>3. CASE EnvStep \/ \E i \in Ids, v \in WorldState : WorldChanges(i, v)
  BY <1>1, <1>3, SoloEnv DEF BoardInv
<1>4. CASE UNCHANGED pipeVars
  BY <1>1, <1>4 DEF pipeVars, BoardInv, OutagesLast, MessagesKept
<1> QED BY <1>1, <1>2, <1>3, <1>4 DEF PipeNext, BoardInv

\* The inductive invariant of what the chats show.
THEOREM BoardInvariant ==
    ASSUME Solo
    PROVE  PipeSpec => []BoardInv
<1>1. BoardInv /\ [PipeNext]_pipeVars => BoardInv'
  BY BoardInvNext
<1> QED BY <1>1, BoardInvInit, PTL DEF PipeSpec

\* With one call at a time that succeeds, no outage message is left for a proxy the
\* bot knows to be online.
THEOREM OnlineProxiesAreQuiet ==
    ASSUME Solo
    PROVE  PipeSpec => []NoOutageMessageForOnline
<1>1. BoardInv => NoOutageMessageForOnline
  <2> SUFFICES ASSUME BoardInv, AllIdle, NEW m \in DOMAIN red
               PROVE  ~KnownOnline(red[m][2])
    BY DEF NoOutageMessageForOnline
  <2>1. red[m] \in DOMAIN alerts
    BY DEF BoardInv, OutagesLast, MessagesKept, AllIdle
  <2> QED BY <2>1 DEF BoardInv, OutagesLast, Down, KnownOnline
<1> QED BY <1>1, BoardInvariant, PTL

\* With one call at a time that succeeds, every outage message is tracked, so that
\* its recovery finds it.
THEOREM MessagesAreTracked ==
    ASSUME Solo
    PROVE  PipeSpec => []NoOrphanMessage
<1>1. BoardInv => NoOrphanMessage
  BY DEF BoardInv, OutagesLast, MessagesKept, AllIdle, NoOrphanMessage
<1> QED BY <1>1, BoardInvariant, PTL

-----------------------------------------------------------------------------
(* The refinement of OutageBoard.                                          *)

Standing == {red[m] : m \in DOMAIN red}
BoardOf == [s \in Targets \X Ids |-> Cardinality({m \in DOMAIN red : red[m] = s})]
KnownOf == [i \in Ids |-> Known(i)]

\* A map without two messages of a slot has one or none there.
LEMMA OneOrNone ==
    ASSUME NEW f, \A m, n \in DOMAIN f : f[m] = f[n] => m = n, NEW s
    PROVE  Cardinality({m \in DOMAIN f : f[m] = s})
              = IF s \in {f[m] : m \in DOMAIN f} THEN 1 ELSE 0
<1> DEFINE S == {m \in DOMAIN f : f[m] = s}
<1>1. CASE s \in {f[m] : m \in DOMAIN f}
  <2>1. PICK n \in DOMAIN f : f[n] = s
    BY <1>1
  <2>2. S = {n}
    BY <2>1
  <2> HIDE DEF S
  <2>3. Cardinality(S) = 1
    BY <2>2, FS_Singleton
  <2> QED BY <1>1, <2>3 DEF S
<1>2. CASE s \notin {f[m] : m \in DOMAIN f}
  <2>1. S = {}
    BY <1>2
  <2> HIDE DEF S
  <2>2. Cardinality(S) = 0
    BY <2>1, FS_EmptySet
  <2> QED BY <1>2, <2>2 DEF S
<1> QED BY <1>1, <1>2

LEMMA BoardShows ==
    /\ BoardInv => BoardOf = [s \in Targets \X Ids |-> IF s \in Standing THEN 1 ELSE 0]
    /\ BoardInv' => BoardOf' = [s \in Targets \X Ids |-> IF s \in Standing' THEN 1 ELSE 0]
<1>1. ASSUME BoardInv
      PROVE  BoardOf = [s \in Targets \X Ids |-> IF s \in Standing THEN 1 ELSE 0]
  <2>1. \A m, n \in DOMAIN red : red[m] = red[n] => m = n
    BY <1>1 DEF BoardInv, MessagesKept
  <2>2. \A s : Cardinality({m \in DOMAIN red : red[m] = s}) = IF s \in Standing THEN 1 ELSE 0
    BY <2>1, OneOrNone DEF Standing
  <2> QED BY <2>2 DEF BoardOf
<1>2. ASSUME BoardInv'
      PROVE  BoardOf' = [s \in Targets \X Ids |-> IF s \in Standing' THEN 1 ELSE 0]
  <2>1. \A m, n \in DOMAIN red' : red'[m] = red'[n] => m = n
    BY <1>2 DEF BoardInv, MessagesKept
  <2>2. \A s : Cardinality({m \in DOMAIN red' : red'[m] = s}) = IF s \in Standing' THEN 1 ELSE 0
    BY <2>1, OneOrNone DEF Standing
  <2> QED BY <2>2 DEF BoardOf
<1> QED BY <1>1, <1>2

\* News, and messages of outages that are over.
LEMMA BoardObserves ==
    ASSUME BoardInv, BoardInv', Standing' \subseteq Standing,
           \A s \in Standing \ Standing' : ~Down(lastSeen', s[2])
    PROVE  Board!Observe
<1> DEFINE gone == Standing \ Standing'
<1>1. KnownOf' \in [Ids -> {"unknown", "up", "down"}]
  BY DEF KnownOf, Known
<1>2. Standing \subseteq Targets \X Ids
  BY DEF BoardInv, PipeInv, PipeTypeOK, Keys, Standing
<1>3. gone \subseteq {s \in Targets \X Ids : BoardOf[s] = 1 /\ KnownOf'[s[2]] # "down"}
  <2>1. \A s \in gone : BoardOf[s] = 1
    BY <1>2, BoardShows
  <2>2. \A s \in gone : KnownOf'[s[2]] # "down"
    BY <1>2 DEF KnownOf, Known, Down
  <2> QED BY <1>2, <2>1, <2>2
<1>4. BoardOf' = [s \in Targets \X Ids |-> IF s \in gone THEN 0 ELSE BoardOf[s]]
  BY <1>2, BoardShows
<1> HIDE DEF gone
<1> QED BY <1>1, <1>3, <1>4 DEF Board!Observe, Board!Knowledge, Board!Slots, KnownOf,
        BoardOf

\* An outage is announced where it is not announced yet.
LEMMA BoardAnnounces ==
    ASSUME BoardInv, BoardInv', NEW k \in Keys, k \notin Standing, Down(lastSeen, k[2]),
           Standing' = Standing \cup {k}, lastSeen' = lastSeen
    PROVE  Board!Announce(k)
<1>1. KnownOf[k[2]] = "down" /\ KnownOf' = KnownOf
  BY DEF KnownOf, Known, Down, Keys
<1>2. BoardOf[k] = 0 /\ BoardOf' = [BoardOf EXCEPT ![k] = 1]
  BY BoardShows DEF Keys
<1> QED BY <1>1, <1>2 DEF Board!Announce, KnownOf, BoardOf

LEMMA BoardStep ==
    ASSUME Solo, BoardInv, BoardInv', [PipeNext]_pipeVars
    PROVE  Board!BoardNext
<1>1. ASSUME Restricts(red', red),
             \A m \in DOMAIN red \ DOMAIN red' : ~Down(lastSeen', red[m][2])
      PROVE  Board!BoardNext
  <2>1. Standing' \subseteq Standing
    BY <1>1 DEF Standing, Restricts
  <2>2. \A s \in Standing \ Standing' : ~Down(lastSeen', s[2])
    BY <1>1 DEF Standing, Restricts
  <2> QED BY <2>1, <2>2, BoardObserves DEF Board!BoardNext
<1>2. ASSUME UNCHANGED red PROVE Board!BoardNext
  BY <1>1, <1>2 DEF Restricts
<1>3. ASSUME NEW e \in Emitters, DeleteDisabled(e) \/ Recover(e) PROVE Board!BoardNext
  BY <1>1, <1>3, SoloTakesDown
<1>4. ASSUME NEW e \in Emitters, SentStillDown(e) PROVE Board!BoardNext
  <2> DEFINE k == em[e].cur
  <2>1. k \in Keys /\ Down(lastSeen, k[2])
    BY <1>4 DEF SentStillDown, BoardInv, PipeInv, EmitterRules, OutagesLast
  <2>2. k \notin Standing
    BY <1>4, SoloSends DEF Standing
  <2>3. FreshMid \notin DOMAIN red /\ red' = Put(red, FreshMid, k) /\ lastSeen' = lastSeen
    BY <1>4, FreshMidIsFree DEF SentStillDown, NetUnchanged, MidsInUse
  <2>4. Standing' = Standing \cup {k}
    BY <2>3 DEF Standing, Put
  <2>5. Board!Announce(k)
    BY <2>1, <2>2, <2>3, <2>4, BoardAnnounces
  <2> QED BY <2>1, <2>5 DEF Board!BoardNext, Board!Slots, Keys
<1>5. ASSUME NEW e \in Emitters, Process(e) PROVE Board!BoardNext
  <2>1. CASE quiet
    <3> DEFINE U == {i \in CameUp(em[e].snap) : ~Muted(i)}
    <3>1. TakeDown(MidsFor(U))
      BY <1>5, <2>1 DEF Process, QuietRecovery
    <3>2. DOMAIN red' = DOMAIN red \ MidsFor(U) /\ Restricts(red', red)
      BY <3>1, SoloTakesAllDown
    <3>3. em[e].snap \in UNION {[S -> Seen] : S \in SUBSET Ids}
      BY DEF BoardInv, PipeInv, PipeTypeOK, EmitterState
    <3>4. U \subseteq Ids /\ \A i \in U : ~Down(lastSeen', i)
      <4>1. /\ lastSeen' = View(em[e].snap)
            /\ \A i \in Enabled(em[e].snap) : lastSeen'[i] = (em[e].snap[i] = "on")
        BY <1>5, <3>3, ViewTyped DEF Process
      <4> QED BY <3>3, <4>1 DEF CameUp, Enabled, Down
    <3>5. \A m \in MidsFor(U) \cap DOMAIN red : red[m][2] \in U
      BY <3>4, MidsForKeys DEF BoardInv, PipeInv, Home, AlertsPointHome
    <3> QED BY <1>1, <3>2, <3>4, <3>5
  <2>2. CASE ~quiet
    BY <1>2, <1>5, <2>2 DEF Process
  <2> QED BY <2>1, <2>2
<1>6. ASSUME NEW e \in Emitters, Seed(e) \/ Track(e) PROVE Board!BoardNext
  BY <1>2, <1>6 DEF Seed, Track
<1>7. ASSUME NEW e \in Emitters,
             \/ Capture(e, SnapshotOf(world)) \/ SendFails(e) \/ SentTooLate(e)
             \/ \E k \in Keys : SkipAlerted(e, k) \/ StartSend(e, k)
      PROVE  Board!BoardNext
  BY <1>2, <1>7, SoloWalks
<1>8. CASE EnvStep \/ \E i \in Ids, v \in WorldState : WorldChanges(i, v)
  BY <1>2, <1>8, SoloEnv
<1>9. CASE UNCHANGED pipeVars
  BY <1>2, <1>9 DEF pipeVars
<1> QED BY <1>3, <1>4, <1>5, <1>6, <1>7, <1>8, <1>9 DEF PipeNext, EmitterStep

\* With one call at a time that succeeds, the pipeline implements OutageBoard: only
\* known outages are announced, once, and no message goes while its outage lasts.
THEOREM PipelineIsABoard ==
    ASSUME Solo
    PROVE  PipeSpec => BoardRefinement
<1>1. PipeInit => Board!BoardInit
  <2> SUFFICES ASSUME PipeInit PROVE Board!BoardInit
    OBVIOUS
  <2>1. KnownOf = [i \in Ids |-> "unknown"]
    BY DEF PipeInit, KnownOf, Known
  <2>2. Standing = {}
    BY DEF PipeInit, Standing
  <2>3. BoardOf = [s \in Targets \X Ids |-> 0]
    BY <2>2, BoardInvInit, BoardShows
  <2> QED BY <2>1, <2>3 DEF Board!BoardInit, Board!Slots, KnownOf, BoardOf
<1>2. BoardInv /\ BoardInv' /\ [PipeNext]_pipeVars => [Board!BoardNext]_(Board!boardVars)
  BY BoardStep
<1> QED BY <1>1, <1>2, BoardInvariant, PTL
        DEF PipeSpec, BoardRefinement, Board!BoardSpec

=============================================================================
