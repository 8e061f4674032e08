---------------------------- MODULE NodeRegistry ----------------------------
(***************************************************************************)
(* The master's registry of reporting nodes: nodes/registry.go together    *)
(* with the persistent registrations of nodes/nodes_store.go.              *)
(*                                                                         *)
(* Every exported method of Registry takes r.mu once, so it is one step.   *)
(* The exception is the report handler, which takes the lock three times   *)
(* (authenticate, store the report, read the config source): it is three   *)
(* steps of a request goroutine, and other operations run in between.      *)
(***************************************************************************)
EXTENDS Integers, FiniteSets

CONSTANTS
    Names,           \* node names
    Tokens,          \* bearer tokens, as typed by the operator
    StaticCfg,       \* the parsed NODES list: [subset of Names -> Tokens]
    Handlers,        \* goroutines serving POST /api/v1/nodes/report
    Snaps,           \* contents of a report, opaque here
    NoSnap,          \* the empty content of a node that never reported
    Intervals,       \* values a report may carry in CheckIntervalSec
    DefaultInterval, \* 300 in the code: replaces a non-positive interval
    StaleCap,        \* SetStaleCap; 0 = no cap
    StaleGrace,      \* fixed grace on top of the multiplied interval
    MaxSilence,      \* bound: a longer silence is not told apart from it
    FailingOps       \* operations on nodes.json that may fail

StaleMultiplier == 2

HashToken(t) == <<"sha256", t>>

TokenKeys == Tokens \cup {HashToken(t) : t \in Tokens}

\* What a silence is compared with in SweepStale.
Deadline(interval) ==
    LET capped == IF StaleCap > 0 /\ interval > StaleCap THEN StaleCap ELSE interval
    IN  StaleMultiplier * capped + StaleGrace

\* The handler's correction of CheckIntervalSec.
EffectiveIntervalRaw(i) == i     \* mutant: stored as it comes
EffectiveInterval(i) == IF i <= 0 THEN DefaultInterval ELSE i

StoredIntervals == {i \in Intervals : i > 0} \cup {DefaultInterval, 0}

ASSUME ConstantsAssumption ==
    /\ DOMAIN StaticCfg \subseteq Names
    /\ StaticCfg \in [DOMAIN StaticCfg -> Tokens]
    /\ \A m, n \in DOMAIN StaticCfg : StaticCfg[m] = StaticCfg[n] => m = n
    /\ Intervals \subseteq Int
    /\ DefaultInterval \in Nat \ {0}
    /\ StaleCap \in Nat
    /\ StaleGrace \in Nat
    /\ MaxSilence \in Nat
    /\ \A i \in StoredIntervals : Deadline(i) < MaxSilence
    /\ FailingOps \subseteq {"save", "delete", "load"}

\* sha256 is taken to be injective, and no operator types a hash as a token.
ASSUME HashAssumption ==
    /\ \A s, t \in Tokens : HashToken(s) = HashToken(t) => s = t
    /\ \A s, t \in Tokens : HashToken(s) # t

VARIABLES
    nodes,      \* r.nodes: [registered names -> nodeState]
    byToken,    \* r.byToken: [token hashes -> names]
    store,      \* nodes.json, and NodesStore.data once loaded: [names -> hashes]
    loaded,     \* is r.nodesStore set?  It stays nil when the load failed
    mu,         \* r.mu: "free", or "lost" once a goroutine died holding it
    req,        \* the request each handler goroutine is serving
    audits,     \* DOMAIN of r.audits
    (* History, for the properties only. *)
    acked,      \* what the operator was last told of a name
    graceSeen,  \* who got the Disabled=true snapshot of the current outage
    leftover    \* has a removal ever failed to reach the disk?

regVars == <<nodes, byToken, store, loaded, mu, req, audits, acked, graceSeen, leftover>>

Statuses == {"pending", "up", "down"}
Consumers == {"alerts", "view"}

NodeState == [token : TokenKeys, status : Statuses, silence : 0..MaxSilence,
              interval : StoredIntervals, snapshot : Snaps \cup {NoSnap},
              gracePending : BOOLEAN]

\* What the bot confirmed, for which key, and whether the store was written;
\* nothing is confirmed by an error.
NoKey == <<>>
Told(what, key, saved) == [what |-> what, key |-> key, saved |-> saved]
Nothing == Told("nothing", NoKey, FALSE)
Answers == [what : {"nothing", "registered", "removed"},
            key : {NoKey} \cup {HashToken(t) : t \in Tokens}, saved : BOOLEAN]

Idle == [pc |-> "idle"]
Request == {Idle} \cup [pc : {"decode", "reply"}, node : Names]

-----------------------------------------------------------------------------
(* Start of the master.                                                    *)

FreshNode(token) == [token |-> token, status |-> "pending", silence |-> 0,
                     interval |-> 0, snapshot |-> NoSnap, gracePending |-> FALSE]

\* NewRegistry keeps the raw token of a static node in cfg.Token; the names
\* SetNodesStore adds carry the hash.
BootNodes(stored) ==
    [n \in DOMAIN StaticCfg \cup DOMAIN stored |->
        FreshNode(IF n \in DOMAIN StaticCfg THEN StaticCfg[n] ELSE stored[n])]

\* A name from the store overrides a static one with the same hash, and the
\* iteration order of store.All() decides between two names of the store.
BootOwners(stored, key) ==
    LET dynamic == {n \in DOMAIN stored \ DOMAIN StaticCfg : stored[n] = key}
    IN  IF dynamic # {} THEN dynamic
        ELSE {n \in DOMAIN StaticCfg : HashToken(StaticCfg[n]) = key}

BootKeys(stored) == {HashToken(StaticCfg[n]) : n \in DOMAIN StaticCfg}
                        \cup {stored[n] : n \in DOMAIN stored \ DOMAIN StaticCfg}

Boot(stored) ==
    /\ nodes' = BootNodes(stored)
    /\ byToken' \in [BootKeys(stored) -> Names]
    /\ \A k \in BootKeys(stored) : byToken'[k] \in BootOwners(stored, k)
    /\ mu' = "free"
    /\ req' = [h \in Handlers |-> Idle]
    /\ audits' = {}
    /\ graceSeen' = [n \in Names |-> "none"]

EmptyStore == [n \in {} |-> n]

RegInit ==
    /\ store = EmptyStore
    /\ loaded = TRUE
    /\ acked = [n \in Names |-> Nothing]
    /\ nodes = BootNodes(store)
    /\ byToken = [k \in BootKeys(store) |-> CHOOSE n \in BootOwners(store, k) : TRUE]
    /\ mu = "free"
    /\ req = [h \in Handlers |-> Idle]
    /\ audits = {}
    /\ graceSeen = [n \in Names |-> "none"]
    /\ leftover = FALSE

\* The process dies (or is redeployed) and starts again from its files.  A
\* nodes.json that cannot be read or parsed is a warning only: the master runs
\* on without a store, and the file stays as it is.
Restart ==
    /\ \/ Boot(store) /\ loaded' = TRUE
       \/ "load" \in FailingOps /\ Boot(EmptyStore) /\ loaded' = FALSE
    /\ UNCHANGED <<store, acked, leftover>>

-----------------------------------------------------------------------------
(* Registration from the bot: /nodeadd and /nodedel.                       *)

Without(f, k) == [x \in DOMAIN f \ {k} |-> f[x]]
With(f, k, v) == [x \in DOMAIN f \cup {k} |-> IF x = k THEN v ELSE f[x]]

\* RegisterNode refuses a token that is in use.
TokenFreeAnyway(t) == TRUE     \* mutant: only the name is compared
TokenFree(t) == HashToken(t) \notin DOMAIN byToken

\* RemoveNode deletes the key it finds in cfg.Token.
TokensWithoutNone(n) == byToken     \* mutant: the token is left behind
TokensWithout(n) == Without(byToken, nodes[n].token)

\* NodesStore.Delete, when the file can be written.
RecordsWithoutNone(n) == store     \* mutant: the record is left in the store
RecordsWithout(n) == Without(store, n)

\* The maps are changed before the store is written; when the write fails
\* the store rolls itself back and the operator sees the error.  Without a
\* store nothing is written and the operator sees the same success.
RegisterNode(n, t) ==
    /\ mu = "free"
    /\ n \notin DOMAIN nodes
    /\ TokenFree(t)
    /\ nodes' = With(nodes, n, FreshNode(HashToken(t)))
    /\ byToken' = With(byToken, HashToken(t), n)
    /\ \/ /\ loaded
          /\ store' = With(store, n, HashToken(t))
          /\ acked' = [acked EXCEPT ![n] = Told("registered", HashToken(t), TRUE)]
       \/ /\ loaded /\ "save" \in FailingOps
          /\ store' = store
          /\ acked' = [acked EXCEPT ![n] = Nothing]
       \/ /\ ~loaded
          /\ store' = store
          /\ acked' = [acked EXCEPT ![n] = Told("registered", HashToken(t), FALSE)]
    /\ graceSeen' = [graceSeen EXCEPT ![n] = "none"]
    /\ UNCHANGED <<loaded, mu, req, audits, leftover>>

RemoveNode(n) ==
    /\ mu = "free"
    /\ n \in DOMAIN nodes
    /\ byToken' = TokensWithout(n)
    /\ nodes' = Without(nodes, n)
    /\ \/ /\ loaded
          /\ store' = RecordsWithout(n)
          /\ acked' = [acked EXCEPT ![n] = Told("removed", NoKey, TRUE)]
          /\ leftover' = leftover
       \/ /\ loaded /\ "delete" \in FailingOps
          /\ n \in DOMAIN store
          /\ store' = store
          /\ acked' = [acked EXCEPT ![n] = Nothing]
          /\ leftover' = TRUE
       \/ /\ ~loaded
          /\ store' = store
          /\ acked' = [acked EXCEPT ![n] = Told("removed", NoKey, FALSE)]
          /\ leftover' = leftover
    /\ graceSeen' = [graceSeen EXCEPT ![n] = "none"]
    /\ UNCHANGED <<loaded, mu, req, audits>>

-----------------------------------------------------------------------------
(* POST /api/v1/nodes/report.  A request refused before its report is      *)
(* stored (wrong method or token, malformed body) changes nothing.         *)

Authenticate(h, t) ==
    /\ mu = "free"
    /\ req[h] = Idle
    /\ HashToken(t) \in DOMAIN byToken
    /\ req' = [req EXCEPT ![h] = [pc |-> "decode", node |-> byToken[HashToken(t)]]]
    /\ UNCHANGED <<nodes, byToken, store, loaded, mu, audits, acked, graceSeen, leftover>>

BadRequest(h) ==
    /\ req[h].pc = "decode"
    /\ req' = [req EXCEPT ![h] = Idle]
    /\ UNCHANGED <<nodes, byToken, store, loaded, mu, audits, acked, graceSeen, leftover>>

AcceptReport(h, snap, interval, withAudits) ==
    LET n == req[h].node
    IN  /\ mu = "free"
        /\ req[h].pc = "decode"
        /\ n \in DOMAIN nodes
        /\ nodes' = [nodes EXCEPT ![n] =
              [token |-> @.token, status |-> "up", silence |-> 0,
               interval |-> EffectiveInterval(interval), snapshot |-> snap,
               gracePending |-> FALSE]]
        /\ audits' = IF withAudits THEN audits \cup {n} ELSE audits \ {n}
        /\ req' = [req EXCEPT ![h].pc = "reply"]
        /\ graceSeen' = [graceSeen EXCEPT ![n] = "none"]
        /\ UNCHANGED <<byToken, store, loaded, mu, acked, leftover>>

\* r.nodes[name] is nil: the handler panics between Lock and the plain Unlock.
\* net/http recovers the goroutine, and r.mu stays locked.
AcceptUnregistered(h) ==
    /\ mu = "free"
    /\ req[h].pc = "decode"
    /\ req[h].node \notin DOMAIN nodes
    /\ mu' = "lost"
    /\ req' = [req EXCEPT ![h] = Idle]
    /\ UNCHANGED <<nodes, byToken, store, loaded, audits, acked, graceSeen, leftover>>

\* Reading r.cfgSource takes r.mu again before the response is written.
Reply(h) ==
    /\ mu = "free"
    /\ req[h].pc = "reply"
    /\ req' = [req EXCEPT ![h] = Idle]
    /\ UNCHANGED <<nodes, byToken, store, loaded, mu, audits, acked, graceSeen, leftover>>

-----------------------------------------------------------------------------
(* Staleness and the merged snapshot.                                      *)

\* One unit of time passes.  lastReport is compared with the clock only while
\* a node is up, so the silence of the others is left as it is.
Ageing(n) == nodes[n].status = "up" /\ nodes[n].silence < MaxSilence

Tick ==
    /\ \E n \in DOMAIN nodes : Ageing(n)
    /\ nodes' = [n \in DOMAIN nodes |->
          IF Ageing(n) THEN [nodes[n] EXCEPT !.silence = @ + 1] ELSE nodes[n]]
    /\ UNCHANGED <<byToken, store, loaded, mu, req, audits, acked, graceSeen, leftover>>

StaleUncapped(n) ==     \* mutant: the cap is forgotten
    /\ nodes[n].status = "up"
    /\ nodes[n].silence > StaleMultiplier * nodes[n].interval + StaleGrace
StaleOnDeadline(n) ==     \* mutant: off by one
    nodes[n].status = "up" /\ nodes[n].silence >= Deadline(nodes[n].interval)

Stale(n) == nodes[n].status = "up" /\ nodes[n].silence > Deadline(nodes[n].interval)

SweepStale ==
    /\ mu = "free"
    /\ \E n \in DOMAIN nodes : Stale(n)
    /\ nodes' = [n \in DOMAIN nodes |->
          IF Stale(n) THEN [nodes[n] EXCEPT !.status = "down", !.gracePending = TRUE]
                      ELSE nodes[n]]
    /\ UNCHANGED <<byToken, store, loaded, mu, req, audits, acked, graceSeen, leftover>>

\* The names whose proxies a call returns as they are, and with Disabled=true.
MergedUp == {n \in DOMAIN nodes : nodes[n].status = "up"}
MergedDisabled == {n \in DOMAIN nodes : nodes[n].status = "down" /\ nodes[n].gracePending}

GraceLeft(st) == st     \* mutant: the snapshot stays pending
GraceTaken(st) == [st EXCEPT !.gracePending = FALSE]

\* Called by emitSnapshot for the alert pipeline and, through
\* mergedMetricsSource, by every read-only view of the bot.
MergedSnapshot(consumer) ==
    /\ mu = "free"
    /\ MergedDisabled # {}
    /\ nodes' = [n \in DOMAIN nodes |->
          IF n \in MergedDisabled THEN GraceTaken(nodes[n]) ELSE nodes[n]]
    /\ graceSeen' = [n \in Names |->
          IF n \in MergedDisabled THEN consumer ELSE graceSeen[n]]
    /\ UNCHANGED <<byToken, store, loaded, mu, req, audits, acked, leftover>>

RegNext ==
    \/ \E n \in Names, t \in Tokens : RegisterNode(n, t)
    \/ \E n \in Names : RemoveNode(n)
    \/ \E h \in Handlers, t \in Tokens : Authenticate(h, t)
    \/ \E h \in Handlers : BadRequest(h)
    \/ \E h \in Handlers, s \in Snaps, i \in Intervals, a \in BOOLEAN :
          AcceptReport(h, s, i, a)
    \/ \E h \in Handlers : AcceptUnregistered(h)
    \/ \E h \in Handlers : Reply(h)
    \/ Tick
    \/ SweepStale
    \/ \E c \in Consumers : MergedSnapshot(c)
    \/ Restart

\* The sweep job runs every 30 s and time passes; nothing else must happen.
RegFairness == WF_regVars(Tick) /\ WF_regVars(SweepStale)

RegSpec == RegInit /\ [][RegNext]_regVars /\ RegFairness

-----------------------------------------------------------------------------
(* Properties.                                                             *)

\* The types, and a node that has reported has a positive interval.
NodesTyped ==
    /\ DOMAIN nodes \subseteq Names
    /\ nodes \in [DOMAIN nodes -> NodeState]
    /\ \A n \in DOMAIN nodes : nodes[n].status # "pending" => nodes[n].interval > 0

TokensTyped ==
    /\ DOMAIN byToken \subseteq {HashToken(t) : t \in Tokens}
    /\ byToken \in [DOMAIN byToken -> Names]

StoreTyped ==
    /\ DOMAIN store \subseteq Names
    /\ store \in [DOMAIN store -> {HashToken(t) : t \in Tokens}]
    /\ loaded \in BOOLEAN

FlowTyped ==
    /\ mu \in {"free", "lost"}
    /\ req \in [Handlers -> Request]
    /\ audits \subseteq Names

HistoryTyped ==
    /\ acked \in [Names -> Answers]
    /\ graceSeen \in [Names -> {"none"} \cup Consumers]
    /\ leftover \in BOOLEAN

TypeOK == NodesTyped /\ TokensTyped /\ StoreTyped /\ FlowTyped /\ HistoryTyped

\* The key under which byToken must hold a registered node: cfg.Token is raw
\* for a node of the NODES list and a hash for every other one.
KeyOf(n) == IF nodes[n].token \in Tokens THEN HashToken(nodes[n].token)
                                         ELSE nodes[n].token

NodesFound ==
    \A n \in DOMAIN nodes : KeyOf(n) \in DOMAIN byToken /\ byToken[KeyOf(n)] = n

\* Every registered node is found by its own token, through registrations,
\* removals and restarts (RegisterNode, RemoveNode, SetNodesStore), as long as
\* no removal fails to reach the disk: after one, the name comes back with the
\* next restart and may share its token with a node registered meanwhile.
RegisteredNodeAuthenticates ==
    leftover \/ NodesFound

\* Every key of byToken is the key of the registered node it leads to, or the
\* NODES-list token of that very name, whichever removals and other writes
\* fail: no registration, removal or restart leaves a key behind that leads to
\* nobody or to somebody else, except the one RemoveNode cannot delete
\* (RemovedNodeIsRefused below).
KeysHaveOwners ==
    \A k \in DOMAIN byToken :
        \/ byToken[k] \in DOMAIN nodes /\ KeyOf(byToken[k]) = k
        \/ byToken[k] \in DOMAIN StaticCfg /\ k = HashToken(StaticCfg[byToken[k]])

\* An answer of RegisterNode or RemoveNode whose write of nodes.json succeeded
\* stays true on disk through failing writes, failing loads and restarts.  It
\* stays true in memory for a name outside the NODES list (where that list
\* decides), and for a registration as long as the file can be read.
ConfirmedIsOnDisk ==
    \A n \in Names : acked[n].saved =>
        /\ acked[n].what = "registered" =>
              /\ n \in DOMAIN store /\ store[n] = acked[n].key
              /\ loaded /\ n \notin DOMAIN StaticCfg =>
                    n \in DOMAIN nodes /\ nodes[n].token = acked[n].key
        /\ acked[n].what = "removed" =>
              /\ n \notin DOMAIN store
              /\ n \notin DOMAIN StaticCfg => n \notin DOMAIN nodes

\* The Disabled snapshot of an outage is handed out exactly once: it is either
\* still pending or some caller of MergedSnapshot has got it.
GraceHandedOutOnce ==
    \A n \in DOMAIN nodes :
        IF nodes[n].status = "down"
        THEN nodes[n].gracePending <=> graceSeen[n] = "none"
        ELSE ~nodes[n].gracePending /\ graceSeen[n] = "none"

\* SweepStale never declares a node down within its deadline, computed from
\* the interval of its last report and the master's cap.
DownMeansSilent ==
    \A n \in DOMAIN nodes :
        nodes[n].status = "down" => nodes[n].silence > Deadline(nodes[n].interval)

\* A node the registry shows as up for ever keeps reporting, unless the lock
\* is lost: a silent one is swept.
StaysUpOnlyIfReporting ==
    \A n \in Names :
        <>[](n \in DOMAIN nodes /\ nodes[n].status = "up")
            => \/ []<>(n \in DOMAIN nodes /\ nodes[n].silence = 0)
               \/ <>(mu = "lost")

\* "Unregisters a node": whatever report of a removed node is being decoded or
\* comes later, the registry goes on working (HandleReport, RemoveNode).
LockNeverLost == mu = "free"

-----------------------------------------------------------------------------
(* What the repository promises and the code does not keep: TLC refutes     *)
(* each of these on the instance of MCRegistry.cfg (README, section 6).     *)

\* A request that passes the token check is a registered node's: a node
\* removed with /nodedel is refused (RemoveNode, authenticate).
RemovedNodeIsRefused ==
    [][\A h \in Handlers :
          req[h] = Idle /\ req'[h] # Idle => req'[h].node \in DOMAIN nodes]_regVars

\* "Saved to nodes.json": a registration the operator was told of is in the
\* file (RegisterNode, the start of the master).
RegisteredIsSaved ==
    \A n \in Names : acked[n].what = "registered" =>
        n \in DOMAIN store /\ store[n] = acked[n].key

\* "Persists across restarts": a node the operator was told is registered is
\* one, with the token it was registered with (RegisterNode, SetNodesStore).
RegisteredPersists ==
    \A n \in Names : acked[n].what = "registered" =>
        n \in DOMAIN nodes /\ KeyOf(n) = acked[n].key

\* A node the operator was told is removed stays removed until it is
\* registered again (RemoveNode, NewRegistry).
RemovedStaysRemoved ==
    \A n \in Names : acked[n].what = "removed" => n \notin DOMAIN nodes

\* "The alert pipeline then cleans its active alerts": the Disabled snapshot of
\* an outage goes to the alert pipeline and to no view of the bot
\* (MergedSnapshot, mergedMetricsSource).
GraceReachesTheAlerts ==
    \A n \in DOMAIN nodes : nodes[n].status = "down" => graceSeen[n] # "view"

-----------------------------------------------------------------------------
(* The inductive strengthening of the token properties.                    *)

StaticKeysStay ==
    \A s \in DOMAIN StaticCfg :
        /\ HashToken(StaticCfg[s]) \in DOMAIN byToken
        /\ byToken[HashToken(StaticCfg[s])] = s

\* Only a node of the NODES list has a raw token, its own; nobody has the hash
\* of one as cfg.Token, in memory or on disk.
TokenShapes ==
    \A n \in DOMAIN nodes :
        /\ nodes[n].token \in Tokens => n \in DOMAIN StaticCfg /\ nodes[n].token = StaticCfg[n]
        /\ \A s \in DOMAIN StaticCfg : nodes[n].token # HashToken(StaticCfg[s])

Recorded == DOMAIN store \ DOMAIN StaticCfg

StoreShapes ==
    \A n \in Recorded, s \in DOMAIN StaticCfg : store[n] # HashToken(StaticCfg[s])

KeyInv == KeysHaveOwners /\ StaticKeysStay /\ TokenShapes /\ StoreShapes

\* What holds besides unless a removal failed to reach the disk.
StoreMirrored == loaded => \A n \in Recorded : n \in DOMAIN nodes /\ nodes[n].token = store[n]

StoreApart == \A m, n \in Recorded : store[m] = store[n] => m = n

FoundInv == leftover \/ (NodesFound /\ StoreMirrored /\ StoreApart)

=============================================================================
