------------------------ MODULE NodeRegistry_proofs ------------------------
(***************************************************************************)
(* Proofs that the safety properties of NodeRegistry hold for every set of *)
(* names, tokens, handlers and reports, every NODES list and every failure *)
(* of nodes.json.                                                          *)
(***************************************************************************)
EXTENDS NodeRegistry, TLAPS

Hashes == {HashToken(t) : t \in Tokens}

\* A new nodeState is well typed.
LEMMA FreshType ==
    ASSUME NEW t \in TokenKeys
    PROVE  FreshNode(t) \in NodeState /\ FreshNode(t).token = t
                /\ FreshNode(t).status = "pending" /\ ~FreshNode(t).gracePending
BY ConstantsAssumption DEF FreshNode, NodeState, Statuses, StoredIntervals

\* The store of a master that could not load its file is well typed.
LEMMA EmptyStoreType == DOMAIN EmptyStore = {} /\ EmptyStore \in [DOMAIN EmptyStore -> Hashes]
BY DEF EmptyStore

\* The state NewRegistry and SetNodesStore build from any well-typed store.
LEMMA BootType ==
    ASSUME NEW stored, DOMAIN stored \subseteq Names,
           stored \in [DOMAIN stored -> Hashes]
    PROVE  /\ DOMAIN BootNodes(stored) = DOMAIN StaticCfg \cup DOMAIN stored
           /\ DOMAIN BootNodes(stored) \subseteq Names
           /\ BootNodes(stored) \in [DOMAIN BootNodes(stored) -> NodeState]
           /\ \A n \in DOMAIN BootNodes(stored) :
                 /\ BootNodes(stored)[n].status = "pending"
                 /\ ~BootNodes(stored)[n].gracePending
                 /\ BootNodes(stored)[n].token =
                       IF n \in DOMAIN StaticCfg THEN StaticCfg[n] ELSE stored[n]
           /\ BootKeys(stored) \subseteq Hashes
<1> DEFINE tok(n) == IF n \in DOMAIN StaticCfg THEN StaticCfg[n] ELSE stored[n]
<1>1. \A n \in DOMAIN StaticCfg \cup DOMAIN stored : tok(n) \in TokenKeys
  BY ConstantsAssumption DEF TokenKeys, Hashes
<1>2. \A n \in DOMAIN StaticCfg \cup DOMAIN stored :
         /\ FreshNode(tok(n)) \in NodeState
         /\ FreshNode(tok(n)).token = tok(n)
         /\ FreshNode(tok(n)).status = "pending"
         /\ ~FreshNode(tok(n)).gracePending
  BY <1>1, FreshType
<1>3. BootNodes(stored) = [n \in DOMAIN StaticCfg \cup DOMAIN stored |-> FreshNode(tok(n))]
  BY DEF BootNodes
<1>4. BootKeys(stored) \subseteq Hashes
  BY ConstantsAssumption DEF BootKeys, Hashes
<1> HIDE DEF tok
<1>5. DOMAIN StaticCfg \cup DOMAIN stored \subseteq Names
  BY ConstantsAssumption
<1>6. /\ DOMAIN BootNodes(stored) = DOMAIN StaticCfg \cup DOMAIN stored
      /\ BootNodes(stored) \in [DOMAIN BootNodes(stored) -> NodeState]
  BY <1>2, <1>3
<1>7. \A n \in DOMAIN BootNodes(stored) :
         /\ BootNodes(stored)[n].status = "pending"
         /\ ~BootNodes(stored)[n].gracePending
         /\ BootNodes(stored)[n].token = tok(n)
  BY <1>2, <1>3
<1> QED BY <1>4, <1>5, <1>6, <1>7 DEF tok

-----------------------------------------------------------------------------
(* The type invariant.                                                     *)

\* The initial states are well typed.
LEMMA TypeInit == RegInit => TypeOK
<1> SUFFICES ASSUME RegInit PROVE TypeOK
  OBVIOUS
<1>1. store \in [DOMAIN store -> Hashes] /\ DOMAIN store = {}
  BY DEF RegInit, EmptyStore
<1>2. /\ DOMAIN nodes \subseteq Names
      /\ nodes \in [DOMAIN nodes -> NodeState]
      /\ \A n \in DOMAIN nodes : nodes[n].status = "pending"
      /\ BootKeys(store) \subseteq Hashes
  BY <1>1, BootType DEF RegInit
<1>3. \A k \in BootKeys(store) : BootOwners(store, k) # {} /\ BootOwners(store, k) \subseteq Names
  BY <1>1, ConstantsAssumption DEF BootKeys, BootOwners
<1>4. /\ DOMAIN byToken = BootKeys(store)
      /\ \A k \in BootKeys(store) : byToken[k] \in Names
  BY <1>3 DEF RegInit
<1>5. byToken \in [DOMAIN byToken -> Names]
  BY <1>4 DEF RegInit
<1> QED
  BY <1>1, <1>2, <1>4, <1>5 DEF RegInit, TypeOK, NodesTyped, TokensTyped, StoreTyped,
      FlowTyped, HistoryTyped, Hashes, Request, Idle, Consumers, Answers, Nothing, Told

\* What the sweep, the clock and MergedSnapshot do to a nodeState keeps its
\* type.
LEMMA StateSteps ==
    ASSUME NEW st \in NodeState
    PROVE  /\ [st EXCEPT !.status = "down", !.gracePending = TRUE] \in NodeState
           /\ GraceTaken(st) \in NodeState
           /\ st.silence < MaxSilence => [st EXCEPT !.silence = @ + 1] \in NodeState
<1> USE DEF NodeState, Statuses
<1>1. [st EXCEPT !.status = "down", !.gracePending = TRUE] \in NodeState
  OBVIOUS
<1>2. GraceTaken(st) \in NodeState
  BY DEF GraceTaken
<1>3. ASSUME st.silence < MaxSilence PROVE [st EXCEPT !.silence = @ + 1] \in NodeState
  <2>1. st.silence + 1 \in 0..MaxSilence
    BY <1>3, ConstantsAssumption
  <2> QED BY <2>1
<1> QED BY <1>1, <1>2, <1>3

\* What the bot may have said is well typed.
LEMMA AnswerTypes ==
    /\ Nothing \in Answers
    /\ \A saved \in BOOLEAN : Told("removed", NoKey, saved) \in Answers
    /\ \A saved \in BOOLEAN, t \in Tokens : Told("registered", HashToken(t), saved) \in Answers
BY DEF Nothing, Told, Answers

\* Every step of the registry keeps the type invariant (one step per action).
LEMMA TypeNext == TypeOK /\ [RegNext]_regVars => TypeOK'
<1> SUFFICES ASSUME NodesTyped, TokensTyped, StoreTyped, FlowTyped, HistoryTyped,
                    [RegNext]_regVars
             PROVE  TypeOK'
  BY DEF TypeOK
<1>1. ASSUME NEW n \in Names, NEW t \in Tokens, RegisterNode(n, t) PROVE TypeOK'
  <2>1. HashToken(t) \in Hashes /\ HashToken(t) \in TokenKeys
    BY DEF Hashes, TokenKeys
  <2>2. FreshNode(HashToken(t)) \in NodeState /\ FreshNode(HashToken(t)).status = "pending"
    BY <2>1, FreshType
  <2>3. /\ nodes' = With(nodes, n, FreshNode(HashToken(t)))
        /\ byToken' = With(byToken, HashToken(t), n)
        /\ store' = store \/ store' = With(store, n, HashToken(t))
    BY <1>1 DEF RegisterNode
  <2>4. NodesTyped'
    BY <2>2, <2>3 DEF NodesTyped, With
  <2>5. TokensTyped'
    BY <2>1, <2>3 DEF TokensTyped, Hashes, With
  <2>6. StoreTyped'
    <3> loaded' \in BOOLEAN
      BY <1>1 DEF RegisterNode, StoreTyped
    <3>1. CASE store' = store
      BY <3>1 DEF StoreTyped
    <3>2. CASE store' = With(store, n, HashToken(t))
      BY <3>2, <2>1 DEF StoreTyped, Hashes, With
    <3> QED BY <2>3, <3>1, <3>2
  <2>7. FlowTyped' /\ graceSeen' \in [Names -> {"none"} \cup Consumers] /\ leftover' \in BOOLEAN
    BY <1>1 DEF RegisterNode, FlowTyped, HistoryTyped
  <2>8. \E told \in Answers : acked' = [acked EXCEPT ![n] = told]
    BY <1>1, AnswerTypes DEF RegisterNode
  <2>9. HistoryTyped'
    BY <2>7, <2>8 DEF HistoryTyped
  <2> QED BY <2>4, <2>5, <2>6, <2>7, <2>9 DEF TypeOK
<1>2. ASSUME NEW n \in Names, RemoveNode(n) PROVE TypeOK'
  <2>1. /\ nodes' = Without(nodes, n)
        /\ byToken' = Without(byToken, nodes[n].token)
        /\ store' = store \/ store' = Without(store, n)
    BY <1>2 DEF RemoveNode, TokensWithout, RecordsWithout
  <2>2. NodesTyped'
    BY <2>1 DEF NodesTyped, Without
  <2>3. TokensTyped'
    BY <2>1 DEF TokensTyped, Without
  <2>4. StoreTyped'
    <3> loaded' \in BOOLEAN
      BY <1>2 DEF RemoveNode, StoreTyped
    <3>1. CASE store' = store
      BY <3>1 DEF StoreTyped
    <3>2. CASE store' = Without(store, n)
      BY <3>2 DEF StoreTyped, Without
    <3> QED BY <2>1, <3>1, <3>2
  <2>5. FlowTyped' /\ graceSeen' \in [Names -> {"none"} \cup Consumers] /\ leftover' \in BOOLEAN
    BY <1>2 DEF RemoveNode, FlowTyped, HistoryTyped
  <2>6. \E told \in Answers : acked' = [acked EXCEPT ![n] = told]
    BY <1>2, AnswerTypes DEF RemoveNode
  <2>7. HistoryTyped'
    BY <2>5, <2>6 DEF HistoryTyped
  <2> QED BY <2>2, <2>3, <2>4, <2>5, <2>7 DEF TypeOK
<1>3. ASSUME NEW h \in Handlers, NEW t \in Tokens, Authenticate(h, t) PROVE TypeOK'
  BY <1>3 DEF Authenticate, Request, TypeOK, NodesTyped, TokensTyped, StoreTyped,
              FlowTyped, HistoryTyped
<1>4. ASSUME NEW h \in Handlers, BadRequest(h) \/ Reply(h) \/ AcceptUnregistered(h)
      PROVE  TypeOK'
  BY <1>4 DEF BadRequest, Reply, AcceptUnregistered, Request, TypeOK, NodesTyped,
              TokensTyped, StoreTyped, FlowTyped, HistoryTyped
<1>5. ASSUME NEW h \in Handlers, NEW s \in Snaps, NEW i \in Intervals, NEW a \in BOOLEAN,
             AcceptReport(h, s, i, a)
      PROVE  TypeOK'
  <2> DEFINE n == req[h].node
             new == [token |-> nodes[n].token, status |-> "up", silence |-> 0,
                     interval |-> EffectiveInterval(i), snapshot |-> s,
                     gracePending |-> FALSE]
  <2>1. EffectiveInterval(i) \in StoredIntervals /\ EffectiveInterval(i) > 0
    BY ConstantsAssumption DEF EffectiveInterval, StoredIntervals
  <2>2. n \in DOMAIN nodes /\ nodes' = [nodes EXCEPT ![n] = new]
    BY <1>5 DEF AcceptReport
  <2>3. new \in NodeState /\ new.interval > 0
    BY <2>1, <2>2, ConstantsAssumption DEF NodeState, Statuses, NodesTyped
  <2> HIDE DEF new
  <2>4. NodesTyped'
    BY <2>2, <2>3 DEF NodesTyped
  <2>5. req' \in [Handlers -> Request]
    <3>1. req[h] \in [pc : {"decode", "reply"}, node : Names]
      BY <1>5 DEF AcceptReport, Request, Idle, FlowTyped
    <3> QED BY <1>5, <3>1 DEF AcceptReport, Request, FlowTyped
  <2>6. n \in Names
    BY <2>2 DEF NodesTyped
  <2> QED BY <1>5, <2>4, <2>5, <2>6
          DEF AcceptReport, TypeOK, TokensTyped, StoreTyped, FlowTyped, HistoryTyped
<1>6. ASSUME Tick PROVE TypeOK'
  <2>1. DOMAIN nodes' = DOMAIN nodes
    BY <1>6 DEF Tick
  <2>2. ASSUME NEW n \in DOMAIN nodes
        PROVE  /\ nodes'[n] \in NodeState
               /\ nodes'[n].status = nodes[n].status
               /\ nodes'[n].interval = nodes[n].interval
    <3>1. nodes[n] \in NodeState
      BY DEF NodesTyped
    <3>2. CASE Ageing(n)
      <4>1. nodes'[n] = [nodes[n] EXCEPT !.silence = @ + 1]
        BY <1>6, <3>2 DEF Tick
      <4>2. nodes'[n] \in NodeState
        BY <3>1, <3>2, <4>1, StateSteps DEF Ageing
      <4> QED BY <3>1, <4>1, <4>2 DEF NodeState
    <3>3. CASE ~Ageing(n)
      BY <1>6, <3>1, <3>3 DEF Tick
    <3> QED BY <3>2, <3>3
  <2>3. nodes' \in [DOMAIN nodes' -> NodeState]
    BY <1>6, <2>1, <2>2 DEF Tick
  <2> QED BY <1>6, <2>1, <2>2, <2>3 DEF Tick, TypeOK, NodesTyped, TokensTyped,
          StoreTyped, FlowTyped, HistoryTyped
<1>7. ASSUME SweepStale PROVE TypeOK'
  <2>1. DOMAIN nodes' = DOMAIN nodes
    BY <1>7 DEF SweepStale
  <2>2. ASSUME NEW n \in DOMAIN nodes
        PROVE  /\ nodes'[n] \in NodeState
               /\ nodes'[n].interval = nodes[n].interval
               /\ nodes'[n].status # "pending" => nodes[n].status # "pending"
    <3>1. nodes[n] \in NodeState
      BY DEF NodesTyped
    <3>2. CASE Stale(n)
      <4>1. nodes'[n] = [nodes[n] EXCEPT !.status = "down", !.gracePending = TRUE]
        BY <1>7, <3>2 DEF SweepStale
      <4>2. nodes'[n] \in NodeState
        BY <3>1, <4>1, StateSteps
      <4> QED BY <3>1, <3>2, <4>1, <4>2 DEF NodeState, Stale
    <3>3. CASE ~Stale(n)
      BY <1>7, <3>1, <3>3 DEF SweepStale
    <3> QED BY <3>2, <3>3
  <2>3. nodes' \in [DOMAIN nodes' -> NodeState]
    BY <1>7, <2>1, <2>2 DEF SweepStale
  <2> QED BY <1>7, <2>1, <2>2, <2>3 DEF SweepStale, TypeOK, NodesTyped, TokensTyped,
          StoreTyped, FlowTyped, HistoryTyped
<1>8. ASSUME NEW c \in Consumers, MergedSnapshot(c) PROVE TypeOK'
  <2>1. DOMAIN nodes' = DOMAIN nodes
    BY <1>8 DEF MergedSnapshot
  <2>2. ASSUME NEW n \in DOMAIN nodes
        PROVE  /\ nodes'[n] \in NodeState
               /\ nodes'[n].interval = nodes[n].interval
               /\ nodes'[n].status = nodes[n].status
    <3>1. nodes[n] \in NodeState /\ GraceTaken(nodes[n]) \in NodeState
      BY StateSteps DEF NodesTyped
    <3>2. nodes'[n] = nodes[n] \/ nodes'[n] = GraceTaken(nodes[n])
      BY <1>8 DEF MergedSnapshot
    <3> QED BY <3>1, <3>2 DEF GraceTaken, NodeState
  <2>3. nodes' \in [DOMAIN nodes' -> NodeState]
    BY <1>8, <2>1, <2>2 DEF MergedSnapshot
  <2>4. NodesTyped'
    BY <2>1, <2>2, <2>3 DEF NodesTyped
  <2> QED BY <1>8, <2>4 DEF MergedSnapshot, TypeOK, TokensTyped, StoreTyped,
          FlowTyped, HistoryTyped
<1>9. ASSUME Restart PROVE TypeOK'
  <2>1. PICK stored \in {store, EmptyStore} : Boot(stored)
    BY <1>9 DEF Restart
  <2>2. DOMAIN stored \subseteq Names /\ stored \in [DOMAIN stored -> Hashes]
    BY <2>1, EmptyStoreType DEF StoreTyped, Hashes
  <2>3. NodesTyped' /\ BootKeys(stored) \subseteq Hashes
    BY <2>1, <2>2, BootType DEF Boot, NodesTyped
  <2>4. TokensTyped'
    BY <2>1, <2>3 DEF Boot, TokensTyped, Hashes
  <2>5. FlowTyped'
    BY <2>1 DEF Boot, FlowTyped, Request, Idle
  <2>6. StoreTyped'
    BY <1>9 DEF Restart, StoreTyped
  <2>7. HistoryTyped'
    BY <1>9, <2>1 DEF Restart, Boot, HistoryTyped, Consumers
  <2> QED BY <2>3, <2>4, <2>5, <2>6, <2>7 DEF TypeOK
<1>10. CASE UNCHANGED regVars
  BY <1>10 DEF regVars, TypeOK, NodesTyped, TokensTyped, StoreTyped, FlowTyped, HistoryTyped
<1> QED
  BY <1>1, <1>2, <1>3, <1>4, <1>5, <1>6, <1>7, <1>8, <1>9, <1>10 DEF RegNext

\* Every reachable state of the registry is well typed, and a node that has
\* reported has a positive interval, so its deadline is never just the grace.
THEOREM RegistryTypeCorrect == RegSpec => []TypeOK
<1>1. RegInit => TypeOK
  BY TypeInit
<1>2. TypeOK /\ [RegNext]_regVars => TypeOK'
  BY TypeNext
<1> QED BY <1>1, <1>2, PTL DEF RegSpec

-----------------------------------------------------------------------------
(* Tokens and names.                                                       *)

\* The parts of the inductive invariant that need every removal to reach the
\* disk.
Found == NodesFound /\ StoreMirrored /\ StoreApart

\* A hash is no token, so a raw token never equals a stored key.
LEMMA HashesAreNotTokens == Hashes \cap Tokens = {}
BY HashAssumption DEF Hashes

\* The names and keys of a master started from a given set of records.
LEMMA BootFacts ==
    ASSUME NEW stored, DOMAIN stored \subseteq Names,
           stored \in [DOMAIN stored -> Hashes], Boot(stored)
    PROVE  /\ DOMAIN nodes' = DOMAIN StaticCfg \cup DOMAIN stored
           /\ \A n \in DOMAIN nodes' :
                 nodes'[n].token = IF n \in DOMAIN StaticCfg THEN StaticCfg[n] ELSE stored[n]
           /\ \A n \in DOMAIN nodes' :
                 KeyOf(n)' = IF n \in DOMAIN StaticCfg THEN HashToken(StaticCfg[n]) ELSE stored[n]
           /\ DOMAIN byToken' = BootKeys(stored)
           /\ \A k \in DOMAIN byToken' : byToken'[k] \in BootOwners(stored, k)
<1>1. /\ DOMAIN nodes' = DOMAIN StaticCfg \cup DOMAIN stored
      /\ \A n \in DOMAIN nodes' :
            nodes'[n].token = IF n \in DOMAIN StaticCfg THEN StaticCfg[n] ELSE stored[n]
  BY BootType DEF Boot
<1>2. \A n \in DOMAIN StaticCfg : StaticCfg[n] \in Tokens
  BY ConstantsAssumption
<1>3. \A n \in DOMAIN stored : stored[n] \notin Tokens
  BY HashesAreNotTokens
<1>4. \A n \in DOMAIN nodes' :
         KeyOf(n)' = IF n \in DOMAIN StaticCfg THEN HashToken(StaticCfg[n]) ELSE stored[n]
  BY <1>1, <1>2, <1>3 DEF KeyOf
<1>5. DOMAIN byToken' = BootKeys(stored)
  BY DEF Boot
<1>6. \A k \in DOMAIN byToken' : byToken'[k] \in BootOwners(stored, k)
  BY <1>5 DEF Boot
<1> QED BY <1>1, <1>4, <1>5, <1>6

\* A start from records that hold no token of the NODES list makes every key
\* that of a registered node.
LEMMA BootKeyInv ==
    ASSUME NEW stored, DOMAIN stored \subseteq Names,
           stored \in [DOMAIN stored -> Hashes], Boot(stored), UNCHANGED store, StoreShapes,
           \A n \in DOMAIN stored \ DOMAIN StaticCfg, s \in DOMAIN StaticCfg :
              stored[n] # HashToken(StaticCfg[s])
    PROVE  KeyInv'
<1>0. /\ DOMAIN nodes' = DOMAIN StaticCfg \cup DOMAIN stored
      /\ \A n \in DOMAIN nodes' :
            nodes'[n].token = IF n \in DOMAIN StaticCfg THEN StaticCfg[n] ELSE stored[n]
      /\ \A n \in DOMAIN nodes' :
            KeyOf(n)' = IF n \in DOMAIN StaticCfg THEN HashToken(StaticCfg[n]) ELSE stored[n]
      /\ DOMAIN byToken' = BootKeys(stored)
      /\ \A k \in DOMAIN byToken' : byToken'[k] \in BootOwners(stored, k)
  BY BootFacts
<1>1. \A n \in DOMAIN StaticCfg : StaticCfg[n] \in Tokens
  BY ConstantsAssumption
<1>2. \A n \in DOMAIN stored : stored[n] \in Hashes /\ stored[n] \notin Tokens
  BY HashesAreNotTokens
<1>3. KeysHaveOwners'
  <2> SUFFICES ASSUME NEW k \in DOMAIN byToken'
               PROVE  (byToken[k] \in DOMAIN nodes /\ KeyOf(byToken[k]) = k)'
    BY DEF KeysHaveOwners
  <2>1. byToken'[k] \in BootOwners(stored, k)
    BY <1>0
  <2>2. CASE byToken'[k] \in DOMAIN stored \ DOMAIN StaticCfg /\ stored[byToken'[k]] = k
    BY <2>2, <1>0 DEF KeyOf
  <2>3. CASE byToken'[k] \in DOMAIN StaticCfg /\ HashToken(StaticCfg[byToken'[k]]) = k
    BY <2>3, <1>0 DEF KeyOf
  <2> QED BY <2>1, <2>2, <2>3 DEF BootOwners
<1>4. StaticKeysStay'
  <2> SUFFICES ASSUME NEW s \in DOMAIN StaticCfg
               PROVE  /\ HashToken(StaticCfg[s]) \in DOMAIN byToken'
                      /\ byToken'[HashToken(StaticCfg[s])] = s
    BY DEF StaticKeysStay
  <2>1. HashToken(StaticCfg[s]) \in BootKeys(stored)
    BY DEF BootKeys
  <2>2. BootOwners(stored, HashToken(StaticCfg[s])) = {s}
    BY <1>1, ConstantsAssumption, HashAssumption DEF BootOwners
  <2> QED BY <2>1, <2>2, <1>0
<1>5. TokenShapes'
  <2> SUFFICES ASSUME NEW n \in DOMAIN nodes'
               PROVE  /\ nodes'[n].token \in Tokens =>
                            n \in DOMAIN StaticCfg /\ nodes'[n].token = StaticCfg[n]
                      /\ \A s \in DOMAIN StaticCfg :
                            nodes'[n].token # HashToken(StaticCfg[s])
    BY DEF TokenShapes
  <2>1. CASE n \in DOMAIN StaticCfg
    BY <1>0, <1>1, <2>1, HashAssumption
  <2>2. CASE n \in DOMAIN stored \ DOMAIN StaticCfg
    BY <1>0, <1>2, <2>2
  <2> QED BY <1>0, <2>1, <2>2
<1>6. StoreShapes'
  BY DEF StoreShapes, Recorded
<1> QED BY <1>3, <1>4, <1>5, <1>6 DEF KeyInv

\* A start from records that besides are pairwise different finds every node.
LEMMA BootFound ==
    ASSUME NEW stored, DOMAIN stored \subseteq Names,
           stored \in [DOMAIN stored -> Hashes], Boot(stored),
           \A n \in DOMAIN stored \ DOMAIN StaticCfg, s \in DOMAIN StaticCfg :
              stored[n] # HashToken(StaticCfg[s]),
           \A m, n \in DOMAIN stored \ DOMAIN StaticCfg : stored[m] = stored[n] => m = n
    PROVE  NodesFound'
<1>0. /\ DOMAIN nodes' = DOMAIN StaticCfg \cup DOMAIN stored
      /\ \A n \in DOMAIN nodes' :
            nodes'[n].token = IF n \in DOMAIN StaticCfg THEN StaticCfg[n] ELSE stored[n]
      /\ \A n \in DOMAIN nodes' :
            KeyOf(n)' = IF n \in DOMAIN StaticCfg THEN HashToken(StaticCfg[n]) ELSE stored[n]
      /\ DOMAIN byToken' = BootKeys(stored)
      /\ \A k \in DOMAIN byToken' : byToken'[k] \in BootOwners(stored, k)
  BY BootFacts
<1>1. \A n \in DOMAIN StaticCfg : StaticCfg[n] \in Tokens
  BY ConstantsAssumption
<1>2. ASSUME NEW n \in DOMAIN StaticCfg
      PROVE  /\ HashToken(StaticCfg[n]) \in DOMAIN byToken'
             /\ byToken'[HashToken(StaticCfg[n])] = n
  <2>1. HashToken(StaticCfg[n]) \in BootKeys(stored)
    BY DEF BootKeys
  <2>2. BootOwners(stored, HashToken(StaticCfg[n])) = {n}
    BY <1>1, ConstantsAssumption, HashAssumption DEF BootOwners
  <2> QED BY <2>1, <2>2, <1>0
<1>3. ASSUME NEW n \in DOMAIN stored \ DOMAIN StaticCfg
      PROVE  stored[n] \in DOMAIN byToken' /\ byToken'[stored[n]] = n
  <2>1. stored[n] \in BootKeys(stored)
    BY DEF BootKeys
  <2>2. BootOwners(stored, stored[n]) = {n}
    BY DEF BootOwners
  <2> QED BY <2>1, <2>2, <1>0
<1>4. /\ DOMAIN nodes' = DOMAIN StaticCfg \cup DOMAIN stored
      /\ \A n \in DOMAIN nodes' :
            KeyOf(n)' = IF n \in DOMAIN StaticCfg THEN HashToken(StaticCfg[n]) ELSE stored[n]
  BY <1>0
<1> QED BY <1>2, <1>3, <1>4 DEF NodesFound, KeyOf

\* Restart keeps what holds of the keys, and what holds of the nodes.
LEMMA TokenRestart ==
    ASSUME TypeOK, KeyInv, Restart
    PROVE  KeyInv' /\ (Found => Found')
<1>2. ASSUME Boot(EmptyStore), UNCHANGED store, ~loaded'
      PROVE  KeyInv' /\ (Found => Found')
  <2>1. KeyInv' /\ NodesFound'
    BY <1>2, EmptyStoreType, BootKeyInv, BootFound DEF KeyInv
  <2> QED BY <1>2, <2>1 DEF Found, StoreMirrored, StoreApart, Recorded
<1>3. ASSUME Boot(store), UNCHANGED store
      PROVE  KeyInv' /\ (Found => Found')
  <2>1. DOMAIN store \subseteq Names /\ store \in [DOMAIN store -> Hashes]
    BY DEF TypeOK, StoreTyped, Hashes
  <2>2. \A n \in DOMAIN store \ DOMAIN StaticCfg, s \in DOMAIN StaticCfg :
           store[n] # HashToken(StaticCfg[s])
    BY DEF KeyInv, StoreShapes, Recorded
  <2>3. KeyInv'
    BY <1>3, <2>1, <2>2, BootKeyInv DEF KeyInv
  <2>4. ASSUME Found PROVE NodesFound'
    BY <1>3, <2>1, <2>2, <2>4, BootFound DEF Found, StoreApart, Recorded
  <2>5. StoreMirrored'
    BY <1>3, <2>1, BootFacts DEF StoreMirrored, Recorded
  <2> QED BY <1>3, <2>3, <2>4, <2>5 DEF Found, StoreApart, Recorded
<1> QED BY <1>2, <1>3 DEF Restart

\* A step that leaves the names, their tokens, the keys and the store alone.
LEMMA TokensKept ==
    ASSUME DOMAIN nodes' = DOMAIN nodes,
           \A n \in DOMAIN nodes : nodes'[n].token = nodes[n].token,
           UNCHANGED <<byToken, store, loaded>>
    PROVE  (KeyInv => KeyInv') /\ (Found => Found')
<1>1. \A n \in DOMAIN nodes : KeyOf(n)' = KeyOf(n)
  BY DEF KeyOf
<1> QED BY <1>1 DEF KeyInv, Found, NodesFound, KeysHaveOwners, StaticKeysStay, TokenShapes,
        StoreShapes, StoreMirrored, StoreApart, Recorded

\* The token invariants hold after the first boot.
LEMMA TokenInit == RegInit => KeyInv /\ Found
<1> SUFFICES ASSUME RegInit PROVE KeyInv /\ Found
  OBVIOUS
<1>1. DOMAIN store = {} /\ store \in [DOMAIN store -> Hashes]
  BY DEF RegInit, EmptyStore
<1>2. /\ DOMAIN nodes = DOMAIN StaticCfg
      /\ \A n \in DOMAIN nodes : nodes[n].token = StaticCfg[n]
  BY <1>1, BootType DEF RegInit
<1>3. \A n \in DOMAIN StaticCfg : StaticCfg[n] \in Tokens
  BY ConstantsAssumption
<1>4. \A n \in DOMAIN nodes : KeyOf(n) = HashToken(StaticCfg[n])
  BY <1>2, <1>3 DEF KeyOf
<1>5. BootKeys(store) = {HashToken(StaticCfg[n]) : n \in DOMAIN StaticCfg}
  BY <1>1 DEF BootKeys
<1>6. \A n \in DOMAIN StaticCfg : BootOwners(store, HashToken(StaticCfg[n])) = {n}
  BY <1>1, <1>3, ConstantsAssumption, HashAssumption DEF BootOwners
<1>7. DOMAIN byToken = BootKeys(store)
  BY DEF RegInit
<1>8. \A n \in DOMAIN StaticCfg : byToken[HashToken(StaticCfg[n])] = n
  <2> SUFFICES ASSUME NEW n \in DOMAIN StaticCfg
               PROVE  byToken[HashToken(StaticCfg[n])] = n
    OBVIOUS
  <2>1. byToken[HashToken(StaticCfg[n])]
           = CHOOSE m \in BootOwners(store, HashToken(StaticCfg[n])) : TRUE
    BY <1>5 DEF RegInit
  <2> QED BY <2>1, <1>6
<1>9. NodesFound /\ StaticKeysStay /\ KeysHaveOwners
  BY <1>2, <1>4, <1>5, <1>7, <1>8 DEF NodesFound, StaticKeysStay, KeysHaveOwners
<1>10. TokenShapes
  BY <1>2, <1>3, HashAssumption DEF TokenShapes
<1> QED BY <1>1, <1>9, <1>10 DEF KeyInv, Found, StoreShapes, StoreMirrored, StoreApart, Recorded

\* RegisterNode keeps the token invariants.
LEMMA TokenRegister ==
    ASSUME TypeOK, KeyInv, NEW n \in Names, NEW t \in Tokens, RegisterNode(n, t)
    PROVE  KeyInv' /\ (Found => Found')
<1>0. store' = store \/ (store' = With(store, n, HashToken(t)) /\ loaded)
  BY Zenon DEF RegisterNode
<1>1. /\ n \notin DOMAIN nodes /\ HashToken(t) \notin DOMAIN byToken
      /\ nodes' = With(nodes, n, FreshNode(HashToken(t)))
      /\ byToken' = With(byToken, HashToken(t), n)
      /\ loaded' = loaded
  BY DEF RegisterNode, TokenFree
<1>2. HashToken(t) \in Hashes /\ HashToken(t) \in TokenKeys /\ HashToken(t) \notin Tokens
  BY HashAssumption DEF Hashes, TokenKeys
<1>3. /\ DOMAIN nodes' = DOMAIN nodes \cup {n}
      /\ nodes'[n].token = HashToken(t)
      /\ \A m \in DOMAIN nodes : nodes'[m] = nodes[m]
  BY <1>1, <1>2, FreshType DEF With
<1>4. /\ DOMAIN byToken' = DOMAIN byToken \cup {HashToken(t)}
      /\ byToken'[HashToken(t)] = n
      /\ \A k \in DOMAIN byToken : byToken'[k] = byToken[k]
  BY <1>1 DEF With
<1>5. KeyOf(n)' = HashToken(t) /\ \A m \in DOMAIN nodes : KeyOf(m)' = KeyOf(m)
  BY <1>2, <1>3 DEF KeyOf
<1>6. \A s \in DOMAIN StaticCfg : HashToken(t) # HashToken(StaticCfg[s])
  BY <1>1 DEF KeyInv, StaticKeysStay
<1>7. \/ store' = store
      \/ /\ loaded /\ DOMAIN store' = DOMAIN store \cup {n} /\ store'[n] = HashToken(t)
         /\ \A m \in DOMAIN store : m # n => store'[m] = store[m]
  BY <1>0 DEF With
<1>8. KeyInv'
  <2>1. KeysHaveOwners'
    BY <1>1, <1>3, <1>4, <1>5 DEF KeysHaveOwners, KeyInv
  <2>2. StaticKeysStay'
    BY <1>4 DEF StaticKeysStay, KeyInv
  <2>3. TokenShapes'
    BY <1>1, <1>2, <1>3, <1>6 DEF TokenShapes, KeyInv
  <2>4. StoreShapes'
    BY <1>6, <1>7 DEF StoreShapes, Recorded, KeyInv
  <2> QED BY <2>1, <2>2, <2>3, <2>4 DEF KeyInv
<1>9. ASSUME Found PROVE Found'
  <2>1. NodesFound'
    BY <1>1, <1>3, <1>4, <1>5, <1>9 DEF NodesFound, Found
  <2>2. StoreMirrored'
    BY <1>1, <1>3, <1>7, <1>9 DEF StoreMirrored, Recorded, Found
  <2>3. ASSUME loaded, NEW m \in Recorded PROVE store[m] # HashToken(t) /\ m # n
    <3>1. m \in DOMAIN nodes /\ nodes[m].token = store[m] /\ store[m] \in Hashes
      BY <1>9, <2>3 DEF Found, StoreMirrored, Recorded, TypeOK, StoreTyped, Hashes
    <3>2. KeyOf(m) = store[m]
      BY <3>1, HashesAreNotTokens DEF KeyOf
    <3> QED BY <1>1, <1>9, <3>1, <3>2 DEF Found, NodesFound
  <2>4. StoreApart'
    BY <1>7, <1>9, <2>3 DEF StoreApart, Recorded, Found
  <2> QED BY <2>1, <2>2, <2>4 DEF Found
<1> QED BY <1>8, <1>9

\* RemoveNode keeps the token invariants, the second one if it reaches the disk.
LEMMA TokenRemove ==
    ASSUME TypeOK, KeyInv, NEW n \in Names, RemoveNode(n)
    PROVE  KeyInv' /\ (Found /\ ~leftover' => Found')
<1>1. /\ n \in DOMAIN nodes
      /\ nodes' = Without(nodes, n)
      /\ byToken' = Without(byToken, nodes[n].token)
      /\ store' = store \/ store' = Without(store, n)
      /\ loaded' = loaded
      /\ ~leftover' /\ loaded => store' = Without(store, n)
  BY DEF RemoveNode, TokensWithout, RecordsWithout
<1>2. /\ DOMAIN nodes' = DOMAIN nodes \ {n}
      /\ \A m \in DOMAIN nodes' : nodes'[m] = nodes[m]
  BY <1>1 DEF Without
<1>3. /\ DOMAIN byToken' = DOMAIN byToken \ {nodes[n].token}
      /\ \A k \in DOMAIN byToken' : byToken'[k] = byToken[k]
  BY <1>1 DEF Without
<1>4. \A m \in DOMAIN nodes' : KeyOf(m)' = KeyOf(m)
  BY <1>2 DEF KeyOf
<1>5. nodes[n].token \in Tokens => nodes[n].token \notin DOMAIN byToken
  BY HashesAreNotTokens DEF TypeOK, TokensTyped, Hashes
<1>6. nodes[n].token \notin Tokens => KeyOf(n) = nodes[n].token
  BY DEF KeyOf
<1>7. /\ DOMAIN store' \subseteq DOMAIN store
      /\ \A m \in DOMAIN store' : store'[m] = store[m]
  BY <1>1 DEF Without
<1>8. KeysHaveOwners'
  <2> SUFFICES ASSUME NEW k \in DOMAIN byToken'
               PROVE  (\/ byToken[k] \in DOMAIN nodes /\ KeyOf(byToken[k]) = k
                       \/ /\ byToken[k] \in DOMAIN StaticCfg
                          /\ k = HashToken(StaticCfg[byToken[k]]))'
    BY DEF KeysHaveOwners
  <2>1. k \in DOMAIN byToken /\ byToken'[k] = byToken[k] /\ k # nodes[n].token
    BY <1>3
  <2>2. CASE byToken[k] \in DOMAIN nodes /\ KeyOf(byToken[k]) = k /\ byToken[k] = n
    \* n was a node of the NODES list, with its raw token
    <3>1. nodes[n].token \in Tokens
      BY <2>1, <2>2, <1>6
    <3> QED BY <2>1, <2>2, <3>1 DEF KeyOf, TokenShapes, KeyInv
  <2>3. CASE byToken[k] \in DOMAIN nodes /\ KeyOf(byToken[k]) = k /\ byToken[k] # n
    BY <2>1, <2>3, <1>2 DEF KeyOf
  <2>4. CASE byToken[k] \in DOMAIN StaticCfg /\ k = HashToken(StaticCfg[byToken[k]])
    BY <2>1, <2>4
  <2> QED BY <2>1, <2>2, <2>3, <2>4 DEF KeysHaveOwners, KeyInv
<1>9. StaticKeysStay'
  BY <1>1, <1>3 DEF StaticKeysStay, TokenShapes, KeyInv
<1>10. TokenShapes'
  BY <1>2 DEF TokenShapes, KeyInv
<1>11. StoreShapes'
  BY <1>7 DEF StoreShapes, Recorded, KeyInv
<1>12. ASSUME Found, ~leftover' PROVE Found'
  <2>1. NodesFound'
    BY <1>1, <1>2, <1>3, <1>4, <1>5, <1>6, <1>12 DEF NodesFound, Found
  <2>2. StoreMirrored'
    BY <1>1, <1>2, <1>7, <1>12 DEF StoreMirrored, Recorded, Found, Without
  <2>3. StoreApart'
    BY <1>7, <1>12 DEF StoreApart, Recorded, Found
  <2> QED BY <2>1, <2>2, <2>3 DEF Found
<1> QED BY <1>8, <1>9, <1>10, <1>11, <1>12 DEF KeyInv

\* Every step of the registry keeps the token invariants.
LEMMA TokenNext ==
    TypeOK /\ KeyInv /\ [RegNext]_regVars => KeyInv' /\ (Found /\ ~leftover' => Found')
<1> SUFFICES ASSUME TypeOK, KeyInv, [RegNext]_regVars
             PROVE  KeyInv' /\ (Found /\ ~leftover' => Found')
  OBVIOUS
<1>1. ASSUME NEW n \in Names, NEW t \in Tokens, RegisterNode(n, t)
      PROVE  KeyInv' /\ (Found => Found')
  BY <1>1, TokenRegister
<1>2. ASSUME NEW n \in Names, RemoveNode(n) PROVE KeyInv' /\ (Found /\ ~leftover' => Found')
  BY <1>2, TokenRemove
<1>3. ASSUME UNCHANGED <<nodes, byToken, store, loaded>> PROVE KeyInv' /\ (Found => Found')
  BY <1>3, TokensKept
<1>4. ASSUME NEW h \in Handlers,
             \/ \E t \in Tokens : Authenticate(h, t)
             \/ BadRequest(h) \/ AcceptUnregistered(h) \/ Reply(h)
      PROVE  KeyInv' /\ (Found => Found')
  BY <1>3, <1>4 DEF Authenticate, BadRequest, AcceptUnregistered, Reply
<1>5. ASSUME NEW h \in Handlers, NEW s \in Snaps, NEW i \in Intervals, NEW a \in BOOLEAN,
             AcceptReport(h, s, i, a)
      PROVE  KeyInv' /\ (Found => Found')
  <2>1. /\ DOMAIN nodes' = DOMAIN nodes
        /\ \A n \in DOMAIN nodes : nodes'[n].token = nodes[n].token
        /\ UNCHANGED <<byToken, store, loaded>>
    BY <1>5 DEF AcceptReport
  <2> QED BY <2>1, TokensKept
<1>6. ASSUME Tick \/ SweepStale \/ \E c \in Consumers : MergedSnapshot(c)
      PROVE  KeyInv' /\ (Found => Found')
  <2>1. DOMAIN nodes' = DOMAIN nodes /\ UNCHANGED <<byToken, store, loaded>>
    BY <1>6 DEF Tick, SweepStale, MergedSnapshot
  <2>2. ASSUME NEW n \in DOMAIN nodes PROVE nodes'[n].token = nodes[n].token
    <3>1. nodes[n] \in NodeState
      BY DEF TypeOK, NodesTyped
    <3>2. \/ nodes'[n] = nodes[n]
          \/ nodes'[n] = [nodes[n] EXCEPT !.silence = @ + 1]
          \/ nodes'[n] = [nodes[n] EXCEPT !.status = "down", !.gracePending = TRUE]
          \/ nodes'[n] = [nodes[n] EXCEPT !.gracePending = FALSE]
      BY <1>6 DEF Tick, SweepStale, MergedSnapshot, GraceTaken
    <3> QED BY <3>1, <3>2 DEF NodeState
  <2> QED BY <2>1, <2>2, TokensKept
<1>7. ASSUME Restart PROVE KeyInv' /\ (Found => Found')
  BY <1>7, TokenRestart
<1>8. CASE UNCHANGED regVars
  BY <1>3, <1>8 DEF regVars
<1> QED BY <1>1, <1>2, <1>4, <1>5, <1>6, <1>7, <1>8 DEF RegNext

\* A removal that fails to reach the disk is never forgotten.
LEMMA LeftoverStays == TypeOK /\ [RegNext]_regVars /\ leftover => leftover'
BY DEF RegNext, RegisterNode, RemoveNode, Authenticate, BadRequest, AcceptReport,
       AcceptUnregistered, Reply, Tick, SweepStale, MergedSnapshot, Restart, regVars

\* Every key leads to the node that owns it or is the NODES-list token of the
\* node it leads to, whatever is registered, removed, refused or restarted and
\* whichever writes and loads fail.
THEOREM KeysLeadHome == RegSpec => []KeysHaveOwners
<1>1. RegInit => KeyInv
  BY TokenInit
<1>2. TypeOK /\ KeyInv /\ [RegNext]_regVars => KeyInv'
  BY TokenNext
<1>3. KeyInv => KeysHaveOwners
  BY DEF KeyInv
<1> QED BY <1>1, <1>2, <1>3, RegistryTypeCorrect, PTL DEF RegSpec

\* Without a NODES list the exception is gone: whoever passes the token check
\* is registered at that moment, so a removed node is refused.
THEOREM RemovedIsRefusedWithoutList ==
    ASSUME DOMAIN StaticCfg = {}
    PROVE  RegSpec => RemovedNodeIsRefused
<1>1. TypeOK /\ KeysHaveOwners /\ [RegNext]_regVars =>
         [\A h \in Handlers :
             req[h] = Idle /\ req'[h] # Idle => req'[h].node \in DOMAIN nodes]_regVars
  <2> SUFFICES ASSUME TypeOK, KeysHaveOwners, RegNext, NEW h \in Handlers,
                      req[h] = Idle, req'[h] # Idle
               PROVE  req'[h].node \in DOMAIN nodes
    OBVIOUS
  <2>1. req \in [Handlers -> Request]
    BY DEF TypeOK, FlowTyped
  <2>2. ASSUME NEW g \in Handlers, NEW t \in Tokens, Authenticate(g, t)
        PROVE  req'[h].node \in DOMAIN nodes
    BY <2>1, <2>2 DEF Authenticate, KeysHaveOwners
  <2>3. ASSUME NEW g \in Handlers,
               \/ BadRequest(g) \/ AcceptUnregistered(g) \/ Reply(g)
               \/ \E s \in Snaps, i \in Intervals, a \in BOOLEAN : AcceptReport(g, s, i, a)
        PROVE  FALSE
    <3>1. req[g].pc \in {"decode", "reply"} /\ (req' = [req EXCEPT ![g] = Idle]
             \/ req' = [req EXCEPT ![g].pc = "reply"])
      BY <2>3 DEF BadRequest, AcceptUnregistered, Reply, AcceptReport
    <3>2. g # h
      BY <3>1 DEF Idle
    <3> QED BY <2>1, <3>1, <3>2
  <2>4. ASSUME req' = req \/ req' = [g \in Handlers |-> Idle] PROVE FALSE
    BY <2>4
  <2>5. CASE Restart
    BY <2>4, <2>5 DEF Restart, Boot
  <2> QED BY <2>2, <2>3, <2>4, <2>5
          DEF RegNext, RegisterNode, RemoveNode, Tick, SweepStale, MergedSnapshot
<1> QED BY <1>1, KeysLeadHome, RegistryTypeCorrect, PTL DEF RegSpec, RemovedNodeIsRefused

\* As long as every removal reaches the disk, every registered node is found by
\* its own token, whatever is registered, removed, refused or restarted.
THEOREM RegisteredAuthenticates == RegSpec => []RegisteredNodeAuthenticates
<1>1. RegInit => KeyInv /\ FoundInv
  BY TokenInit DEF FoundInv, Found
<1>2. TypeOK /\ KeyInv /\ FoundInv /\ [RegNext]_regVars => KeyInv' /\ FoundInv'
  BY TokenNext, LeftoverStays DEF FoundInv, Found
<1>3. FoundInv => RegisteredNodeAuthenticates
  BY DEF FoundInv, RegisteredNodeAuthenticates
<1> QED BY <1>1, <1>2, <1>3, RegistryTypeCorrect, PTL DEF RegSpec

-----------------------------------------------------------------------------
(* Outages and acknowledgements.                                           *)

\* What a step that changes no registration may do to one node.
LEMMA NodeSteps ==
    ASSUME TypeOK, NEW n \in DOMAIN nodes,
           Tick \/ SweepStale \/ \E c \in Consumers : MergedSnapshot(c)
    PROVE  /\ nodes'[n].token = nodes[n].token
           /\ nodes'[n].interval = nodes[n].interval
           /\ nodes'[n].status # "up" => nodes'[n].silence = nodes[n].silence
           /\ \/ nodes'[n].status = nodes[n].status
              \/ SweepStale /\ Stale(n) /\ nodes'[n].status = "down"
                            /\ nodes'[n].gracePending
<1>1. nodes[n] \in NodeState
  BY DEF TypeOK, NodesTyped
<1>2. CASE Tick
  <2>1. CASE Ageing(n)
    <3>1. nodes'[n] = [nodes[n] EXCEPT !.silence = @ + 1]
      BY <1>2, <2>1 DEF Tick
    <3> QED BY <1>1, <2>1, <3>1 DEF NodeState, Ageing
  <2>2. CASE ~Ageing(n)
    BY <1>2, <2>2 DEF Tick
  <2> QED BY <2>1, <2>2
<1>3. CASE SweepStale
  <2>1. CASE Stale(n)
    <3>1. nodes'[n] = [nodes[n] EXCEPT !.status = "down", !.gracePending = TRUE]
      BY <1>3, <2>1 DEF SweepStale
    <3> QED BY <1>1, <1>3, <2>1, <3>1 DEF NodeState
  <2>2. CASE ~Stale(n)
    BY <1>3, <2>2 DEF SweepStale
  <2> QED BY <2>1, <2>2
<1>4. ASSUME NEW c \in Consumers, MergedSnapshot(c)
      PROVE  /\ nodes'[n].token = nodes[n].token
             /\ nodes'[n].interval = nodes[n].interval
             /\ nodes'[n].silence = nodes[n].silence
             /\ nodes'[n].status = nodes[n].status
  <2>1. nodes'[n] = nodes[n] \/ nodes'[n] = [nodes[n] EXCEPT !.gracePending = FALSE]
    BY <1>4 DEF MergedSnapshot, GraceTaken
  <2> QED BY <1>1, <2>1 DEF NodeState
<1> QED BY <1>2, <1>3, <1>4

\* After a restart every node is pending, whether or not nodes.json was read.
LEMMA RestartFresh ==
    ASSUME TypeOK, Restart, NEW n \in DOMAIN nodes'
    PROVE  nodes'[n].status = "pending" /\ ~nodes'[n].gracePending /\ n \in Names
<1>1. PICK stored \in {store, EmptyStore} : Boot(stored)
  BY DEF Restart
<1>2. DOMAIN stored \subseteq Names /\ stored \in [DOMAIN stored -> Hashes]
  BY <1>1, EmptyStoreType DEF TypeOK, StoreTyped, Hashes
<1> QED BY <1>1, <1>2, BootType DEF Boot

\* No node is down at the start.
LEMMA DownInit == RegInit => DownMeansSilent
<1> SUFFICES ASSUME RegInit PROVE DownMeansSilent
  OBVIOUS
<1>1. store \in [DOMAIN store -> Hashes] /\ DOMAIN store = {}
  BY DEF RegInit, EmptyStore
<1>2. \A n \in DOMAIN nodes : nodes[n].status = "pending"
  BY <1>1, BootType DEF RegInit
<1> QED BY <1>2 DEF DownMeansSilent

\* A step brings a node down only after its deadline.
LEMMA DownNext == TypeOK /\ DownMeansSilent /\ [RegNext]_regVars => DownMeansSilent'
<1> SUFFICES ASSUME TypeOK, DownMeansSilent, [RegNext]_regVars, NEW n \in DOMAIN nodes',
                    nodes'[n].status = "down"
             PROVE  nodes'[n].silence > Deadline(nodes'[n].interval)
  BY DEF DownMeansSilent, Deadline
<1>1. ASSUME NEW m \in Names, NEW t \in Tokens, RegisterNode(m, t)
      PROVE  n \in DOMAIN nodes /\ nodes'[n] = nodes[n]
  <2>1. HashToken(t) \in TokenKeys
    BY DEF TokenKeys
  <2>2. FreshNode(HashToken(t)).status = "pending"
    BY <2>1, FreshType
  <2>3. /\ n \in DOMAIN nodes \cup {m}
        /\ nodes'[n] = IF n = m THEN FreshNode(HashToken(t)) ELSE nodes[n]
    BY <1>1 DEF RegisterNode, With
  <2> QED BY <2>2, <2>3
<1>2. ASSUME NEW m \in Names, RemoveNode(m)
      PROVE  n \in DOMAIN nodes /\ nodes'[n] = nodes[n]
  BY <1>2 DEF RemoveNode, Without
<1>3. ASSUME NEW h \in Handlers, NEW s \in Snaps, NEW i \in Intervals, NEW a \in BOOLEAN,
             AcceptReport(h, s, i, a)
      PROVE  n \in DOMAIN nodes /\ nodes'[n] = nodes[n]
  BY <1>3 DEF AcceptReport
<1>4. ASSUME \/ \E h \in Handlers, t \in Tokens : Authenticate(h, t)
             \/ \E h \in Handlers : BadRequest(h) \/ AcceptUnregistered(h) \/ Reply(h)
             \/ UNCHANGED regVars
      PROVE  n \in DOMAIN nodes /\ nodes'[n] = nodes[n]
  BY <1>4 DEF Authenticate, BadRequest, AcceptUnregistered, Reply, regVars
<1>5. ASSUME Tick \/ SweepStale \/ \E c \in Consumers : MergedSnapshot(c)
      PROVE  nodes'[n].silence > Deadline(nodes'[n].interval)
  <2>1. n \in DOMAIN nodes
    BY <1>5 DEF Tick, SweepStale, MergedSnapshot
  <2>2. /\ nodes'[n].interval = nodes[n].interval
        /\ nodes'[n].silence = nodes[n].silence
        /\ nodes[n].status = "down" \/ Stale(n)
    BY <1>5, <2>1, NodeSteps
  <2> QED BY <2>1, <2>2 DEF DownMeansSilent, Stale
<1>6. ~Restart
  <2> SUFFICES ASSUME Restart PROVE nodes'[n].status = "pending"
    OBVIOUS
  <2> QED BY RestartFresh
<1> QED BY <1>1, <1>2, <1>3, <1>4, <1>5, <1>6 DEF RegNext, DownMeansSilent

\* SweepStale declares a node down only after its deadline has passed, for
\* every interval a report may carry and every cap.
THEOREM DownOnlyAfterDeadline == RegSpec => []DownMeansSilent
<1>1. RegInit => DownMeansSilent
  BY DownInit
<1>2. TypeOK /\ DownMeansSilent /\ [RegNext]_regVars => DownMeansSilent'
  BY DownNext
<1> QED BY <1>1, <1>2, RegistryTypeCorrect, PTL DEF RegSpec

\* Every step keeps what was acknowledged in memory and on disk.
LEMMA ConfirmedNext == TypeOK /\ ConfirmedIsOnDisk /\ [RegNext]_regVars => ConfirmedIsOnDisk'
<1> SUFFICES ASSUME TypeOK, ConfirmedIsOnDisk, [RegNext]_regVars PROVE ConfirmedIsOnDisk'
  OBVIOUS
<1>1. ASSUME UNCHANGED <<store, loaded, acked>>, DOMAIN nodes' = DOMAIN nodes,
             \A n \in DOMAIN nodes : nodes'[n].token = nodes[n].token
      PROVE  ConfirmedIsOnDisk'
  BY <1>1 DEF ConfirmedIsOnDisk
<1>2. ASSUME NEW n \in Names, NEW t \in Tokens, RegisterNode(n, t) PROVE ConfirmedIsOnDisk'
  <2>1. HashToken(t) \in TokenKeys
    BY DEF TokenKeys
  <2>2. FreshNode(HashToken(t)).token = HashToken(t)
    BY <2>1, FreshType
  <2>3. /\ n \notin DOMAIN nodes
        /\ nodes' = With(nodes, n, FreshNode(HashToken(t)))
        /\ loaded' = loaded
        /\ \/ /\ store' = With(store, n, HashToken(t))
              /\ acked' = [acked EXCEPT ![n] = Told("registered", HashToken(t), TRUE)]
           \/ store' = store /\ acked' = [acked EXCEPT ![n] = Nothing]
           \/ /\ store' = store
              /\ acked' = [acked EXCEPT ![n] = Told("registered", HashToken(t), FALSE)]
    BY <1>2 DEF RegisterNode
  <2>4. acked \in [Names -> Answers]
    BY DEF TypeOK, HistoryTyped
  <2>5. ASSUME NEW m \in Names, m # n
        PROVE  /\ acked'[m] = acked[m]
               /\ m \in DOMAIN nodes' <=> m \in DOMAIN nodes
               /\ m \in DOMAIN nodes => nodes'[m] = nodes[m]
               /\ m \in DOMAIN store' <=> m \in DOMAIN store
               /\ m \in DOMAIN store => store'[m] = store[m]
    BY <2>3, <2>4, <2>5 DEF With
  <2>6. \/ /\ acked'[n].what = "registered" /\ acked'[n].key = HashToken(t)
           /\ n \in DOMAIN store' /\ n \in DOMAIN nodes'
           /\ nodes'[n].token = HashToken(t) /\ store'[n] = HashToken(t)
        \/ ~acked'[n].saved
    BY <2>2, <2>3, <2>4 DEF With, Told, Nothing
  <2> QED BY <2>3, <2>5, <2>6 DEF ConfirmedIsOnDisk
<1>3. ASSUME NEW n \in Names, RemoveNode(n) PROVE ConfirmedIsOnDisk'
  <2>1. /\ nodes' = Without(nodes, n)
        /\ loaded' = loaded
        /\ \/ store' = Without(store, n) /\ acked' = [acked EXCEPT ![n] = Told("removed", NoKey, TRUE)]
           \/ store' = store /\ acked' = [acked EXCEPT ![n] = Nothing]
           \/ store' = store /\ acked' = [acked EXCEPT ![n] = Told("removed", NoKey, FALSE)]
    BY <1>3 DEF RemoveNode, RecordsWithout
  <2>2. acked \in [Names -> Answers]
    BY DEF TypeOK, HistoryTyped
  <2>3. ASSUME NEW m \in Names, m # n
        PROVE  /\ acked'[m] = acked[m]
               /\ m \in DOMAIN nodes' <=> m \in DOMAIN nodes
               /\ m \in DOMAIN nodes => nodes'[m] = nodes[m]
               /\ m \in DOMAIN store' <=> m \in DOMAIN store
               /\ m \in DOMAIN store => store'[m] = store[m]
    BY <2>1, <2>2, <2>3 DEF Without
  <2>4. \/ /\ acked'[n].what = "removed"
           /\ n \notin DOMAIN store' /\ n \notin DOMAIN nodes'
        \/ ~acked'[n].saved
    BY <2>1, <2>2 DEF Without, Told, Nothing
  <2> QED BY <2>1, <2>3, <2>4 DEF ConfirmedIsOnDisk
<1>4. ASSUME \/ \E h \in Handlers, t \in Tokens : Authenticate(h, t)
             \/ \E h \in Handlers : BadRequest(h) \/ AcceptUnregistered(h) \/ Reply(h)
             \/ UNCHANGED regVars
      PROVE  ConfirmedIsOnDisk'
  BY <1>1, <1>4 DEF Authenticate, BadRequest, AcceptUnregistered, Reply, regVars
<1>5. ASSUME NEW h \in Handlers, NEW s \in Snaps, NEW i \in Intervals, NEW a \in BOOLEAN,
             AcceptReport(h, s, i, a)
      PROVE  ConfirmedIsOnDisk'
  BY <1>1, <1>5 DEF AcceptReport
<1>6. ASSUME Tick \/ SweepStale \/ \E c \in Consumers : MergedSnapshot(c)
      PROVE  ConfirmedIsOnDisk'
  <2>1. UNCHANGED <<store, loaded, acked>> /\ DOMAIN nodes' = DOMAIN nodes
    BY <1>6 DEF Tick, SweepStale, MergedSnapshot
  <2>2. \A n \in DOMAIN nodes : nodes'[n].token = nodes[n].token
    BY <1>6, NodeSteps
  <2> QED BY <1>1, <2>1, <2>2
<1>7. ASSUME Restart PROVE ConfirmedIsOnDisk'
  <2>1. UNCHANGED <<store, acked>>
    BY <1>7 DEF Restart
  <2>2. ASSUME Boot(store) PROVE ConfirmedIsOnDisk'
    <3>1. DOMAIN store \subseteq Names /\ store \in [DOMAIN store -> Hashes]
      BY DEF TypeOK, StoreTyped, Hashes
    <3>2. /\ DOMAIN nodes' = DOMAIN StaticCfg \cup DOMAIN store
          /\ \A n \in DOMAIN nodes' \ DOMAIN StaticCfg : nodes'[n].token = store[n]
      BY <2>2, <3>1, BootFacts
    <3> QED BY <2>1, <3>2 DEF ConfirmedIsOnDisk
  <2>3. ASSUME Boot(EmptyStore), ~loaded' PROVE ConfirmedIsOnDisk'
    <3>1. DOMAIN nodes' = DOMAIN StaticCfg
      BY <2>3, EmptyStoreType, BootFacts
    <3> QED BY <2>1, <2>3, <3>1 DEF ConfirmedIsOnDisk
  <2> QED BY <1>7, <2>2, <2>3 DEF Restart
<1> QED BY <1>2, <1>3, <1>4, <1>5, <1>6, <1>7 DEF RegNext

\* What RegisterNode and RemoveNode wrote to nodes.json before they confirmed it
\* stays there, and is what memory holds outside the NODES list, whichever
\* writes and loads fail.
THEOREM ConfirmedReachesDisk == RegSpec => []ConfirmedIsOnDisk
<1>1. RegInit => ConfirmedIsOnDisk
  BY DEF RegInit, ConfirmedIsOnDisk, Nothing, Told
<1>2. TypeOK /\ ConfirmedIsOnDisk /\ [RegNext]_regVars => ConfirmedIsOnDisk'
  BY ConfirmedNext
<1> QED BY <1>1, <1>2, RegistryTypeCorrect, PTL DEF RegSpec

\* GraceHandedOutOnce for one node.
GraceOf(n) ==
    IF nodes[n].status = "down"
    THEN nodes[n].gracePending <=> graceSeen[n] = "none"
    ELSE ~nodes[n].gracePending /\ graceSeen[n] = "none"

\* Every step keeps the grace snapshot's accounting.
LEMMA GraceNext == TypeOK /\ GraceHandedOutOnce /\ [RegNext]_regVars => GraceHandedOutOnce'
<1> SUFFICES ASSUME TypeOK, GraceHandedOutOnce, [RegNext]_regVars, NEW n \in DOMAIN nodes'
             PROVE  GraceOf(n)'
  BY DEF GraceHandedOutOnce, GraceOf
<1>1. n \in DOMAIN nodes => n \in Names /\ nodes[n] \in NodeState /\ GraceOf(n)
  BY DEF TypeOK, NodesTyped, GraceHandedOutOnce, GraceOf
<1>2. graceSeen \in [Names -> {"none"} \cup Consumers]
  BY DEF TypeOK, HistoryTyped
<1>3. ASSUME n \in DOMAIN nodes, nodes'[n] = nodes[n], graceSeen'[n] = graceSeen[n]
      PROVE  GraceOf(n)'
  BY <1>1, <1>3 DEF GraceOf
<1>4. ASSUME NEW m \in Names, NEW t \in Tokens, RegisterNode(m, t) PROVE GraceOf(n)'
  <2>1. HashToken(t) \in TokenKeys
    BY DEF TokenKeys
  <2>2. FreshNode(HashToken(t)).status = "pending" /\ ~FreshNode(HashToken(t)).gracePending
    BY <2>1, FreshType
  <2>3. /\ n \in DOMAIN nodes \cup {m}
        /\ nodes'[n] = IF n = m THEN FreshNode(HashToken(t)) ELSE nodes[n]
        /\ graceSeen' = [graceSeen EXCEPT ![m] = "none"]
    BY <1>4 DEF RegisterNode, With
  <2>4. CASE n = m
    BY <1>2, <2>2, <2>3, <2>4 DEF GraceOf
  <2>5. CASE n # m
    BY <1>1, <1>2, <1>3, <2>3, <2>5
  <2> QED BY <2>4, <2>5
<1>5. ASSUME NEW m \in Names, RemoveNode(m) PROVE GraceOf(n)'
  BY <1>1, <1>2, <1>3, <1>5 DEF RemoveNode, Without
<1>6. ASSUME NEW h \in Handlers, NEW s \in Snaps, NEW i \in Intervals, NEW a \in BOOLEAN,
             AcceptReport(h, s, i, a)
      PROVE  GraceOf(n)'
  <2> DEFINE m == req[h].node
  <2>1. m \in DOMAIN nodes /\ n \in DOMAIN nodes /\ m \in Names
    BY <1>6 DEF AcceptReport, TypeOK, NodesTyped
  <2>2. graceSeen' = [graceSeen EXCEPT ![m] = "none"]
    BY <1>6 DEF AcceptReport
  <2>3. CASE n = m
    BY <1>2, <1>6, <2>1, <2>2, <2>3 DEF AcceptReport, GraceOf
  <2>4. CASE n # m
    <3>1. nodes'[n] = nodes[n] /\ graceSeen'[n] = graceSeen[n]
      BY <1>1, <1>2, <1>6, <2>1, <2>2, <2>4 DEF AcceptReport
    <3> QED BY <1>3, <2>1, <3>1
  <2> QED BY <2>3, <2>4
<1>7. ASSUME \/ \E h \in Handlers, t \in Tokens : Authenticate(h, t)
             \/ \E h \in Handlers : BadRequest(h) \/ AcceptUnregistered(h) \/ Reply(h)
             \/ UNCHANGED regVars
      PROVE  GraceOf(n)'
  BY <1>3, <1>7 DEF Authenticate, BadRequest, AcceptUnregistered, Reply, regVars
<1>8. ASSUME Tick PROVE GraceOf(n)'
  <2>1. n \in DOMAIN nodes /\ graceSeen' = graceSeen
    BY <1>8 DEF Tick
  <2>2. nodes'[n] = nodes[n] \/ nodes'[n] = [nodes[n] EXCEPT !.silence = @ + 1]
    BY <1>8 DEF Tick
  <2>3. nodes'[n].status = nodes[n].status /\ nodes'[n].gracePending = nodes[n].gracePending
    BY <1>1, <2>1, <2>2 DEF NodeState
  <2> QED BY <1>1, <2>1, <2>3 DEF GraceOf
<1>9. ASSUME SweepStale PROVE GraceOf(n)'
  <2>1. n \in DOMAIN nodes /\ graceSeen' = graceSeen
    BY <1>9 DEF SweepStale
  <2>2. CASE Stale(n)
    <3>1. nodes'[n] = [nodes[n] EXCEPT !.status = "down", !.gracePending = TRUE]
      BY <1>9, <2>1, <2>2 DEF SweepStale
    <3>2. nodes'[n].status = "down" /\ nodes'[n].gracePending
      BY <1>1, <2>1, <3>1 DEF NodeState
    <3>3. graceSeen[n] = "none"
      BY <1>1, <2>1, <2>2 DEF GraceOf, Stale
    <3> QED BY <2>1, <3>2, <3>3 DEF GraceOf
  <2>3. CASE ~Stale(n)
    BY <1>3, <1>9, <2>1, <2>3 DEF SweepStale
  <2> QED BY <2>2, <2>3
<1>10. ASSUME NEW c \in Consumers, MergedSnapshot(c) PROVE GraceOf(n)'
  <2>1. n \in DOMAIN nodes /\ n \in Names
    BY <1>1, <1>10 DEF MergedSnapshot
  <2>2. CASE n \in MergedDisabled
    <3>1. nodes'[n] = [nodes[n] EXCEPT !.gracePending = FALSE]
      BY <1>10, <2>1, <2>2 DEF MergedSnapshot, GraceTaken
    <3>2. nodes'[n].status = "down" /\ ~nodes'[n].gracePending
      BY <1>1, <2>1, <2>2, <3>1 DEF NodeState, MergedDisabled
    <3>3. graceSeen'[n] = c /\ c # "none"
      BY <1>10, <2>1, <2>2 DEF MergedSnapshot, Consumers
    <3> QED BY <3>2, <3>3 DEF GraceOf
  <2>3. CASE n \notin MergedDisabled
    BY <1>3, <1>10, <2>1, <2>3 DEF MergedSnapshot
  <2> QED BY <2>2, <2>3
<1>11. ASSUME Restart PROVE GraceOf(n)'
  <2>1. /\ nodes'[n].status = "pending" /\ ~nodes'[n].gracePending
        /\ n \in Names
    BY <1>11, RestartFresh
  <2> QED BY <1>11, <2>1 DEF Restart, Boot, GraceOf
<1> QED BY <1>4, <1>5, <1>6, <1>7, <1>8, <1>9, <1>10, <1>11 DEF RegNext

\* The Disabled snapshot of an outage is pending until exactly one caller of
\* MergedSnapshot gets it, whoever that is.
THEOREM GraceOnce == RegSpec => []GraceHandedOutOnce
<1>1. RegInit => GraceHandedOutOnce
  <2> SUFFICES ASSUME RegInit PROVE GraceHandedOutOnce
    OBVIOUS
  <2>1. store \in [DOMAIN store -> Hashes] /\ DOMAIN store = {}
    BY DEF RegInit, EmptyStore
  <2>2. \A n \in DOMAIN nodes : /\ nodes[n].status = "pending" /\ ~nodes[n].gracePending
                                /\ n \in Names
    BY <2>1, BootType DEF RegInit
  <2> QED BY <2>2 DEF RegInit, GraceHandedOutOnce
<1>2. TypeOK /\ GraceHandedOutOnce /\ [RegNext]_regVars => GraceHandedOutOnce'
  BY GraceNext
<1> QED BY <1>1, <1>2, RegistryTypeCorrect, PTL DEF RegSpec

=============================================================================
