------------------------- MODULE SubscriptionStore -------------------------
(***************************************************************************)
(* The subscription URLs of an instance: URLStore with its file            *)
(* (subscription/manager.go), /addsub and /delsub of the bot               *)
(* (telegram_subscriptions.go), the master's list applied by               *)
(* ReconcileManaged (subscription/reconcile.go), and the reload all of     *)
(* them end with.                                                          *)
(*                                                                         *)
(* The bot handles one command at a time.  A node's answers from the       *)
(* master are applied by goroutines of their own, which may overlap: the   *)
(* flag of the reporter is released before the answer is applied.          *)
(*   bot:         idle -> reload -> apply -> (rollback) -> idle             *)
(*   reconciler:  idle -> plan -> change -> reload -> apply -> (restore)    *)
(*                     -> idle                                              *)
(***************************************************************************)
EXTENDS Integers, FiniteSets

CONSTANTS
    Urls,
    Static,        \* those of --subscription-url
    Broken,        \* those that serve no proxy
    DesiredSets,   \* the lists the master may hold for this node
    Reconcilers,
    MaxEvents      \* bound: commands, changes of the list, restarts and failures

ASSUME SubsAssumption ==
    /\ Static \subseteq Urls /\ Broken \subseteq Urls
    /\ DesiredSets \subseteq SUBSET Urls
    /\ "bot" \notin Reconcilers /\ "updater" \notin Reconcilers
    /\ MaxEvents \in Nat

VARIABLES
    dynamic,   \* URLStore.dynamic
    managed,   \* the URLs URLStore.managed flags
    file,      \* the store's file
    applied,   \* the URLs of the last reload
    desired,   \* the master's list
    proc,      \* the goroutines
    up,        \* the process runs
    own,       \* ghost: accepted by /addsub, not taken back by /delsub
    failed,    \* ghost: something has failed
    events     \* commands, changes, restarts and failures so far

subsVars == <<dynamic, managed, file, applied, desired, proc, up, own, failed, events>>
store == <<dynamic, managed, file>>
noEvent == <<failed, events>>

Procs == Reconcilers \cup {"bot", "updater"}
IdleProc == [pc |-> "idle", op |-> "none", url |-> {}, list |-> {}, add |-> {},
             remove |-> {}, changed |-> FALSE, dyn |-> {}, man |-> {}]

All == Static \cup dynamic

AnyOwner == dynamic     \* mutant: the flags are not consulted
Managed == dynamic \cap managed

At(q, pc) == up /\ proc[q].pc = pc
Goto(q, pc) == proc' = [proc EXCEPT ![q].pc = pc]
Return(q) == proc' = [proc EXCEPT ![q] = IdleProc]

Event == events < MaxEvents /\ events' = events + 1
Fault == Event /\ failed' = TRUE

-----------------------------------------------------------------------------
(* URLStore.                                                               *)

\* The file holds "dynamic": null, not [], when a nil slice is written.
Write(d, m, nilSlice) ==
    /\ dynamic' = d
    /\ managed' = m
    /\ file' = [dynamic |-> d, managed |-> m, null |-> nilSlice /\ d = {}]

WriteFailsUnnoticed(d, m) ==     \* mutant: no backup is put back
    Fault /\ dynamic' = d /\ managed' = m /\ UNCHANGED file

\* Every operation but Restore puts back what it had changed to d and m.
WriteFails(d, m) == Fault /\ UNCHANGED store

\* Restore copies the snapshot with append([]string(nil), ...).
Restore(d, m) ==
    \/ Write(d, m, TRUE) /\ UNCHANGED noEvent
    \/ Fault /\ dynamic' = d /\ managed' = m /\ UNCHANGED file

-----------------------------------------------------------------------------
(* reloadSubscriptions, one at a time: the list is read, then applied.     *)

FetchStatic(q) ==     \* mutant: the configured URLs, not the store's
    /\ IF q = "updater" THEN At(q, "idle") ELSE At(q, "reload")
    /\ \A p \in Procs : proc[p].pc # "apply"
    /\ proc' = [proc EXCEPT ![q].pc = "apply", ![q].list = Static]
    /\ UNCHANGED <<store, applied, desired, up, own, failed, events>>

FetchAnyway(q) ==     \* mutant: without reloadMu
    /\ IF q = "updater" THEN At(q, "idle") ELSE At(q, "reload")
    /\ proc' = [proc EXCEPT ![q].pc = "apply", ![q].list = All]
    /\ UNCHANGED <<store, applied, desired, up, own, failed, events>>

\* The updater does nothing else.
Fetch(q) ==
    /\ IF q = "updater" THEN At(q, "idle") ELSE At(q, "reload")
    /\ \A p \in Procs : proc[p].pc # "apply"
    /\ proc' = [proc EXCEPT ![q].pc = "apply", ![q].list = All]
    /\ UNCHANGED <<store, applied, desired, up, own, failed, events>>

\* /addsub answers that the subscription is added.
Apply(q) ==
    /\ At(q, "apply")
    /\ applied' = proc[q].list
    /\ own' = IF proc[q].op = "add" THEN own \cup proc[q].url ELSE own
    /\ Return(q)
    /\ UNCHANGED <<store, desired, up, failed, events>>

ReloadFails(q) ==
    /\ At(q, "apply")
    /\ Fault
    /\ CASE proc[q].op = "add" -> Goto(q, "rollback")
         [] q \in Reconcilers -> Goto(q, "restore")
         [] OTHER -> Return(q)
    /\ UNCHANGED <<store, applied, desired, up, own>>

-----------------------------------------------------------------------------
(* The bot: AddSubscription and RemoveSubscription.                        *)

Command ==
    /\ At("bot", "idle")
    /\ Event
    /\ UNCHANGED failed

\* The validation comes first and changes nothing.
AddSub(u) ==
    /\ Command
    /\ u \notin Broken
    /\ u \notin All
    /\ Write(dynamic \cup {u}, managed, FALSE)
    /\ proc' = [proc EXCEPT !["bot"].pc = "reload", !["bot"].op = "add", !["bot"].url = {u}]
    /\ UNCHANGED <<applied, desired, up, own>>

Rollback ==
    /\ At("bot", "rollback")
    /\ LET left == dynamic \ proc["bot"].url
       IN  \/ left = dynamic /\ UNCHANGED <<store, failed, events>>
           \/ left # dynamic /\ Write(left, managed, FALSE) /\ UNCHANGED noEvent
           \/ left # dynamic /\ WriteFails(left, managed)
    /\ Return("bot")
    /\ UNCHANGED <<applied, desired, up, own>>

\* Remove leaves the flag of the URL.
DelSub(u) ==
    /\ Command
    /\ u \in dynamic
    /\ Write(dynamic \ {u}, managed, FALSE)
    /\ own' = own \ {u}
    /\ proc' = [proc EXCEPT !["bot"].pc = "reload", !["bot"].op = "del"]
    /\ UNCHANGED <<applied, desired, up>>

-----------------------------------------------------------------------------
(* The master and ReconcileManaged.                                        *)

DesiredChanges(d) ==
    /\ d # desired
    /\ Event
    /\ UNCHANGED failed
    /\ desired' = d
    /\ UNCHANGED <<store, applied, proc, up, own>>

\* An answer with an empty list is not applied.
Answer(r) ==
    /\ At(r, "idle")
    /\ desired # {}
    /\ proc' = [proc EXCEPT ![r].pc = "plan", ![r].list = desired]
    /\ UNCHANGED <<store, applied, desired, up, own, failed, events>>

NothingToRemove(r) == {}     \* mutant: only additions are applied
ToRemove(r) == Managed \ proc[r].list

\* All, Managed and Snapshot are read one right after the other; the long
\* window is the one from here to AddManaged, with its validations.
Plan(r) ==
    /\ At(r, "plan")
    /\ proc' = [proc EXCEPT ![r] = [IdleProc EXCEPT !.pc = "change",
                    !.add = proc[r].list \ All, !.remove = ToRemove(r),
                    !.dyn = dynamic, !.man = managed]]
    /\ UNCHANGED <<store, applied, desired, up, own, failed, events>>

\* An existing dynamic URL is adopted.
AddManaged(r, u) ==
    /\ At(r, "change")
    /\ u \in proc[r].add
    /\ \/ /\ u \notin Broken
          /\ Write(dynamic \cup {u}, managed \cup {u}, FALSE)
          /\ proc' = [proc EXCEPT ![r].add = @ \ {u}, ![r].changed = TRUE]
          /\ UNCHANGED noEvent
       \/ /\ u \notin Broken
          /\ WriteFails(dynamic \cup {u}, managed \cup {u})
          /\ Goto(r, "restore")
       \/ /\ u \in Broken \/ events < MaxEvents     \* the validation fails
          /\ proc' = [proc EXCEPT ![r].add = @ \ {u}]
          /\ IF u \in Broken THEN UNCHANGED noEvent ELSE Fault
          /\ UNCHANGED store
    /\ UNCHANGED <<applied, desired, up, own>>

RemoveManaged(r, u) ==
    /\ At(r, "change")
    /\ proc[r].add = {}
    /\ u \in proc[r].remove
    /\ \/ /\ u \in Managed
          /\ Write(dynamic \ {u}, managed \ {u}, FALSE)
          /\ proc' = [proc EXCEPT ![r].remove = @ \ {u}, ![r].changed = TRUE]
          /\ UNCHANGED noEvent
       \/ /\ u \in Managed
          /\ WriteFails(dynamic \ {u}, managed \ {u})
          /\ Goto(r, "restore")
       \/ /\ u \notin Managed
          /\ proc' = [proc EXCEPT ![r].remove = @ \ {u}]
          /\ UNCHANGED <<store, failed, events>>
    /\ UNCHANGED <<applied, desired, up, own>>

Changed(r) ==
    /\ At(r, "change")
    /\ proc[r].add = {} /\ proc[r].remove = {}
    /\ IF proc[r].changed THEN Goto(r, "reload") ELSE Return(r)
    /\ UNCHANGED <<store, applied, desired, up, own, failed, events>>

RestoreSnapshot(r) ==
    /\ At(r, "restore")
    /\ Restore(proc[r].dyn, proc[r].man)
    /\ Return(r)
    /\ UNCHANGED <<applied, desired, up, own>>

-----------------------------------------------------------------------------

\* NewURLStore takes a null list for the legacy format, fails to parse it, and
\* main gives up.  The first fetch may fail too: the cache or nothing is used.
Restart ==
    /\ up
    /\ Event
    /\ UNCHANGED failed
    /\ proc' = [q \in Procs |-> IdleProc]
    /\ up' = ~file.null
    /\ dynamic' = file.dynamic /\ managed' = file.managed
    /\ applied' \in {Static \cup file.dynamic, applied, {}}
    /\ UNCHANGED <<file, desired, own>>

SubsInit ==
    /\ dynamic = {} /\ managed = {}
    /\ file = [dynamic |-> {}, managed |-> {}, null |-> FALSE]
    /\ applied = Static
    /\ desired \in DesiredSets
    /\ proc = [q \in Procs |-> IdleProc]
    /\ up = TRUE
    /\ own = {}
    /\ failed = FALSE
    /\ events = 0

Steps(q) ==
    \/ Fetch(q) \/ Apply(q) \/ ReloadFails(q)
BotStep == Steps("bot") \/ Rollback
ReconcilerStep(r) ==
    \/ Steps(r) \/ Answer(r) \/ Plan(r)
    \/ \E u \in Urls : AddManaged(r, u) \/ RemoveManaged(r, u)
    \/ Changed(r) \/ RestoreSnapshot(r)

SubsNext ==
    \/ \E u \in Urls : AddSub(u) \/ DelSub(u)
    \/ BotStep \/ Steps("updater")
    \/ \E d \in DesiredSets : DesiredChanges(d)
    \/ \E r \in Reconcilers : ReconcilerStep(r)
    \/ Restart

\* Every goroutine goes on to its end, sync.Mutex starves none, and the updater
\* and the reports come round again and again (updates enabled).
SubsFairness ==
    /\ WF_subsVars(BotStep)
    /\ WF_subsVars(Steps("updater"))
    /\ \A r \in Reconcilers : WF_subsVars(ReconcilerStep(r))
    /\ \A q \in Procs : SF_subsVars(Fetch(q))

SubsSpec == SubsInit /\ [][SubsNext]_subsVars /\ SubsFairness

-----------------------------------------------------------------------------
(* Properties.                                                             *)

ProcState ==
    [pc : {"idle", "plan", "change", "reload", "apply", "rollback", "restore"},
     op : {"none", "add", "del"}, url : SUBSET Urls, list : SUBSET Urls,
     add : SUBSET Urls, remove : SUBSET Urls, changed : BOOLEAN,
     dyn : SUBSET Urls, man : SUBSET Urls]

SubsTypeOK ==
    /\ dynamic \subseteq Urls \ Static /\ managed \subseteq Urls \ Static
    /\ file \in [dynamic : SUBSET (Urls \ Static), managed : SUBSET (Urls \ Static),
                 null : BOOLEAN]
    /\ file.null => file.dynamic = {}
    /\ applied \subseteq Urls /\ own \subseteq Urls
    /\ desired \in DesiredSets
    /\ proc \in [Procs -> ProcState]
    /\ Cardinality({q \in Procs : proc[q].pc = "apply"}) <= 1
    /\ up \in BOOLEAN /\ failed \in BOOLEAN /\ events \in 0..MaxEvents

\* A write that fails leaves memory and disk alike, whichever operation it was
\* part of; only the revert of a reconciliation, whose error nobody reads, may
\* part them.
OnDisk == file.dynamic = dynamic /\ file.managed = managed
StoreStaysOnDisk ==
    [][OnDisk => OnDisk' \/ \E r \in Reconcilers : At(r, "restore")]_subsVars

\* While nothing fails, no interleaving of commands, reconciliations, reloads
\* and restarts costs the admin a subscription the master never listed.
NeverListedStays == ~failed => own \ UNION DesiredSets \subseteq dynamic

\* The dynamic set survives a restart: the store never writes a file that
\* NewURLStore rejects, and main with it.
StartsAgain == up

\* Whatever overlapped, was reverted or restarted before: once the master's list
\* settles, every URL of it that serves proxies is in the store, and the store
\* manages nothing else.
ReconcileConverges ==
    \A d \in DesiredSets \ {{}} :
        <>[](up /\ desired = d) => <>[](d \ Broken \subseteq All /\ Managed \subseteq d)

\* What is checked is what the store lists, in the end.
AppliedConverges ==
    \A u \in Urls \ (Static \cup Broken) :
        /\ <>[](up /\ u \in dynamic) => <>[](u \in applied)
        /\ <>[](up /\ u \notin dynamic) => <>[](u \notin applied)

=============================================================================
