------------------------- MODULE KubeClientSandbox -------------------------
(***************************************************************************)
(* The sandbox of dry-run mode (pkg/descheduler/kubeclientsandbox.go): a   *)
(* fake client that mirrors the pods of the cluster, from which the        *)
(* descheduling thread evicts and to which it restores the evicted pods at *)
(* the end of each cycle (runDeschedulerLoop).  Beside that thread run     *)
(*                                                                         *)
(*   - the goroutine of the event handlers that copy the real informer's   *)
(*     notifications to the fake client's tracker; the real informer's     *)
(*     lister is ahead of them;                                            *)
(*   - the fake client's informer, whose indexer lags behind the tracker.  *)
(*                                                                         *)
(* The tracker has a lock per call, so a read and the write that relies on *)
(* it are two steps.  A pod is its UID; other fields, and the other        *)
(* mirrored resources, which nothing evicts, are left out.                 *)
(***************************************************************************)
EXTENDS Integers, Sequences, FiniteSets, Functions

CONSTANTS
    Names,         \* namespace/name keys of pods
    Uids,
    NameOf,        \* the name a UID is created under
    NoPod,
    MaxChanges,    \* bound: changes of the cluster's pods
    MaxWatchGaps,  \* bound: relists that show a recreated pod as an update
    MaxTimeouts    \* bound: times the fake informer is late by five seconds

ASSUME SandboxAssumption ==
    /\ IsFiniteSet(Names)
    /\ NameOf \in [Uids -> Names]
    /\ NoPod \notin Uids
    /\ {MaxChanges, MaxWatchGaps, MaxTimeouts} \subseteq Nat

VARIABLES
    lister,        \* name -> pod, the real informer's store
    notifications, \* real events the handlers have not worked off
    used,          \* UIDs the cluster has used
    tracker,       \* name -> pod, the fake client's objects
    fakeWatch,     \* tracker changes the fake informer has not seen
    indexer,       \* name -> pod, the fake informer's store
    evictedPodsCache,
    targeted,      \* history: names a plugin has evicted
    timedOut,      \* history: a wait of a restore has timed out
    thread,        \* where the descheduling thread is, and its locals
    budget         \* what is left of the bounds

clusterVars == <<lister, used, budget>>
fakeVars == <<tracker, fakeWatch>>
history == <<targeted, timedOut>>
vars == <<clusterVars, notifications, fakeVars, indexer, evictedPodsCache, history, thread>>

Objects == [Names -> Uids \cup {NoPod}]
NoObjects == [n \in Names |-> NoPod]

\* todo: pods the current loop still has to look at; restored: pods put back
\* by the last restore; pod: the pod between a read and a write.
Phases == {"run", "evict", "removed", "restore", "add", "accessible", "indexed"}
Running(r) == [pc |-> "run", name |-> NoPod, pod |-> NoPod, todo |-> {}, restored |-> r]
-----------------------------------------------------------------------------
(***************************************************************************)
(* The cluster, and the real informer: its store changes first, and the    *)
(* handlers are notified.                                                  *)
(***************************************************************************)
\* The initial list, in some order, as additions.
Listed(S, cur) ==
    LET order == CHOOSE f \in Injection(1 .. Cardinality(S), S) : TRUE
    IN  [i \in 1 .. Cardinality(S) |->
           [type |-> "add", name |-> order[i], pod |-> cur[order[i]]]]

RealChange(n, kind, p) ==
    /\ lister' = [lister EXCEPT ![n] = p]
    /\ notifications' = Append(notifications, [type |-> kind, name |-> n, pod |-> p])

Spend(what) == budget[what] > 0 /\ budget' = [budget EXCEPT ![what] = @ - 1]

CreatePod(n) ==
    /\ lister[n] = NoPod
    /\ \E u \in Uids \ used :
         /\ NameOf[u] = n
         /\ RealChange(n, "add", u)
         /\ used' = used \cup {u}
    /\ Spend("changes")
    /\ UNCHANGED <<fakeVars, indexer, evictedPodsCache, thread, history>>

DeletePod(n) ==
    /\ lister[n] # NoPod
    /\ RealChange(n, "delete", NoPod)
    /\ Spend("changes")
    /\ UNCHANGED <<used, fakeVars, indexer, evictedPodsCache, thread, history>>

\* Deleted and recreated while the watch was down: one update.
ReplacePod(n) ==
    /\ lister[n] # NoPod
    /\ \E u \in Uids \ used :
         /\ NameOf[u] = n
         /\ RealChange(n, "update", u)
         /\ used' = used \cup {u}
    /\ Spend("gaps")
    /\ UNCHANGED <<fakeVars, indexer, evictedPodsCache, thread, history>>
-----------------------------------------------------------------------------
(***************************************************************************)
(* The fake client's tracker and its informer.                             *)
(***************************************************************************)
Put(n, p) ==
    /\ tracker' = [tracker EXCEPT ![n] = p]
    /\ fakeWatch' = Append(fakeWatch, [name |-> n, pod |-> p])

\* Add is refused for a name in use, Update and Delete for one not in use; the
\* callers log the error or ignore it.
TrackerAdd(n, p) == IF tracker[n] = NoPod THEN Put(n, p) ELSE UNCHANGED fakeVars
TrackerUpdate(n, p) == IF tracker[n] # NoPod THEN Put(n, p) ELSE UNCHANGED fakeVars
TrackerDelete(n) == IF tracker[n] # NoPod THEN Put(n, NoPod) ELSE UNCHANGED fakeVars

\* Seeded fault: an update is passed on as an addition.
HandleEventUpdateAdds ==
    /\ notifications # <<>>
    /\ LET e == Head(notifications) IN
         \/ e.type \in {"add", "update"} /\ TrackerAdd(e.name, e.pod)
         \/ e.type = "delete" /\ TrackerDelete(e.name)
    /\ notifications' = Tail(notifications)
    /\ UNCHANGED <<clusterVars, indexer, evictedPodsCache, thread, history>>

HandleEvent ==
    /\ notifications # <<>>
    /\ LET e == Head(notifications) IN
         \/ e.type = "add" /\ TrackerAdd(e.name, e.pod)
         \/ e.type = "update" /\ TrackerUpdate(e.name, e.pod)
         \/ e.type = "delete" /\ TrackerDelete(e.name)
    /\ notifications' = Tail(notifications)
    /\ UNCHANGED <<clusterVars, indexer, evictedPodsCache, thread, history>>

FakeInformer ==
    /\ fakeWatch # <<>>
    /\ indexer' = [indexer EXCEPT ![Head(fakeWatch).name] = Head(fakeWatch).pod]
    /\ fakeWatch' = Tail(fakeWatch)
    /\ UNCHANGED <<clusterVars, notifications, tracker, evictedPodsCache, thread, history>>
-----------------------------------------------------------------------------
(***************************************************************************)
(* The descheduling thread: evictions of a cycle.                          *)
(***************************************************************************)
\* A plugin picked pod n; the reaction looks it up in the tracker and records
\* what it finds, then deletes by name.
EvictGet(n) ==
    /\ thread.pc = "run"
    /\ indexer[n] # NoPod
    /\ evictedPodsCache' = evictedPodsCache \cup ({tracker[n]} \ {NoPod})
    /\ thread' = [thread EXCEPT !.pc = "evict", !.name = n]
    /\ targeted' = targeted \cup {n} /\ UNCHANGED timedOut
    /\ UNCHANGED <<clusterVars, notifications, fakeVars, indexer>>

EvictDelete ==
    /\ thread.pc = "evict"
    /\ TrackerDelete(thread.name)
    /\ thread' = [thread EXCEPT !.pc = "run", !.name = NoPod]
    /\ UNCHANGED <<clusterVars, notifications, indexer, evictedPodsCache, history>>
-----------------------------------------------------------------------------
(***************************************************************************)
(* The end of a cycle: restoreEvictedPods, and reset if it succeeds.  A    *)
(* wait polls its pods one after the other and starts over at a pod that   *)
(* does not satisfy the condition.                                         *)
(***************************************************************************)
\* Seeded fault: pods are restored before their eviction has propagated.
BeginRestoreAtOnce ==
    /\ thread.pc = "run"
    /\ thread' = [Running({}) EXCEPT !.pc = "restore", !.todo = evictedPodsCache]
    /\ UNCHANGED <<clusterVars, notifications, fakeVars, indexer, evictedPodsCache, history>>

BeginRestore ==
    /\ thread.pc = "run"
    /\ thread' = [Running({}) EXCEPT !.pc = "removed", !.todo = evictedPodsCache]
    /\ UNCHANGED <<clusterVars, notifications, fakeVars, indexer, evictedPodsCache, history>>

\* shouldSkipPodWait.
GoneFromFake(u) == tracker[NameOf[u]] # u

Satisfied(u) ==
    CASE thread.pc = "removed"    -> indexer[NameOf[u]] # u
      [] thread.pc = "accessible" -> indexer[NameOf[u]] # NoPod \/ GoneFromFake(u)
      [] thread.pc = "indexed"    -> indexer[NameOf[u]] = u \/ GoneFromFake(u)

\* The pods a wait is about.
Awaited == IF thread.pc = "removed" THEN evictedPodsCache ELSE thread.restored

Poll ==
    /\ thread.pc \in {"removed", "accessible", "indexed"}
    /\ \E u \in thread.todo :
         thread' = [thread EXCEPT !.todo = IF Satisfied(u) THEN @ \ {u} ELSE Awaited]
    /\ UNCHANGED <<clusterVars, notifications, fakeVars, indexer, evictedPodsCache, history>>

\* After the last wait reset clears the cache and the next cycle begins.
WaitDone ==
    /\ thread.todo = {}
    /\ \/ /\ thread.pc = "removed"
          /\ thread' = [thread EXCEPT !.pc = "restore", !.todo = evictedPodsCache]
          /\ UNCHANGED evictedPodsCache
       \/ /\ thread.pc = "accessible"
          /\ thread' = [thread EXCEPT !.pc = "indexed", !.todo = thread.restored]
          /\ UNCHANGED evictedPodsCache
       \/ /\ thread.pc = "indexed"
          /\ evictedPodsCache' = {}
          /\ thread' = Running(thread.restored)
    /\ UNCHANGED <<clusterVars, notifications, fakeVars, indexer, history>>

\* Seeded fault: the cache is cleared also when the restore failed.
WaitTimeoutResets ==
    /\ thread.pc \in {"removed", "accessible", "indexed"}
    /\ \E u \in Awaited : ~Satisfied(u)
    /\ \/ Spend("timeouts")
       \/ fakeWatch = <<>> /\ UNCHANGED budget
    /\ evictedPodsCache' = {}
    /\ thread' = Running({})
    /\ timedOut' = TRUE
    /\ UNCHANGED <<lister, used, targeted, notifications, fakeVars, indexer>>

\* A wait ends after five seconds, because the fake informer is slow (bounded)
\* or because it has nothing more to deliver: the cycle fails, the next one
\* begins, and the cache is kept.
WaitTimeout ==
    /\ thread.pc \in {"removed", "accessible", "indexed"}
    /\ \E u \in Awaited : ~Satisfied(u)
    /\ \/ Spend("timeouts")
       \/ fakeWatch = <<>> /\ UNCHANGED budget
    /\ thread' = Running({})
    /\ timedOut' = TRUE
    /\ UNCHANGED <<lister, used, targeted, notifications, fakeVars, indexer, evictedPodsCache>>

\* Seeded fault: the pod is looked up in the fake client.
RestoreGetFake ==
    /\ thread.pc = "restore"
    /\ \E u \in thread.todo :
         LET found == tracker[NameOf[u]] = u IN
         thread' = [thread EXCEPT !.todo = @ \ {u},
                                  !.pc = IF found THEN "add" ELSE @,
                                  !.pod = IF found THEN u ELSE NoPod]
    /\ UNCHANGED <<clusterVars, notifications, fakeVars, indexer, evictedPodsCache, history>>

\* The pod is restored if the cluster still has it under its UID.
RestoreGet ==
    /\ thread.pc = "restore"
    /\ \E u \in thread.todo :
         LET found == lister[NameOf[u]] = u IN
         thread' = [thread EXCEPT !.todo = @ \ {u},
                                  !.pc = IF found THEN "add" ELSE @,
                                  !.pod = IF found THEN u ELSE NoPod]
    /\ UNCHANGED <<clusterVars, notifications, fakeVars, indexer, evictedPodsCache, history>>

RestoreAdd ==
    /\ thread.pc = "add"
    /\ TrackerAdd(NameOf[thread.pod], thread.pod)
    /\ thread' = [thread EXCEPT !.pc = "restore", !.restored = @ \cup {thread.pod},
                                !.pod = NoPod]
    /\ UNCHANGED <<clusterVars, notifications, indexer, evictedPodsCache, history>>

RestoreDone ==
    /\ thread.pc = "restore"
    /\ thread.todo = {}
    /\ thread' = [thread EXCEPT !.pc = "accessible", !.todo = thread.restored]
    /\ UNCHANGED <<clusterVars, notifications, fakeVars, indexer, evictedPodsCache, history>>

RestoreStep ==
    WaitDone \/ RestoreGet \/ RestoreAdd \/ RestoreDone
-----------------------------------------------------------------------------
\* The fake informers are synced, on nothing, before the real ones start; the
\* first cycle does not wait for the handlers.
Init ==
    /\ lister \in {f \in Objects : \A n \in Names : f[n] # NoPod => NameOf[f[n]] = n}
    /\ notifications = Listed({n \in Names : lister[n] # NoPod}, lister)
    /\ used = {lister[n] : n \in Names} \ {NoPod}
    /\ tracker = NoObjects
    /\ fakeWatch = <<>>
    /\ indexer = NoObjects
    /\ evictedPodsCache = {}
    /\ targeted = {} /\ timedOut = FALSE
    /\ thread = Running({})
    /\ budget = [changes |-> MaxChanges, gaps |-> MaxWatchGaps, timeouts |-> MaxTimeouts]

Next ==
    \/ \E n \in Names : CreatePod(n) \/ DeletePod(n) \/ ReplacePod(n) \/ EvictGet(n)
    \/ HandleEvent \/ FakeInformer
    \/ EvictDelete
    \/ BeginRestore \/ Poll \/ RestoreStep \/ WaitTimeout

Spec == Init /\ [][Next]_vars

\* Both informers deliver what they have, and the descheduling thread goes on:
\* every cycle comes to its restore, however many pods it evicts before, and
\* a wait polls every 100 milliseconds and ends after five seconds.
Fairness ==
    /\ WF_vars(HandleEvent) /\ WF_vars(FakeInformer)
    /\ WF_vars(EvictDelete) /\ SF_vars(BeginRestore)
    /\ WF_vars(Poll) /\ WF_vars(RestoreStep) /\ WF_vars(WaitTimeout)

FairSpec == Spec /\ Fairness
-----------------------------------------------------------------------------
TypeOK ==
    /\ lister \in Objects /\ tracker \in Objects /\ indexer \in Objects
    /\ notifications \in Seq([type : {"add", "update", "delete"}, name : Names,
                              pod : Uids \cup {NoPod}])
    /\ fakeWatch \in Seq([name : Names, pod : Uids \cup {NoPod}])
    /\ used \subseteq Uids
    /\ evictedPodsCache \subseteq Uids
    /\ targeted \subseteq Names /\ timedOut \in BOOLEAN
    /\ thread \in [pc : Phases, name : Names \cup {NoPod}, pod : Uids \cup {NoPod},
                   todo : SUBSET Uids, restored : SUBSET Uids]
    /\ budget \in [changes : Nat, gaps : Nat, timeouts : Nat]

Unhandled(n) == \E i \in DOMAIN notifications : notifications[i].name = n

\* More than one pod has had the name.
Reused(n) == Cardinality({u \in used : NameOf[u] = n}) > 1

\* A pod of the cluster is missing from the fake client only while an event
\* about it is on its way or the cache still holds it: while no other pod has
\* had its name, no eviction of a dry run is forgotten, whatever fails or times
\* out (podEvictionReactionFnc, restoreEvictedPods, reset).
NoPodForgotten ==
    \A n \in Names :
        lister[n] # NoPod /\ tracker[n] # lister[n] /\ ~Unhandled(n) /\ ~Reused(n)
            => lister[n] \in evictedPodsCache

\* A cycle that follows a successful restore sees every restored pod the fake
\* client has, while no wait has timed out and no other pod has had its name
\* (the waits of restoreEvictedPods).
RestoredSeen ==
    thread.pc = "run" /\ ~timedOut =>
        \A u \in thread.restored :
            GoneFromFake(u) \/ indexer[NameOf[u]] = u \/ Reused(NameOf[u])

\* A dry run changes nothing for the pods it does not evict: under a name no
\* plugin has evicted, the fake client has what the cluster has as soon as its
\* events are handled, also when the real watch broke (registerEventHandlers).
BystandersMirrored ==
    \A n \in Names \ targeted : ~Unhandled(n) => tracker[n] = lister[n]

\* "restoreEvictedPods restores pods from the evicted pods cache back to the
\* fake client": a pod evicted in a dry run and still in the cluster is visible
\* again later, for another cycle.
EvictedRestored ==
    \A u \in Uids :
        (u \in evictedPodsCache /\ lister[NameOf[u]] = u)
            ~> (indexer[NameOf[u]] = u \/ lister[NameOf[u]] # u)

\* That holds as long as every wait ends in time and no name is used again
\* (restoreEvictedPods).
EvictedComeBack == [](~timedOut /\ \A n \in Names : ~Reused(n)) => EvictedRestored

\* "These handlers will keep the fake client in sync with ongoing changes":
\* once every event has been handled the fake client has no pod the cluster
\* has not.
NoGhostPods ==
    \A n \in Names :
        notifications = <<>> /\ tracker[n] # NoPod => tracker[n] = lister[n]
=============================================================================
