----------------------------- MODULE PodEvictor -----------------------------
(***************************************************************************)
(* The pod evictor (pkg/descheduler/evictions/evictions.go, PodEvictor)    *)
(* with everything that runs beside it:                                    *)
(*                                                                         *)
(*   - the descheduling thread, which calls ResetCounters once a cycle and *)
(*     EvictPod for one pod after the other.  EvictPod takes the cache's   *)
(*     lock once per question it asks, and waits for the API server in     *)
(*     between, so it is a sequence of actions (variable call);            *)
(*   - the pod informer's handler goroutine, which works off watch events  *)
(*     in order and reads and deletes a cache item in two critical         *)
(*     sections when a pod ends (variable handler);                        *)
(*   - the goroutine that runs cleanCache;                                 *)
(*   - the API server and the components that carry out evictions in       *)
(*     background (external: modelled by what the evictor sees of them).   *)
(*                                                                         *)
(* Metrics, events and log lines are left out.                             *)
(***************************************************************************)
EXTENDS EvictionRequestsCache, Sequences, Functions

CONSTANTS
    Names,                  \* namespace/name keys of pods
    NameOf,                 \* the name a UID is created under
    NodeOf,                 \* the node the scheduler gives a UID
    NoNode,                 \* pod.Spec.NodeName = ""
    NoPod,                  \* no object under a name
    NoLimit,                \* a nil limit
    MaxPodsToEvictTotal,
    MaxPodsToEvictPerNode,
    MaxPodsToEvictPerNamespace,
    FeatureGates,           \* the settings of the feature gate, TRUE being on
    MaxChanges,             \* bound: changes other actors make to pods
    MaxWatchGaps,           \* bound: times the watch breaks and relists
    MaxRestarts,            \* bound: restarts of the descheduler
    AcceptedCap             \* bound: size the history variable accepted grows to

VARIABLES
    totalPodCount, nodePodCount, namespacePodCount,  \* PodEvictor's counters
    EvictionsInBackground,  \* PodEvictor's feature gate
    call,       \* the EvictPod call in flight
    handler,    \* the informer handler between two critical sections
    server,     \* name -> the pod object the API server holds
    created,    \* UIDs used so far
    watch,      \* events the handler has not worked off, oldest first
    store,      \* name -> the object the handler saw last
    unsynced,   \* events of the initial list still in watch
    listed,     \* history: objects of the initial list nobody changed since
    accepted,   \* history: pods whose eviction was accepted this cycle
    budget      \* what is left of MaxChanges, MaxWatchGaps, MaxRestarts

countVars == <<totalPodCount, nodePodCount, namespacePodCount, EvictionsInBackground>>
informerVars == <<watch, store, unsynced>>
serverVars == <<server, created, listed, budget>>
vars == <<cacheVars, countVars, informerVars, serverVars, call, handler, accepted>>

Limits == Nat \cup {NoLimit}

ASSUME EvictorAssumption ==
    /\ IsFiniteSet(Names)
    /\ NameOf \in [Uids -> Names]
    /\ NoNode \in Nodes
    /\ NodeOf \in [Uids -> Nodes \ {NoNode}]
    /\ NoLimit \notin Nat
    /\ MaxPodsToEvictTotal \in Limits
    /\ MaxPodsToEvictPerNode \in Limits
    /\ MaxPodsToEvictPerNamespace \in Limits
    /\ FeatureGates \subseteq BOOLEAN
    /\ {MaxChanges, MaxWatchGaps, MaxRestarts, AcceptedCap} \subseteq Nat

\* request and inProgress: the two annotations; completed: phase Succeeded
\* or Failed.
Pod == {p \in [uid : Uids, node : Nodes, request : BOOLEAN, inProgress : BOOLEAN,
               completed : BOOLEAN] : p.node \in {NoNode, NodeOf[p.uid]}}

Event == [name : Names, obj : Pod \cup {NoPod}]

Phases == {"idle", "hasPod", "total", "node", "namespace", "evict", "response"}
Idle == [pc |-> "idle", pod |-> NoPod, resp |-> "none"]
HandlerIdle == [pc |-> "idle", uids |-> {}]

\* The names of S in some order, each with its object.
ListedEvents(S, cur) ==
    LET order == CHOOSE f \in Injection(1 .. Cardinality(S), S) : TRUE
    IN  [i \in 1 .. Cardinality(S) |-> [name |-> order[i], obj |-> cur[order[i]]]]
-----------------------------------------------------------------------------
(***************************************************************************)
(* The process starts: empty counters and cache, informers that list every *)
(* pod and hand each one to the handler as an addition.                    *)
(***************************************************************************)
InitialList(cur) == ListedEvents({n \in Names : cur[n] # NoPod}, cur)
NothingSeen == [n \in Names |-> NoPod]

Init ==
    /\ CacheInit
    /\ EvictionsInBackground \in FeatureGates
    /\ totalPodCount = 0
    /\ nodePodCount = ZeroPerNode
    /\ namespacePodCount = ZeroPerNamespace
    /\ call = Idle
    /\ handler = HandlerIdle
    /\ server \in [Names -> Pod \cup {NoPod}]
    /\ \A n \in Names : server[n] # NoPod =>
         /\ NameOf[server[n].uid] = n
         /\ ~server[n].completed
         /\ server[n].inProgress => server[n].request
    /\ created = {server[n].uid : n \in {m \in Names : server[m] # NoPod}}
    /\ watch = InitialList(server)
    /\ unsynced = Len(watch)
    /\ store = NothingSeen
    /\ listed = server
    /\ accepted = {}
    /\ budget = [changes |-> MaxChanges, gaps |-> MaxWatchGaps, restarts |-> MaxRestarts]

Restart ==
    /\ budget.restarts > 0
    /\ budget' = [budget EXCEPT !.restarts = @ - 1]
    /\ requests' = EmptyCache
    /\ requestsPerNode' = ZeroPerNode
    /\ requestsPerNamespace' = ZeroPerNamespace
    /\ requestsTotal' = 0
    /\ totalPodCount' = 0
    /\ nodePodCount' = ZeroPerNode
    /\ namespacePodCount' = ZeroPerNamespace
    /\ call' = Idle
    /\ handler' = HandlerIdle
    /\ watch' = InitialList(server)
    /\ unsynced' = Len(watch')
    /\ store' = NothingSeen
    /\ listed' = server
    /\ accepted' = {}
    /\ UNCHANGED <<server, created, EvictionsInBackground>>
-----------------------------------------------------------------------------
(***************************************************************************)
(* The cluster.  Every change of an object is one watch event.             *)
(***************************************************************************)
ServerPut(n, obj) ==
    /\ server' = [server EXCEPT ![n] = obj]
    /\ watch' = Append(watch, [name |-> n, obj |-> obj])
    /\ listed' = [listed EXCEPT ![n] = NoPod]
    /\ UNCHANGED <<store, unsynced>>

ChangePod(n) ==
    LET p == server[n] IN
    /\ budget.changes > 0
    /\ budget' = [budget EXCEPT !.changes = @ - 1]
    /\ \/ /\ p = NoPod
          /\ \E u \in Uids \ created, r \in BOOLEAN :
               /\ NameOf[u] = n
               /\ ServerPut(n, [uid |-> u, node |-> NoNode, request |-> r,
                                inProgress |-> FALSE, completed |-> FALSE])
               /\ created' = created \cup {u}
       \/ /\ p # NoPod
          /\ \/ p.request /\ ServerPut(n, [p EXCEPT !.inProgress = ~@])
             \/ ServerPut(n, [p EXCEPT !.request = ~@])
             \/ p.node = NoNode /\ ServerPut(n, [p EXCEPT !.node = NodeOf[p.uid]])
             \/ ~p.completed /\ ServerPut(n, [p EXCEPT !.completed = TRUE])
             \/ ServerPut(n, NoPod)
          /\ UNCHANGED created
    /\ UNCHANGED <<cacheVars, countVars, call, handler, accepted>>

\* What the informer knows of n once it has worked off q.
LastKnown(n, q) ==
    LET ofN == {i \in DOMAIN q : q[i].name = n}
    IN  IF ofN = {} THEN store[n]
        ELSE q[CHOOSE i \in ofN : \A j \in ofN : j =< i].obj

\* The watch breaks: the changes after the k-th event are never delivered one
\* by one; the list that follows shows the objects as they are now.
WatchGap ==
    /\ budget.gaps > 0
    /\ budget' = [budget EXCEPT !.gaps = @ - 1]
    /\ \E k \in unsynced .. Len(watch) - 1 :
         LET kept == SubSeq(watch, 1, k)
         IN  watch' = kept \o ListedEvents(
                        {n \in Names : LastKnown(n, kept) # server[n]}, server)
    /\ UNCHANGED <<cacheVars, countVars, call, handler, accepted, server,
                   created, listed, store, unsynced>>
-----------------------------------------------------------------------------
(***************************************************************************)
(* The informer handlers.                                                  *)
(***************************************************************************)
InBackground(p) == p.request /\ p.inProgress /\ ~p.completed

\* Leave the cache alone, or read it now and delete from it in a later step.
NoCacheChange == UNCHANGED <<cacheVars, handler>>
DeleteLater(u) == handler' = [pc |-> "delete", uids |-> {u}] /\ UNCHANGED cacheVars

AddFunc(p) ==
    \/ InBackground(p) /\ AddPod(p.uid, p.node) /\ UNCHANGED handler
    \/ ~InBackground(p) /\ NoCacheChange

\* Seeded fault: a cancelled eviction (annotation removed) stays in the cache.
UpdateFuncIgnoresCancel(old, new) ==
    \/ ~new.request /\ DeletePod(new.uid) /\ UNCHANGED handler
    \/ new.request /\ new.completed /\ DeleteLater(new.uid)
    \/ new.request /\ ~new.completed /\ ~new.inProgress /\ NoCacheChange
    \/ InBackground(new) /\ AddPod(new.uid, new.node) /\ UNCHANGED handler

UpdateFunc(old, new) ==
    \/ /\ ~new.request
       /\ DeletePod(new.uid) /\ UNCHANGED handler
    \/ /\ new.request /\ new.completed
       /\ \/ HasPod(new.uid) /\ DeleteLater(new.uid)
          \/ ~HasPod(new.uid) /\ NoCacheChange
    \/ /\ new.request /\ ~new.completed /\ ~new.inProgress
       /\ \/ old.inProgress /\ DeletePod(new.uid) /\ UNCHANGED handler
          \/ ~old.inProgress /\ NoCacheChange
    \/ /\ InBackground(new)
       /\ AddPod(new.uid, new.node) /\ UNCHANGED handler

\* Seeded fault: only an assumed item is removed when its pod is deleted.
DeleteFuncAssumedOnly(old) ==
    \/ old.uid \in Assumed /\ DeleteLater(old.uid)
    \/ old.uid \notin Assumed /\ NoCacheChange

\* getPod for the metric first, then deletePod whatever it returned.
DeleteFunc(old) == DeleteLater(old.uid)

HandleEvent ==
    /\ EvictionsInBackground
    /\ handler.pc = "idle"
    /\ watch # <<>>
    /\ LET n == Head(watch).name
           old == store[n]
           new == Head(watch).obj
       IN  /\ \/ old = NoPod /\ new # NoPod /\ AddFunc(new)
              \/ old # NoPod /\ new # NoPod /\ UpdateFunc(old, new)
              \/ old # NoPod /\ new = NoPod /\ DeleteFunc(old)
           /\ store' = [store EXCEPT ![n] = new]
    /\ watch' = Tail(watch)
    /\ unsynced' = IF unsynced > 0 THEN unsynced - 1 ELSE 0
    /\ UNCHANGED <<countVars, serverVars, call, accepted>>

\* With the gate off no handler is registered: the informer only keeps its
\* store up to date.
StoreEvent ==
    /\ ~EvictionsInBackground
    /\ watch # <<>>
    /\ store' = [store EXCEPT ![Head(watch).name] = Head(watch).obj]
    /\ watch' = Tail(watch)
    /\ unsynced' = IF unsynced > 0 THEN unsynced - 1 ELSE 0
    /\ UNCHANGED <<cacheVars, countVars, serverVars, call, handler, accepted>>

HandlerDelete ==
    /\ handler.pc = "delete"
    /\ \E u \in handler.uids : DeletePod(u)
    /\ handler' = HandlerIdle
    /\ UNCHANGED <<countVars, informerVars, serverVars, call, accepted>>
-----------------------------------------------------------------------------
(***************************************************************************)
(* The cleaner goroutine, and time.                                        *)
(***************************************************************************)
Clean ==
    /\ EvictionsInBackground
    /\ CleanCache
    /\ UNCHANGED <<countVars, informerVars, serverVars, call, handler, accepted>>

TimePasses ==
    /\ Tick
    /\ UNCHANGED <<countVars, informerVars, serverVars, call, handler, accepted>>
-----------------------------------------------------------------------------
(***************************************************************************)
(* The descheduling thread.                                                *)
(***************************************************************************)
ResetCounters ==
    /\ call.pc = "idle"
    /\ totalPodCount' = 0
    /\ nodePodCount' = ZeroPerNode
    /\ namespacePodCount' = ZeroPerNamespace
    /\ accepted' = {}
    /\ UNCHANGED <<EvictionsInBackground, cacheVars, informerVars, serverVars, call, handler>>

\* The lister is ahead of the handlers by any number of events.
Visible(n) == ({store[n]} \cup {watch[i].obj : i \in {j \in DOMAIN watch : watch[j].name = n}})
              \ {NoPod}

Goto(pc) == call' = [call EXCEPT !.pc = pc]
Return == call' = Idle

\* Seeded fault: the loop starts without waiting for the handlers to sync.
EvictPodUnsynced(n) ==
    /\ call.pc = "idle"
    /\ \E p \in Visible(n) :
         /\ p.node # NoNode
         /\ call' = [pc |-> "hasPod", pod |-> p, resp |-> "none"]
    /\ UNCHANGED <<cacheVars, countVars, informerVars, serverVars, handler, accepted>>

\* A plugin picks a pod from the list of a node and calls EvictPod; the loop
\* only runs once the handlers have worked off the initial list.
EvictPod(n) ==
    /\ call.pc = "idle"
    /\ unsynced = 0
    /\ \E p \in Visible(n) :
         /\ p.node # NoNode
         /\ call' = [pc |-> "hasPod", pod |-> p, resp |-> "none"]
    /\ UNCHANGED <<cacheVars, countVars, informerVars, serverVars, handler, accepted>>

\* Seeded fault: the cache is not asked before the limits are checked.
NeverAlreadyRequested ==
    /\ call.pc = "hasPod"
    /\ Goto("total")
    /\ UNCHANGED <<cacheVars, countVars, informerVars, serverVars, handler, accepted>>

AlreadyRequested ==
    /\ call.pc = "hasPod"
    /\ IF EvictionsInBackground /\ call.pod.request /\ HasPod(call.pod.uid)
       THEN Return ELSE Goto("total")
    /\ UNCHANGED <<cacheVars, countVars, informerVars, serverVars, handler, accepted>>

Exceeds(n, limit) == limit # NoLimit /\ n > limit

\* Seeded fault: outstanding requests do not count against the limits.
NoEvictionRequests(n) == 0

EvictionRequests(n) == IF EvictionsInBackground THEN n ELSE 0

CheckTotal ==
    /\ call.pc = "total"
    /\ IF Exceeds(totalPodCount + EvictionRequests(requestsTotal) + 1,
                  MaxPodsToEvictTotal)
       THEN Return ELSE Goto("node")
    /\ UNCHANGED <<cacheVars, countVars, informerVars, serverVars, handler, accepted>>

CheckNode ==
    LET n == call.pod.node IN
    /\ call.pc = "node"
    /\ IF n # NoNode /\ Exceeds(nodePodCount[n] + EvictionRequests(requestsPerNode[n]) + 1,
                                MaxPodsToEvictPerNode)
       THEN Return ELSE Goto("namespace")
    /\ UNCHANGED <<cacheVars, countVars, informerVars, serverVars, handler, accepted>>

\* Seeded fault: the evictions already made in the namespace are not counted.
CheckNamespaceForgetsEvicted ==
    LET s == NamespaceOf[call.pod.uid] IN
    /\ call.pc = "namespace"
    /\ IF Exceeds(EvictionRequests(requestsPerNamespace[s]) + 1, MaxPodsToEvictPerNamespace)
       THEN Return ELSE Goto("evict")
    /\ UNCHANGED <<cacheVars, countVars, informerVars, serverVars, handler, accepted>>

CheckNamespace ==
    LET s == NamespaceOf[call.pod.uid] IN
    /\ call.pc = "namespace"
    /\ IF Exceeds(namespacePodCount[s] + EvictionRequests(requestsPerNamespace[s]) + 1,
                  MaxPodsToEvictPerNamespace)
       THEN Return ELSE Goto("evict")
    /\ UNCHANGED <<cacheVars, countVars, informerVars, serverVars, handler, accepted>>

\* The API server works on the eviction, which names the pod and no UID.  It
\* may refuse (disruption budget, fault), evict the pod, at once or leaving it
\* to terminate (the answer may be lost), or, for an annotated pod, answer that
\* an eviction in background started.
ServerEvicts ==
    LET n == NameOf[call.pod.uid]
        Respond(r) == call' = [call EXCEPT !.pc = "response", !.resp = r]
    IN
    /\ call.pc = "evict"
    /\ \/ /\ \/ Respond("error")
             \/ server[n] # NoPod /\ Respond("ok")
             \/ server[n] # NoPod /\ server[n].request /\ Respond("background")
          /\ UNCHANGED <<server, watch, listed, store, unsynced>>
       \/ /\ server[n] # NoPod
          /\ ServerPut(n, NoPod)
          /\ \E r \in {"ok", "error"} : Respond(r)
    /\ UNCHANGED <<cacheVars, countVars, created, budget, handler, accepted>>

Accept(u) ==
    accepted' = IF Cardinality(accepted) < AcceptedCap THEN accepted \cup {u} ELSE accepted

\* The pod was evicted: count it.
CountEviction ==
    LET n == call.pod.node
        s == NamespaceOf[call.pod.uid]
    IN
    /\ call.pc = "response" /\ call.resp = "ok"
    /\ nodePodCount' = IF n = NoNode THEN nodePodCount
                       ELSE [nodePodCount EXCEPT ![n] = @ + 1]
    /\ namespacePodCount' = [namespacePodCount EXCEPT ![s] = @ + 1]
    /\ totalPodCount' = totalPodCount + 1
    /\ Return
    /\ Accept(call.pod.uid)
    /\ UNCHANGED <<EvictionsInBackground, cacheVars, informerVars, serverVars, handler>>

\* The eviction goes on in background: assume it, unless the pod has ended.
\* An answer for a pod that was read without the annotation is an error like
\* any other.
BackgroundEviction ==
    EvictionsInBackground /\ call.resp = "background" /\ call.pod.request

AssumeEviction ==
    /\ call.pc = "response" /\ BackgroundEviction /\ ~call.pod.completed
    /\ AssumePod(call.pod.uid, call.pod.node)
    /\ Return
    /\ Accept(call.pod.uid)
    /\ UNCHANGED <<countVars, informerVars, serverVars, handler>>

IgnoreOrFail ==
    /\ call.pc = "response" /\ call.resp # "ok"
    /\ BackgroundEviction => call.pod.completed
    /\ Return
    /\ UNCHANGED <<cacheVars, countVars, informerVars, serverVars, handler, accepted>>

EvictPodStep ==
    \/ AlreadyRequested \/ CheckTotal \/ CheckNode \/ CheckNamespace
    \/ ServerEvicts \/ CountEviction \/ AssumeEviction \/ IgnoreOrFail
-----------------------------------------------------------------------------
Next ==
    \/ \E n \in Names : ChangePod(n) \/ EvictPod(n)
    \/ WatchGap \/ Restart
    \/ HandleEvent \/ StoreEvent \/ HandlerDelete
    \/ Clean \/ TimePasses
    \/ ResetCounters \/ EvictPodStep

Spec == Init /\ [][Next]_vars

\* The informer delivers what it has, the cleaner runs every resync period,
\* the clock advances, and an EvictPod call gets its answer.
Fairness ==
    /\ WF_vars(HandleEvent) /\ WF_vars(StoreEvent) /\ WF_vars(HandlerDelete)
    /\ WF_vars(Clean) /\ WF_vars(TimePasses)
    /\ WF_vars(EvictPodStep)

FairSpec == Spec /\ Fairness
-----------------------------------------------------------------------------
TypeOK ==
    /\ CacheTypeOK
    /\ EvictionsInBackground \in BOOLEAN
    /\ totalPodCount \in Nat
    /\ nodePodCount \in [Nodes -> Nat]
    /\ namespacePodCount \in [Namespaces -> Nat]
    /\ call \in [pc : Phases, pod : Pod \cup {NoPod},
                 resp : {"none", "ok", "background", "error"}]
    /\ call.pc # "idle" => call.pod \in Pod
    /\ handler \in [pc : {"idle", "delete"}, uids : SUBSET Uids]
    /\ server \in [Names -> Pod \cup {NoPod}]
    /\ created \subseteq Uids
    /\ watch \in Seq(Event)
    /\ store \in [Names -> Pod \cup {NoPod}]
    /\ unsynced \in 0 .. Len(watch)
    /\ listed \in [Names -> Pod \cup {NoPod}]
    /\ accepted \subseteq Uids
    /\ budget \in [changes : Nat, gaps : Nat, restarts : Nat]

Within(n, limit) == limit # NoLimit => n =< limit

AssumedOn(n) == OnNode(Assumed, n)
AssumedIn(s) == InNamespace(Assumed, s)

\* What EvictPod has established when it comes to pc: room for one more.
InFlight ==
    /\ call.pc \in {"node", "namespace", "evict", "response"} =>
         Within(totalPodCount + Cardinality(Assumed) + 1, MaxPodsToEvictTotal)
    /\ call.pc \in {"namespace", "evict", "response"} =>
         LET n == call.pod.node
         IN  Within(nodePodCount[n] + Cardinality(AssumedOn(n)) + 1,
                    MaxPodsToEvictPerNode)
    /\ call.pc \in {"evict", "response"} =>
         LET s == NamespaceOf[call.pod.uid]
         IN  Within(namespacePodCount[s] + Cardinality(AssumedIn(s)) + 1,
                    MaxPodsToEvictPerNamespace)

\* A pod is counted on the node it is on, or on none.
Placed ==
    /\ \A u \in DOMAIN requests : requests[u].node \in {NoNode, NodeOf[u]}
    /\ call.pc # "idle" => call.pod.node = NodeOf[call.pod.uid]

GateOffEmpty == ~EvictionsInBackground => DOMAIN requests = {}

\* Evictions of this cycle and outstanding requests of the evictor together
\* never exceed a limit, although EvictPod reads the request counters under
\* a lock it gives up before the request is made and the handlers and the
\* cleaner change the cache in between (EvictPod).
BudgetKept ==
    /\ Within(totalPodCount + Cardinality(Assumed), MaxPodsToEvictTotal)
    /\ \A n \in Nodes \ {NoNode} :
         Within(nodePodCount[n] + Cardinality(AssumedOn(n)), MaxPodsToEvictPerNode)
    /\ \A s \in Namespaces :
         Within(namespacePodCount[s] + Cardinality(AssumedIn(s)),
                MaxPodsToEvictPerNamespace)

TotalBudget ==
    INSTANCE EvictionBudget WITH
        Members <- Uids, Limit <- MaxPodsToEvictTotal,
        evicted <- totalPodCount, outstanding <- Assumed

NodeBudget(n) ==
    INSTANCE EvictionBudget WITH
        Members <- Uids, Limit <- MaxPodsToEvictPerNode,
        evicted <- nodePodCount[n], outstanding <- AssumedOn(n)

NamespaceBudget(s) ==
    INSTANCE EvictionBudget WITH
        Members <- Uids, Limit <- MaxPodsToEvictPerNamespace,
        evicted <- namespacePodCount[s], outstanding <- AssumedIn(s)

\* The evictor implements the abstract budget for the run, for every node and
\* for every namespace: no interleaving spends a limit in any other way, or
\* frees what a new cycle must not free (EvictPod, ResetCounters).
KeepsBudgets ==
    /\ TotalBudget!Spec
    /\ \A n \in Nodes \ {NoNode} : NodeBudget(n)!Init
    /\ [][\A n \in Nodes \ {NoNode} :
            [NodeBudget(n)!Next]_<<nodePodCount[n], AssumedOn(n)>>]_vars
    /\ \A s \in Namespaces : NamespaceBudget(s)!Init
    /\ [][\A s \in Namespaces :
            [NamespaceBudget(s)!Next]_<<namespacePodCount[s], AssumedIn(s)>>]_vars

\* A pod whose eviction in background the evictor has already requested, and
\* which was not given up on, is never sent to the API server again
\* (EvictPod's hasPod check, made before the evictor's lock is taken).
NotRequestedTwice ==
    call.pc = "evict" /\ EvictionsInBackground /\ call.pod.request
        => call.pod.uid \notin Assumed

\* A detected item stands for a pod the handlers last saw with an eviction in
\* progress: whatever order pods are annotated, cancelled, completed, deleted
\* and recreated in, no other detected item stays behind (AddFunc, UpdateFunc,
\* DeleteFunc).
DetectedAreInProgress ==
    \A u \in (DOMAIN requests \ Assumed) \ handler.uids :
        LET seen == store[NameOf[u]]
        IN  seen # NoPod /\ seen.uid = u /\ InBackground(seen)

\* After a restart the loop does not evict before every eviction that was in
\* progress is counted again (WaitForEventHandlersSync, AddFunc).
StartupCounted ==
    call.pc # "idle" /\ EvictionsInBackground =>
        \A n \in Names : listed[n] # NoPod /\ InBackground(listed[n])
                           => HasPod(listed[n].uid)

Gone(u) == u \in created /\ (server[NameOf[u]] # NoPod => server[NameOf[u]].uid # u)

WatchBroke == budget.gaps < MaxWatchGaps

\* While the watch holds, the item of a pod that is gone leaves the cache, also
\* when the pod was deleted before the answer to its eviction arrived, or the
\* process restarted in between (DeleteFunc, cleanCache).
GonePodsLeave == \A u \in Uids : (HasPod(u) /\ Gone(u)) ~> (~HasPod(u) \/ WatchBroke)

\* The same whatever the watch does: "Each item in the cache will have a TTL".
GonePodsLeaveAnyway == \A u \in Uids : (HasPod(u) /\ Gone(u)) ~> ~HasPod(u)

\* "cleanCache removes all assumed entries that has not been confirmed": an
\* eviction the handlers have seen in progress stays counted.
InProgressCounted ==
    handler.pc = "idle" /\ EvictionsInBackground =>
        \A n \in Names : store[n] # NoPod /\ InBackground(store[n])
                           => HasPod(store[n].uid)

\* "Maximum number of pods evicted per rescheduling cycle": no more pods than
\* the limit are gone after evictions the evictor asked for in the cycle.
CycleLimit ==
    Within(Cardinality({u \in accepted : Gone(u)}), MaxPodsToEvictTotal)
=============================================================================
