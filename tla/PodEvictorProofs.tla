-------------------------- MODULE PodEvictorProofs --------------------------
(***************************************************************************)
(* For every cluster and every value of the limits: the evictor keeps its  *)
(* types, its counters agree with the cache, and no limit is exceeded.     *)
(***************************************************************************)
EXTENDS PodEvictor, EvictionRequestsCacheProofs

\* TypeOK by the part of the state it is about.
CountTypeOK ==
    /\ EvictionsInBackground \in BOOLEAN
    /\ totalPodCount \in Nat
    /\ nodePodCount \in [Nodes -> Nat]
    /\ namespacePodCount \in [Namespaces -> Nat]

CallTypeOK ==
    /\ call \in [pc : Phases, pod : Pod \cup {NoPod},
                 resp : {"none", "ok", "background", "error"}]
    /\ call.pc # "idle" => call.pod \in Pod

HandlerTypeOK == handler \in [pc : {"idle", "delete"}, uids : SUBSET Uids]

InformerTypeOK ==
    /\ watch \in Seq(Event)
    /\ store \in [Names -> Pod \cup {NoPod}]
    /\ unsynced \in 0 .. Len(watch)

ServerTypeOK ==
    /\ server \in [Names -> Pod \cup {NoPod}]
    /\ created \subseteq Uids
    /\ listed \in [Names -> Pod \cup {NoPod}]
    /\ budget \in [changes : Nat, gaps : Nat, restarts : Nat]

LEMMA TypeParts ==
    TypeOK <=> /\ CacheTypeOK /\ CountTypeOK /\ CallTypeOK /\ HandlerTypeOK
               /\ InformerTypeOK /\ ServerTypeOK /\ accepted \subseteq Uids
BY DEF TypeOK, CountTypeOK, CallTypeOK, HandlerTypeOK, InformerTypeOK, ServerTypeOK

\* A listing of some names is a sequence of events.
LEMMA ListedEventsType ==
    ASSUME NEW S \in SUBSET Names, NEW cur \in [Names -> Pod \cup {NoPod}]
    PROVE  ListedEvents(S, cur) \in Seq(Event)
<1> DEFINE order == CHOOSE f \in Injection(1 .. Cardinality(S), S) : TRUE
<1>1. IsFiniteSet(S)
    BY EvictorAssumption, FS_Subset
<1>2. /\ Cardinality(S) \in Nat
      /\ \E f : f \in Injection(1 .. Cardinality(S), S)
    BY <1>1, FS_CardinalityType DEF ExistsBijection, Bijection
<1>3. order \in [1 .. Cardinality(S) -> S]
    BY <1>2 DEF Injection
<1> HIDE DEF order
<1>4. \A i \in 1 .. Cardinality(S) : [name |-> order[i], obj |-> cur[order[i]]] \in Event
    BY <1>3 DEF Event
<1> QED BY <1>2, <1>4 DEF ListedEvents, order

\* What every operation of the cache but assumePod does to the assumed items:
\* none is added, none moves.
CacheShrinks ==
    /\ Assumed' \subseteq Assumed
    /\ \A u \in Assumed' : requests'[u].node = requests[u].node

LEMMA FiniteAssumed ==
    ASSUME CacheTypeOK
    PROVE  /\ IsFiniteSet(Assumed) /\ Cardinality(Assumed) \in Nat
           /\ \A n : IsFiniteSet(AssumedOn(n)) /\ Cardinality(AssumedOn(n)) \in Nat
           /\ \A s : IsFiniteSet(AssumedIn(s)) /\ Cardinality(AssumedIn(s)) \in Nat
<1>1. /\ Assumed \in SUBSET DOMAIN requests
      /\ \A n : AssumedOn(n) \in SUBSET DOMAIN requests
      /\ \A s : AssumedIn(s) \in SUBSET DOMAIN requests
    BY DEF Assumed, AssumedOn, AssumedIn, OnNode, InNamespace
<1> QED BY <1>1, FiniteCache, FS_CardinalityType

\* Of two natural numbers, the second is not greater.
LeqNat(x, y) == x \in Nat /\ y \in Nat /\ x =< y

\* Fewer items are assumed, on every node and in every namespace.
LEMMA FewerAssumed ==
    ASSUME CacheTypeOK, CacheShrinks
    PROVE  /\ LeqNat(Cardinality(Assumed'), Cardinality(Assumed))
           /\ \A n \in Nodes :
                LeqNat(Cardinality(AssumedOn(n)'), Cardinality(AssumedOn(n)))
           /\ \A s \in Namespaces :
                LeqNat(Cardinality(AssumedIn(s)'), Cardinality(AssumedIn(s)))
<1>1. /\ Assumed' \in SUBSET Assumed
      /\ \A n \in Nodes : AssumedOn(n)' \in SUBSET AssumedOn(n)
      /\ \A s \in Namespaces : AssumedIn(s)' \in SUBSET AssumedIn(s)
    BY DEF CacheShrinks, AssumedOn, AssumedIn, OnNode, InNamespace
<1>2. ASSUME NEW A, NEW B \in SUBSET A, IsFiniteSet(A)
      PROVE  LeqNat(Cardinality(B), Cardinality(A))
    BY <1>2, FS_Subset, FS_CardinalityType DEF LeqNat
<1> QED BY <1>1, <1>2, FiniteAssumed

LEMMA UnchangedShrinks == ASSUME UNCHANGED cacheVars PROVE CacheShrinks
BY DEF CacheShrinks, cacheVars, Assumed

LEMMA AddPodShrinks ==
    ASSUME CacheTypeOK, NEW u, NEW n, AddPod(u, n) PROVE CacheShrinks
<1>1. CASE UNCHANGED cacheVars
    BY <1>1, UnchangedShrinks
<1>2. CASE ~HasPod(u) /\ requests' = WithItem(u, Detected(n))
  <2>1. /\ requests'[u].evictionAssumed = FALSE
        /\ DOMAIN requests' = DOMAIN requests \cup {u}
        /\ \A v \in DOMAIN requests : v # u => requests'[v] = requests[v]
      BY <1>2 DEF WithItem, Detected
  <2> QED BY <2>1 DEF CacheShrinks, Assumed
<1> QED BY <1>1, <1>2 DEF AddPod

LEMMA DeleteItemsShrinks == ASSUME NEW S, DeleteItems(S) PROVE CacheShrinks
<1>1. /\ DOMAIN requests' \subseteq DOMAIN requests
      /\ \A v \in DOMAIN requests' : requests'[v] = requests[v]
    BY DEF DeleteItems
<1> QED BY <1>1 DEF CacheShrinks, Assumed

LEMMA TickShrinks == ASSUME CacheTypeOK, Tick PROVE CacheShrinks
<1>1. DOMAIN requests' = DOMAIN requests
    BY DEF Tick
<1>2. ASSUME NEW v \in DOMAIN requests, v \notin Assumed
      PROVE  requests'[v] = requests[v]
    BY <1>2 DEF Tick
<1>3. ASSUME NEW v \in DOMAIN requests
      PROVE  requests'[v].node = requests[v].node
    BY DEF Tick, Older
<1> QED BY <1>1, <1>2, <1>3 DEF CacheShrinks, Assumed

ItemsPlaced == \A u \in DOMAIN requests : requests[u].node \in {NoNode, NodeOf[u]}

\* The cache's operations once more, with what they do to the assumed items and
\* where they leave the items.
CacheKept == CacheInv' /\ CacheShrinks /\ ItemsPlaced'

LEMMA UnchangedKeeps ==
    ASSUME CacheInv, ItemsPlaced, UNCHANGED cacheVars PROVE CacheKept
BY UnchangedShrinks
   DEF CacheKept, ItemsPlaced, cacheVars, CacheInv, CacheTypeOK, CountersMatch,
       OnNode, InNamespace

LEMMA AddPodKeeps ==
    ASSUME CacheInv, ItemsPlaced, NEW u \in Uids, NEW n \in Nodes,
           n \in {NoNode, NodeOf[u]}, AddPod(u, n)
    PROVE  CacheKept
<1>1. CacheInv' /\ CacheShrinks
    BY AddPodInv, AddPodShrinks DEF CacheInv
<1>2. ItemsPlaced'
  <2>1. CASE UNCHANGED cacheVars
      BY <2>1 DEF ItemsPlaced, cacheVars
  <2>2. CASE requests' = WithItem(u, Detected(n))
    <3>1. /\ requests'[u].node = n
          /\ DOMAIN requests' = DOMAIN requests \cup {u}
          /\ \A v \in DOMAIN requests : v # u => requests'[v] = requests[v]
        BY <2>2 DEF WithItem, Detected
    <3> QED BY <3>1 DEF ItemsPlaced
  <2> QED BY <2>1, <2>2 DEF AddPod
<1> QED BY <1>1, <1>2 DEF CacheKept

LEMMA DeleteItemsKeeps ==
    ASSUME CacheInv, ItemsPlaced, NEW S \in SUBSET DOMAIN requests, DeleteItems(S)
    PROVE  CacheKept
<1>1. ItemsPlaced'
    BY DEF ItemsPlaced, DeleteItems
<1> QED BY <1>1, DeleteItemsInv, DeleteItemsShrinks DEF CacheKept

LEMMA DeletePodKeeps ==
    ASSUME CacheInv, ItemsPlaced, NEW u, DeletePod(u) PROVE CacheKept
BY DeleteItemsKeeps DEF DeletePod

LEMMA CleanCacheKeeps == ASSUME CacheInv, ItemsPlaced, CleanCache PROVE CacheKept
BY DeleteItemsKeeps DEF CleanCache, Expired, Assumed

LEMMA TickKeeps == ASSUME CacheInv, ItemsPlaced, Tick PROVE CacheKept
<1>1. ItemsPlaced'
    BY DEF ItemsPlaced, Tick, Older
<1> QED BY <1>1, TickInv, TickShrinks DEF CacheKept, CacheInv

-----------------------------------------------------------------------------
(***************************************************************************)
(* The inductive invariant.  BudgetKept alone is not inductive: the step   *)
(* that spends the budget is several steps after the one that checked it.  *)
(* InFlight carries what was checked to the step that needs it, Placed     *)
(* says that the node that was checked is the node that is charged.        *)
(***************************************************************************)
IInv ==
    /\ TypeOK /\ CountersMatch
    /\ BudgetKept /\ InFlight /\ Placed /\ GateOffEmpty

\* More room than before: fewer assumed items, and counters that did not grow.
LEMMA LessSpent ==
    ASSUME TypeOK, TypeOK', BudgetKept, CacheShrinks,
           totalPodCount' =< totalPodCount,
           \A n \in Nodes : nodePodCount'[n] =< nodePodCount[n],
           \A s \in Namespaces : namespacePodCount'[s] =< namespacePodCount[s]
    PROVE  BudgetKept'
<1>1. /\ CacheTypeOK /\ CacheTypeOK' /\ CountTypeOK /\ CountTypeOK'
    BY DEF TypeOK, CountTypeOK
<1>2. Within(totalPodCount + Cardinality(Assumed), MaxPodsToEvictTotal)'
    BY <1>1, FewerAssumed, EvictorAssumption DEF BudgetKept, Within, LeqNat, Limits, CountTypeOK
<1>3. ASSUME NEW n \in Nodes \ {NoNode}
      PROVE  Within(nodePodCount[n] + Cardinality(AssumedOn(n)), MaxPodsToEvictPerNode)'
    BY <1>1, FewerAssumed, EvictorAssumption DEF BudgetKept, Within, LeqNat, Limits, CountTypeOK
<1>4. ASSUME NEW s \in Namespaces
      PROVE  Within(namespacePodCount[s] + Cardinality(AssumedIn(s)),
                    MaxPodsToEvictPerNamespace)'
    BY <1>1, FewerAssumed, EvictorAssumption DEF BudgetKept, Within, LeqNat, Limits, CountTypeOK
<1> QED BY <1>2, <1>3, <1>4 DEF BudgetKept

\* A step of the cluster, the informer, the cleaner or the clock.
LEMMA BackgroundStep ==
    ASSUME IInv, TypeOK', CacheKept, GateOffEmpty', UNCHANGED countVars, UNCHANGED call
    PROVE  IInv'
<1>1. /\ CacheTypeOK /\ CacheTypeOK' /\ CountTypeOK /\ CallTypeOK
    BY TypeParts DEF IInv, TypeOK
<1>2. BudgetKept'
    BY <1>1, LessSpent DEF IInv, CacheKept, countVars, CountTypeOK
<1>3. Placed' /\ CountersMatch'
    BY DEF IInv, CacheKept, CacheInv, ItemsPlaced, Placed
<1>4. CacheShrinks
    BY DEF CacheKept
<1>5. InFlight'
  <2>1. call.pc # "idle" => call.pod.node \in Nodes /\ NamespaceOf[call.pod.uid] \in Namespaces
      BY <1>1, CacheAssumption DEF CallTypeOK, Pod
  <2>2. ASSUME call.pc \in {"node", "namespace", "evict", "response"}
        PROVE  Within(totalPodCount + Cardinality(Assumed) + 1, MaxPodsToEvictTotal)'
      BY <1>1, FewerAssumed, <2>2, EvictorAssumption
         DEF IInv, InFlight, Within, LeqNat, Limits, CountTypeOK, countVars, CacheKept
  <2>3. ASSUME call.pc \in {"namespace", "evict", "response"}
        PROVE  Within(nodePodCount[call.pod.node] + Cardinality(AssumedOn(call.pod.node)) + 1,
                      MaxPodsToEvictPerNode)'
    <3> DEFINE n == call.pod.node
    <3>1. n \in Nodes /\ call.pod.node' = n
        BY <2>1, <2>3
    <3>2. Within(nodePodCount[n] + Cardinality(AssumedOn(n)) + 1, MaxPodsToEvictPerNode)
        BY <2>3 DEF IInv, InFlight
    <3>3. nodePodCount[n] \in Nat /\ nodePodCount'[n] = nodePodCount[n]
        BY <1>1, <3>1 DEF CountTypeOK, countVars
    <3>4. AssumedOn(call.pod.node)' = AssumedOn(n)'
        BY <3>1
    <3> HIDE DEF n
    <3> QED BY <1>1, <1>4, FewerAssumed, <3>1, <3>2, <3>3, <3>4, EvictorAssumption
            DEF Within, LeqNat, Limits
  <2>4. ASSUME call.pc \in {"evict", "response"}
        PROVE  LET s == NamespaceOf[call.pod.uid]
               IN  Within(namespacePodCount[s] + Cardinality(AssumedIn(s)) + 1,
                          MaxPodsToEvictPerNamespace)'
      BY <1>1, FewerAssumed, <2>1, <2>4, EvictorAssumption
         DEF IInv, InFlight, Within, LeqNat, Limits, CountTypeOK, countVars, CacheKept
  <2> QED BY <2>2, <2>3, <2>4 DEF InFlight
<1> QED BY <1>2, <1>3, <1>5 DEF IInv

-----------------------------------------------------------------------------
(***************************************************************************)
(* The actions, one lemma each.                                            *)
(***************************************************************************)
\* Another actor's change of a pod is a pod again.
LEMMA ChangedPod ==
    ASSUME NEW p \in Pod
    PROVE  /\ [p EXCEPT !.inProgress = ~@] \in Pod
           /\ [p EXCEPT !.request = ~@] \in Pod
           /\ [p EXCEPT !.node = NodeOf[p.uid]] \in Pod
           /\ [p EXCEPT !.completed = TRUE] \in Pod
<1>1. [p EXCEPT !.inProgress = ~@] \in Pod
    BY DEF Pod
<1>2. [p EXCEPT !.request = ~@] \in Pod
    BY DEF Pod
<1>3. [p EXCEPT !.node = NodeOf[p.uid]] \in Pod
    BY EvictorAssumption DEF Pod
<1>4. [p EXCEPT !.completed = TRUE] \in Pod
    BY DEF Pod
<1> QED BY <1>1, <1>2, <1>3, <1>4

\* A change of an object, and the event that tells of it, keep the types.
LEMMA ServerPutType ==
    ASSUME InformerTypeOK, server \in [Names -> Pod \cup {NoPod}],
           listed \in [Names -> Pod \cup {NoPod}],
           NEW n \in Names, NEW obj \in Pod \cup {NoPod}, ServerPut(n, obj)
    PROVE  /\ InformerTypeOK'
           /\ server' \in [Names -> Pod \cup {NoPod}]
           /\ listed' \in [Names -> Pod \cup {NoPod}]
<1>1. [name |-> n, obj |-> obj] \in Event
    BY DEF Event
<1>2. watch' \in Seq(Event) /\ Len(watch') = Len(watch) + 1
    BY <1>1 DEF ServerPut, InformerTypeOK
<1>3. InformerTypeOK'
    BY <1>2 DEF ServerPut, InformerTypeOK
<1> QED BY <1>3 DEF ServerPut

\* Facts of IInv that the steps below use.
LEMMA InvParts ==
    ASSUME IInv
    PROVE  /\ CacheInv /\ ItemsPlaced /\ CountTypeOK /\ CallTypeOK /\ HandlerTypeOK
           /\ InformerTypeOK /\ ServerTypeOK /\ accepted \subseteq Uids
BY TypeParts DEF IInv, CacheInv, Placed, ItemsPlaced

\* A step that leaves the evictor's counters and the call alone, keeps the types
\* of what it changes, and does not put a pod in the cache while the gate is off.
LEMMA OutsideStep ==
    ASSUME IInv, CacheKept, HandlerTypeOK', InformerTypeOK', ServerTypeOK',
           EvictionsInBackground \/ DOMAIN requests' \subseteq DOMAIN requests,
           UNCHANGED countVars, UNCHANGED call, UNCHANGED accepted
    PROVE  IInv'
<1>1. CountTypeOK' /\ CallTypeOK' /\ (accepted \subseteq Uids)' /\ CacheTypeOK'
    BY InvParts DEF CountTypeOK, CallTypeOK, countVars, CacheKept, CacheInv
<1>2. TypeOK'
    BY <1>1 DEF TypeOK, CountTypeOK, CallTypeOK, HandlerTypeOK, InformerTypeOK, ServerTypeOK
<1>3. GateOffEmpty'
    BY DEF IInv, GateOffEmpty, countVars
<1> QED BY <1>2, <1>3, BackgroundStep

LEMMA ChangePodStep ==
    ASSUME IInv, NEW n \in Names, ChangePod(n) PROVE IInv'
<1> DEFINE p == server[n]
<1>1. CacheKept /\ UNCHANGED requests
    BY InvParts, UnchangedKeeps DEF ChangePod, cacheVars
<1>2. PICK obj \in Pod \cup {NoPod} : ServerPut(n, obj)
  <2>1. ASSUME p = NoPod, NEW u \in Uids \ created, NEW r \in BOOLEAN
        PROVE  [uid |-> u, node |-> NoNode, request |-> r, inProgress |-> FALSE,
                completed |-> FALSE] \in Pod
      BY EvictorAssumption DEF Pod
  <2>2. p # NoPod => p \in Pod
      BY InvParts DEF ServerTypeOK
  <2> QED BY <2>1, <2>2, ChangedPod DEF ChangePod
<1>3. created' \subseteq Uids /\ budget' \in [changes : Nat, gaps : Nat, restarts : Nat]
  <2>1. created' \subseteq Uids
      BY InvParts DEF ChangePod, ServerTypeOK
  <2>2. budget.changes > 0 /\ budget' = [budget EXCEPT !.changes = @ - 1]
      BY DEF ChangePod
  <2>3. budget \in [changes : Nat, gaps : Nat, restarts : Nat]
      BY InvParts DEF ServerTypeOK
  <2>4. budget' \in [changes : Nat, gaps : Nat, restarts : Nat]
      BY <2>2, <2>3
  <2> QED BY <2>1, <2>4
<1>4. InformerTypeOK' /\ ServerTypeOK'
    BY <1>2, <1>3, InvParts, ServerPutType DEF ServerTypeOK
<1>5. HandlerTypeOK'
    BY InvParts DEF ChangePod, HandlerTypeOK
<1> QED BY <1>1, <1>4, <1>5, OutsideStep DEF ChangePod

LEMMA WatchGapStep == ASSUME IInv, WatchGap PROVE IInv'
<1>1. CacheKept /\ UNCHANGED requests
    BY InvParts, UnchangedKeeps DEF WatchGap, cacheVars
<1>2. PICK k \in unsynced .. Len(watch) - 1 :
        watch' = SubSeq(watch, 1, k) \o ListedEvents(
                   {n \in Names : LastKnown(n, SubSeq(watch, 1, k)) # server[n]}, server)
    BY DEF WatchGap
<1>3. k \in Nat /\ unsynced \in Nat /\ unsynced =< k /\ k =< Len(watch)
    BY <1>2, InvParts DEF InformerTypeOK
<1>4. SubSeq(watch, 1, k) \in Seq(Event) /\ Len(SubSeq(watch, 1, k)) = k
    BY <1>3, InvParts DEF InformerTypeOK
<1> DEFINE rest == ListedEvents(
                     {n \in Names : LastKnown(n, SubSeq(watch, 1, k)) # server[n]}, server)
<1>5. rest \in Seq(Event)
    BY ListedEventsType, InvParts DEF ServerTypeOK
<1> HIDE DEF rest
<1>6. watch' \in Seq(Event) /\ unsynced \in 0 .. Len(watch')
    BY <1>2, <1>3, <1>4, <1>5 DEF rest
<1>7. InformerTypeOK'
    BY <1>6, InvParts DEF WatchGap, InformerTypeOK
<1>8. ServerTypeOK' /\ HandlerTypeOK'
  <2>1. budget.gaps > 0 /\ budget' = [budget EXCEPT !.gaps = @ - 1]
      BY DEF WatchGap
  <2>2. budget \in [changes : Nat, gaps : Nat, restarts : Nat]
      BY InvParts DEF ServerTypeOK
  <2>3. budget' \in [changes : Nat, gaps : Nat, restarts : Nat]
      BY <2>1, <2>2
  <2>4. UNCHANGED <<server, created, listed, handler>>
      BY DEF WatchGap
  <2> QED BY <2>3, <2>4, InvParts DEF ServerTypeOK, HandlerTypeOK
<1> QED BY <1>1, <1>7, <1>8, OutsideStep DEF WatchGap

\* The first event of a non-empty watch, and the watch without it.
LEMMA FirstEvent ==
    ASSUME InformerTypeOK, watch # <<>>,
           watch' = Tail(watch),
           store' = [store EXCEPT ![Head(watch).name] = Head(watch).obj],
           unsynced' = IF unsynced > 0 THEN unsynced - 1 ELSE 0
    PROVE  /\ Head(watch) \in Event
           /\ InformerTypeOK'
<1>1. /\ Head(watch) \in Event
      /\ Tail(watch) \in Seq(Event)
      /\ Len(Tail(watch)) = Len(watch) - 1
      /\ Len(watch) \in Nat /\ Len(watch) > 0
    BY DEF InformerTypeOK
<1>2. Head(watch).name \in Names /\ Head(watch).obj \in Pod \cup {NoPod}
    BY <1>1 DEF Event
<1> QED BY <1>1, <1>2 DEF InformerTypeOK

LEMMA HandleEventStep == ASSUME IInv, HandleEvent PROVE IInv'
<1> DEFINE n == Head(watch).name
           old == store[n]
           new == Head(watch).obj
<1>1. Head(watch) \in Event /\ InformerTypeOK'
    BY InvParts, FirstEvent DEF HandleEvent
<1>2. n \in Names /\ (new # NoPod => new \in Pod) /\ (old # NoPod => old \in Pod)
    BY <1>1, InvParts DEF Event, InformerTypeOK
<1>3. ServerTypeOK'
    BY InvParts DEF HandleEvent, serverVars, ServerTypeOK
<1>4. ASSUME NEW p \in Pod
      PROVE  /\ p.uid \in Uids
             /\ AddPod(p.uid, p.node) /\ UNCHANGED handler => CacheKept /\ HandlerTypeOK'
             /\ DeletePod(p.uid) /\ UNCHANGED handler => CacheKept /\ HandlerTypeOK'
             /\ DeleteLater(p.uid) => CacheKept /\ HandlerTypeOK'
             /\ NoCacheChange => CacheKept /\ HandlerTypeOK'
  <2>1. p.uid \in Uids /\ p.node \in Nodes /\ p.node \in {NoNode, NodeOf[p.uid]}
      BY DEF Pod
  <2>2. UNCHANGED handler => HandlerTypeOK'
      BY InvParts DEF HandlerTypeOK
  <2>3. DeleteLater(p.uid) => HandlerTypeOK'
      BY <2>1 DEF DeleteLater, HandlerTypeOK
  <2> QED BY <2>1, <2>2, <2>3, InvParts, AddPodKeeps, DeletePodKeeps, UnchangedKeeps
          DEF DeleteLater, NoCacheChange
<1>5. CacheKept /\ HandlerTypeOK'
  <2>1. CASE old = NoPod /\ new # NoPod /\ AddFunc(new)
      BY <1>2, <1>4, <2>1 DEF AddFunc
  <2>2. CASE old # NoPod /\ new # NoPod /\ UpdateFunc(old, new)
      BY <1>2, <1>4, <2>2 DEF UpdateFunc
  <2>3. CASE old # NoPod /\ new = NoPod /\ DeleteFunc(old)
      BY <1>2, <1>4, <2>3 DEF DeleteFunc
  <2> QED BY <2>1, <2>2, <2>3 DEF HandleEvent
<1> QED BY <1>1, <1>3, <1>5, OutsideStep DEF HandleEvent, countVars, serverVars

LEMMA StoreEventStep == ASSUME IInv, StoreEvent PROVE IInv'
<1>1. CacheKept /\ UNCHANGED requests
    BY InvParts, UnchangedKeeps DEF StoreEvent, cacheVars
<1>2. InformerTypeOK'
    BY InvParts, FirstEvent DEF StoreEvent
<1>3. ServerTypeOK' /\ HandlerTypeOK'
    BY InvParts DEF StoreEvent, serverVars, ServerTypeOK, HandlerTypeOK
<1> QED BY <1>1, <1>2, <1>3, OutsideStep DEF StoreEvent

\* Deletions only shrink the map.
LEMMA DeleteItemsDomain ==
    ASSUME NEW S, DeleteItems(S) PROVE DOMAIN requests' \subseteq DOMAIN requests
BY DEF DeleteItems

LEMMA HandlerDeleteStep == ASSUME IInv, HandlerDelete PROVE IInv'
<1>1. PICK u \in handler.uids : DeletePod(u)
    BY DEF HandlerDelete
<1>2. CacheKept /\ DOMAIN requests' \subseteq DOMAIN requests
    BY <1>1, InvParts, DeletePodKeeps, DeleteItemsDomain DEF DeletePod
<1>3. InformerTypeOK' /\ ServerTypeOK' /\ HandlerTypeOK'
    BY InvParts DEF HandlerDelete, informerVars, serverVars, InformerTypeOK,
                    ServerTypeOK, HandlerTypeOK, HandlerIdle
<1> QED BY <1>2, <1>3, OutsideStep DEF HandlerDelete

LEMMA CleanStep == ASSUME IInv, Clean PROVE IInv'
<1>1. CacheKept /\ DOMAIN requests' \subseteq DOMAIN requests
    BY InvParts, CleanCacheKeeps, DeleteItemsDomain DEF Clean, CleanCache
<1>2. InformerTypeOK' /\ ServerTypeOK' /\ HandlerTypeOK'
    BY InvParts DEF Clean, informerVars, serverVars, InformerTypeOK,
                    ServerTypeOK, HandlerTypeOK
<1> QED BY <1>1, <1>2, OutsideStep DEF Clean

LEMMA TimePassesStep == ASSUME IInv, TimePasses PROVE IInv'
<1>1. CacheKept /\ DOMAIN requests' = DOMAIN requests
    BY InvParts, TickKeeps DEF TimePasses, Tick
<1>2. InformerTypeOK' /\ ServerTypeOK' /\ HandlerTypeOK'
    BY InvParts DEF TimePasses, informerVars, serverVars, InformerTypeOK,
                    ServerTypeOK, HandlerTypeOK
<1> QED BY <1>1, <1>2, OutsideStep DEF TimePasses

-----------------------------------------------------------------------------
(***************************************************************************)
(* The descheduling thread.                                                *)
(***************************************************************************)
\* The counters EvictPod reads are at least as large as the number of assumed
\* items they stand for.
LEMMA AssumedCounted ==
    ASSUME IInv
    PROVE  /\ LeqNat(Cardinality(Assumed), EvictionRequests(requestsTotal))
           /\ \A n \in Nodes :
                LeqNat(Cardinality(AssumedOn(n)), EvictionRequests(requestsPerNode[n]))
           /\ \A s \in Namespaces :
                LeqNat(Cardinality(AssumedIn(s)), EvictionRequests(requestsPerNamespace[s]))
<1> DEFINE D == DOMAIN requests
<1>1. CacheTypeOK /\ CountersMatch
    BY DEF IInv, TypeOK
<1>2. /\ Assumed \in SUBSET D
      /\ \A n \in Nodes : AssumedOn(n) \in SUBSET OnNode(D, n) /\ OnNode(D, n) \in SUBSET D
      /\ \A s \in Namespaces :
           AssumedIn(s) \in SUBSET InNamespace(D, s) /\ InNamespace(D, s) \in SUBSET D
    BY DEF Assumed, AssumedOn, AssumedIn, OnNode, InNamespace
<1>3. CASE EvictionsInBackground
  <2>1. ASSUME NEW A \in SUBSET D, NEW B \in SUBSET A
        PROVE  LeqNat(Cardinality(B), Cardinality(A))
      BY <1>1, FiniteCache, FS_Subset, FS_CardinalityType DEF LeqNat
  <2> QED BY <1>1, <1>2, <1>3, <2>1 DEF EvictionRequests, CountersMatch
<1>4. CASE ~EvictionsInBackground
  <2>1. D = {}
      BY <1>4 DEF IInv, GateOffEmpty
  <2>2. /\ Assumed = {}
        /\ \A n \in Nodes : AssumedOn(n) = {}
        /\ \A s \in Namespaces : AssumedIn(s) = {}
      BY <1>2, <2>1
  <2> QED BY <1>4, <2>2, FS_EmptySet DEF EvictionRequests, LeqNat
<1> QED BY <1>3, <1>4

LEMMA SameAssumed ==
    ASSUME UNCHANGED cacheVars
    PROVE  /\ Assumed' = Assumed
           /\ \A n : AssumedOn(n)' = AssumedOn(n)
           /\ \A s : AssumedIn(s)' = AssumedIn(s)
BY DEF cacheVars, Assumed, AssumedOn, AssumedIn, OnNode, InNamespace

\* A step of EvictPod that changes neither the counters nor the cache.
LEMMA CallStep ==
    ASSUME IInv, UNCHANGED <<cacheVars, countVars, handler, accepted>>,
           CallTypeOK', InformerTypeOK', ServerTypeOK', InFlight',
           call'.pc # "idle" => call'.pod.node = NodeOf[call'.pod.uid]
    PROVE  IInv'
<1>1. CacheKept
    BY InvParts, UnchangedKeeps DEF cacheVars
<1>2. CountTypeOK' /\ HandlerTypeOK' /\ (accepted \subseteq Uids)'
    BY InvParts DEF countVars, CountTypeOK, HandlerTypeOK
<1>3. TypeOK'
    BY <1>1, <1>2 DEF TypeOK, CacheKept, CacheInv, CountTypeOK, CallTypeOK,
                      HandlerTypeOK, InformerTypeOK, ServerTypeOK
<1>4. BudgetKept'
    BY <1>1, <1>3, InvParts, LessSpent DEF IInv, CacheKept, countVars, CountTypeOK
<1>5. Placed' /\ CountersMatch' /\ GateOffEmpty'
    BY <1>1 DEF IInv, CacheKept, CacheInv, ItemsPlaced, Placed, GateOffEmpty, cacheVars,
                countVars
<1> QED BY <1>3, <1>4, <1>5 DEF IInv

\* The same, with the informer and the cluster left alone.
LEMMA CheckStep ==
    ASSUME IInv,
           UNCHANGED <<cacheVars, countVars, informerVars, serverVars, handler, accepted>>,
           CallTypeOK', InFlight',
           call'.pc # "idle" => call'.pod.node = NodeOf[call'.pod.uid]
    PROVE  IInv'
<1>1. InformerTypeOK' /\ ServerTypeOK'
    BY InvParts DEF informerVars, serverVars, InformerTypeOK, ServerTypeOK
<1> QED BY <1>1, CallStep

\* EvictPod returns.
LEMMA ReturnType == ASSUME Return PROVE CallTypeOK' /\ InFlight' /\ call'.pc = "idle"
BY DEF Return, Idle, CallTypeOK, InFlight, Phases

\* EvictPod goes on with the same pod.
LEMMA GotoType ==
    ASSUME IInv, NEW pc \in Phases, call.pc # "idle", Goto(pc)
    PROVE  /\ CallTypeOK'
           /\ call'.pc = pc /\ call'.pod = call.pod
           /\ call'.pod.node = NodeOf[call'.pod.uid]
           /\ call.pod \in Pod
           /\ call.pod.node \in Nodes
           /\ NamespaceOf[call.pod.uid] \in Namespaces
<1>1. CallTypeOK
    BY InvParts
<1>2. CallTypeOK' /\ call'.pc = pc /\ call'.pod = call.pod
    BY <1>1 DEF Goto, CallTypeOK
<1>3. call.pod.node = NodeOf[call.pod.uid]
    BY DEF IInv, Placed
<1> QED BY <1>1, <1>2, <1>3, CacheAssumption DEF CallTypeOK, Pod

LEMMA EvictPodBegins == ASSUME IInv, NEW n \in Names, EvictPod(n) PROVE IInv'
<1>1. PICK p \in Visible(n) :
        p.node # NoNode /\ call' = [pc |-> "hasPod", pod |-> p, resp |-> "none"]
    BY DEF EvictPod
<1>2. p \in Pod
  <2>1. store[n] \in Pod \cup {NoPod}
      BY InvParts DEF InformerTypeOK
  <2>2. \A i \in DOMAIN watch : watch[i] \in Event
      BY InvParts DEF InformerTypeOK
  <2>3. \A i \in DOMAIN watch : watch[i].obj \in Pod \cup {NoPod}
      BY <2>2 DEF Event
  <2> QED BY <1>1, <2>1, <2>3 DEF Visible
<1>3. CallTypeOK' /\ InFlight' /\ call'.pod.node = NodeOf[call'.pod.uid]
    BY <1>1, <1>2 DEF CallTypeOK, InFlight, Phases, Pod
<1> QED BY <1>3, CheckStep DEF EvictPod

LEMMA AlreadyRequestedStep == ASSUME IInv, AlreadyRequested PROVE IInv'
<1>1. CASE Return
    BY <1>1, ReturnType, CheckStep DEF AlreadyRequested
<1>2. CASE Goto("total")
  <2>1. CallTypeOK' /\ call'.pc = "total" /\ call'.pod.node = NodeOf[call'.pod.uid]
      BY <1>2, GotoType DEF AlreadyRequested, Phases
  <2>2. InFlight'
      BY <2>1 DEF InFlight
  <2> QED BY <2>1, <2>2, CheckStep DEF AlreadyRequested
<1> QED BY <1>1, <1>2 DEF AlreadyRequested

\* The three limit checks establish the three parts of InFlight, one after the
\* other.
LEMMA CheckTotalStep == ASSUME IInv, CheckTotal PROVE IInv'
<1>1. CASE Return
    BY <1>1, ReturnType, CheckStep DEF CheckTotal
<1>2. CASE Goto("node") /\ ~Exceeds(totalPodCount + EvictionRequests(requestsTotal) + 1,
                                    MaxPodsToEvictTotal)
  <2>1. CallTypeOK' /\ call'.pc = "node" /\ call'.pod.node = NodeOf[call'.pod.uid]
      BY <1>2, GotoType DEF CheckTotal, Phases
  <2>2. Within(totalPodCount + Cardinality(Assumed) + 1, MaxPodsToEvictTotal)
      BY <1>2, InvParts, AssumedCounted, EvictorAssumption
         DEF Exceeds, Within, LeqNat, Limits, CountTypeOK
  <2>3. Within(totalPodCount + Cardinality(Assumed) + 1, MaxPodsToEvictTotal)'
      BY <2>2, SameAssumed DEF CheckTotal, countVars, Within
  <2>4. InFlight'
      BY <2>1, <2>3 DEF InFlight
  <2> QED BY <2>1, <2>4, CheckStep DEF CheckTotal
<1> QED BY <1>1, <1>2 DEF CheckTotal

LEMMA CheckNodeStep == ASSUME IInv, CheckNode PROVE IInv'
<1> DEFINE n == call.pod.node
<1>1. CASE Return
    BY <1>1, ReturnType, CheckStep DEF CheckNode
<1>2. CASE /\ Goto("namespace")
           /\ ~(n # NoNode /\ Exceeds(nodePodCount[n] + EvictionRequests(requestsPerNode[n]) + 1,
                                      MaxPodsToEvictPerNode))
  <2>1. /\ CallTypeOK' /\ call'.pc = "namespace" /\ call'.pod = call.pod
        /\ call'.pod.node = NodeOf[call'.pod.uid] /\ n \in Nodes
      BY <1>2, GotoType DEF CheckNode, Phases
  <2>2. n # NoNode
      BY <2>1, EvictorAssumption, GotoType, <1>2 DEF CheckNode, Phases, Pod
  <2>3. Within(nodePodCount[n] + Cardinality(AssumedOn(n)) + 1, MaxPodsToEvictPerNode)
      BY <1>2, <2>1, <2>2, InvParts, AssumedCounted, EvictorAssumption
         DEF Exceeds, Within, LeqNat, Limits, CountTypeOK
  <2>4. Within(totalPodCount + Cardinality(Assumed) + 1, MaxPodsToEvictTotal)
      BY DEF CheckNode, IInv, InFlight
  <2>5. UNCHANGED cacheVars /\ UNCHANGED countVars
      BY DEF CheckNode
  <2>6. InFlight'
      BY <2>1, <2>3, <2>4, <2>5, SameAssumed DEF InFlight, countVars, Within
  <2> QED BY <2>1, <2>6, CheckStep DEF CheckNode
<1> QED BY <1>1, <1>2 DEF CheckNode

LEMMA CheckNamespaceStep == ASSUME IInv, CheckNamespace PROVE IInv'
<1> DEFINE n == call.pod.node
           s == NamespaceOf[call.pod.uid]
<1>1. CASE Return
    BY <1>1, ReturnType, CheckStep DEF CheckNamespace
<1>2. CASE /\ Goto("evict")
           /\ ~Exceeds(namespacePodCount[s] + EvictionRequests(requestsPerNamespace[s]) + 1,
                       MaxPodsToEvictPerNamespace)
  <2>1. /\ CallTypeOK' /\ call'.pc = "evict" /\ call'.pod = call.pod
        /\ call'.pod.node = NodeOf[call'.pod.uid] /\ s \in Namespaces
      BY <1>2, GotoType DEF CheckNamespace, Phases
  <2>2. Within(namespacePodCount[s] + Cardinality(AssumedIn(s)) + 1,
               MaxPodsToEvictPerNamespace)
      BY <1>2, <2>1, InvParts, AssumedCounted, EvictorAssumption
         DEF Exceeds, Within, LeqNat, Limits, CountTypeOK
  <2>3. /\ Within(totalPodCount + Cardinality(Assumed) + 1, MaxPodsToEvictTotal)
        /\ Within(nodePodCount[n] + Cardinality(AssumedOn(n)) + 1, MaxPodsToEvictPerNode)
      BY DEF CheckNamespace, IInv, InFlight
  <2>4. UNCHANGED cacheVars /\ UNCHANGED countVars
      BY DEF CheckNamespace
  <2>5. InFlight'
      BY <2>1, <2>2, <2>3, <2>4, SameAssumed DEF InFlight, countVars, Within
  <2> QED BY <2>1, <2>5, CheckStep DEF CheckNamespace
<1> QED BY <1>1, <1>2 DEF CheckNamespace

LEMMA ServerEvictsStep == ASSUME IInv, ServerEvicts PROVE IInv'
<1> DEFINE n == NameOf[call.pod.uid]
<1>1. CallTypeOK /\ call.pc = "evict" /\ call.pod \in Pod
    BY InvParts DEF ServerEvicts, CallTypeOK
<1>2. n \in Names
    BY <1>1, EvictorAssumption DEF Pod
<1>3. PICK r \in {"ok", "background", "error"} :
        call' = [call EXCEPT !.pc = "response", !.resp = r]
    BY DEF ServerEvicts
<1>4. CallTypeOK' /\ call'.pc = "response" /\ call'.pod = call.pod
    BY <1>1, <1>3 DEF CallTypeOK, Phases
<1>5. UNCHANGED <<cacheVars, countVars, handler, accepted, created, budget>>
    BY DEF ServerEvicts
<1>6. InformerTypeOK' /\ ServerTypeOK'
  <2>1. CASE UNCHANGED <<server, watch, listed, store, unsynced>>
      BY <1>5, <2>1, InvParts DEF InformerTypeOK, ServerTypeOK
  <2>2. CASE ServerPut(n, NoPod)
      BY <1>2, <1>5, <2>2, InvParts, ServerPutType DEF ServerTypeOK
  <2> QED BY <2>1, <2>2 DEF ServerEvicts
<1>7. InFlight'
    BY <1>1, <1>4, <1>5, SameAssumed DEF IInv, InFlight, countVars, Within
<1>8. call'.pod.node = NodeOf[call'.pod.uid]
    BY <1>1, <1>4 DEF IInv, Placed
<1> QED BY <1>4, <1>5, <1>6, <1>7, <1>8, CallStep

LEMMA IgnoreOrFailStep == ASSUME IInv, IgnoreOrFail PROVE IInv'
BY ReturnType, CheckStep DEF IgnoreOrFail

\* A pod is remembered as accepted.
LEMMA AcceptType ==
    ASSUME IInv, NEW u \in Uids, Accept(u) PROVE (accepted \subseteq Uids)'
BY InvParts DEF Accept

\* The answer is in: what InFlight says of the pod of the call.
LEMMA AnswerFacts ==
    ASSUME IInv, call.pc = "response"
    PROVE  LET u == call.pod.uid
               n == call.pod.node
               s == NamespaceOf[u]
           IN  /\ u \in Uids /\ n \in Nodes \ {NoNode} /\ s \in Namespaces /\ n = NodeOf[u]
               /\ Within(totalPodCount + Cardinality(Assumed) + 1, MaxPodsToEvictTotal)
               /\ Within(nodePodCount[n] + Cardinality(AssumedOn(n)) + 1,
                         MaxPodsToEvictPerNode)
               /\ Within(namespacePodCount[s] + Cardinality(AssumedIn(s)) + 1,
                         MaxPodsToEvictPerNamespace)
<1>1. call.pod \in Pod /\ call.pod.node = NodeOf[call.pod.uid]
    BY InvParts DEF CallTypeOK, IInv, Placed
<1>2. /\ call.pod.uid \in Uids /\ call.pod.node \in Nodes \ {NoNode}
      /\ NamespaceOf[call.pod.uid] \in Namespaces
    BY <1>1, CacheAssumption, EvictorAssumption DEF Pod
<1> QED BY <1>1, <1>2 DEF IInv, InFlight

LEMMA CountEvictionStep == ASSUME IInv, CountEviction PROVE IInv'
<1> DEFINE n == call.pod.node
           s == NamespaceOf[call.pod.uid]
<1>1. /\ call.pod.uid \in Uids /\ n \in Nodes \ {NoNode} /\ s \in Namespaces
      /\ Within(totalPodCount + Cardinality(Assumed) + 1, MaxPodsToEvictTotal)
      /\ Within(nodePodCount[n] + Cardinality(AssumedOn(n)) + 1, MaxPodsToEvictPerNode)
      /\ Within(namespacePodCount[s] + Cardinality(AssumedIn(s)) + 1,
                MaxPodsToEvictPerNamespace)
    BY AnswerFacts DEF CountEviction
<1>2. /\ totalPodCount' = totalPodCount + 1
      /\ nodePodCount' = [nodePodCount EXCEPT ![n] = @ + 1]
      /\ namespacePodCount' = [namespacePodCount EXCEPT ![s] = @ + 1]
      /\ UNCHANGED <<EvictionsInBackground, cacheVars, informerVars, serverVars, handler>>
      /\ Return /\ Accept(call.pod.uid)
    BY <1>1 DEF CountEviction
<1>3. CallTypeOK' /\ InFlight' /\ call'.pc = "idle" /\ (accepted \subseteq Uids)'
    BY <1>1, <1>2, ReturnType, AcceptType
<1>4. CountTypeOK /\ CacheTypeOK
    BY InvParts DEF CacheInv
<1> HIDE DEF n, s
<1>5. CountTypeOK'
    BY <1>1, <1>2, <1>4 DEF CountTypeOK
<1>6. CacheKept
    BY <1>2, InvParts, UnchangedKeeps
<1>7. InformerTypeOK' /\ ServerTypeOK' /\ HandlerTypeOK'
    BY <1>2, InvParts DEF informerVars, serverVars, InformerTypeOK, ServerTypeOK,
                          HandlerTypeOK
<1>8. TypeOK'
    BY <1>3, <1>5, <1>6, <1>7
       DEF TypeOK, CacheKept, CacheInv, CountTypeOK, CallTypeOK, HandlerTypeOK,
           InformerTypeOK, ServerTypeOK
<1>9. BudgetKept'
  <2>1. Within(totalPodCount + Cardinality(Assumed), MaxPodsToEvictTotal)'
    <3>1. Assumed' = Assumed /\ Cardinality(Assumed) \in Nat
        BY <1>2, <1>4, SameAssumed, FiniteAssumed
    <3>2. totalPodCount' + Cardinality(Assumed) = totalPodCount + Cardinality(Assumed) + 1
        BY <1>2, <1>4, <3>1 DEF CountTypeOK
    <3> QED BY <1>1, <3>1, <3>2 DEF Within
  <2>2. ASSUME NEW m \in Nodes \ {NoNode}
        PROVE  Within(nodePodCount[m] + Cardinality(AssumedOn(m)), MaxPodsToEvictPerNode)'
    <3>1. AssumedOn(m)' = AssumedOn(m) /\ Cardinality(AssumedOn(m)) \in Nat
        BY <1>2, <1>4, SameAssumed, FiniteAssumed
    <3>2. CASE m = n
      <4>1. nodePodCount'[m] + Cardinality(AssumedOn(m))
              = nodePodCount[n] + Cardinality(AssumedOn(n)) + 1
          BY <1>1, <1>2, <1>4, <3>1, <3>2 DEF CountTypeOK
      <4> QED BY <1>1, <3>1, <4>1 DEF Within
    <3>3. CASE m # n
      <4>1. nodePodCount'[m] = nodePodCount[m]
          BY <1>2, <1>4, <3>3 DEF CountTypeOK
      <4> QED BY <3>1, <4>1 DEF Within, IInv, BudgetKept
    <3> QED BY <3>2, <3>3
  <2>3. ASSUME NEW t \in Namespaces
        PROVE  Within(namespacePodCount[t] + Cardinality(AssumedIn(t)),
                      MaxPodsToEvictPerNamespace)'
    <3>1. AssumedIn(t)' = AssumedIn(t) /\ Cardinality(AssumedIn(t)) \in Nat
        BY <1>2, <1>4, SameAssumed, FiniteAssumed
    <3>2. CASE t = s
      <4>1. namespacePodCount'[t] + Cardinality(AssumedIn(t))
              = namespacePodCount[s] + Cardinality(AssumedIn(s)) + 1
          BY <1>1, <1>2, <1>4, <3>1, <3>2 DEF CountTypeOK
      <4> QED BY <1>1, <3>1, <4>1 DEF Within
    <3>3. CASE t # s
      <4>1. namespacePodCount'[t] = namespacePodCount[t]
          BY <1>2, <1>4, <3>3 DEF CountTypeOK
      <4> QED BY <3>1, <4>1 DEF Within, IInv, BudgetKept
    <3> QED BY <3>2, <3>3
  <2> QED BY <2>1, <2>2, <2>3 DEF BudgetKept
<1>10. Placed' /\ CountersMatch' /\ GateOffEmpty'
    BY <1>2, <1>3, <1>6
       DEF IInv, CacheKept, CacheInv, ItemsPlaced, Placed, GateOffEmpty, cacheVars
<1> QED BY <1>3, <1>8, <1>9, <1>10 DEF IInv

\* assumePod adds at most the pod to the assumed items, on its own node or on
\* none.
LEMMA AssumePodAdds ==
    ASSUME CacheInv, ItemsPlaced, NEW u \in Uids, AssumePod(u, NodeOf[u])
    PROVE  /\ ItemsPlaced'
           /\ Assumed' \subseteq Assumed \cup {u}
           /\ \A v \in Assumed : v \in Assumed' /\ requests'[v].node = requests[v].node
<1>1. CASE UNCHANGED cacheVars
    BY <1>1 DEF ItemsPlaced, cacheVars, Assumed
<1>2. CASE u \notin Assumed /\ HasPod(u) /\ requests' = WithItem(u, FreshlyAssumed(requests[u].node))
  <2>1. /\ DOMAIN requests' = DOMAIN requests
        /\ requests'[u].node = requests[u].node
        /\ \A v \in DOMAIN requests : v # u => requests'[v] = requests[v]
      BY <1>2 DEF HasPod, WithItem, FreshlyAssumed
  <2> QED BY <1>2, <2>1 DEF ItemsPlaced, Assumed
<1>3. CASE ~HasPod(u) /\ requests' = WithItem(u, FreshlyAssumed(NodeOf[u]))
  <2>1. /\ DOMAIN requests' = DOMAIN requests \cup {u} /\ u \notin DOMAIN requests
        /\ requests'[u].node = NodeOf[u]
        /\ \A v \in DOMAIN requests : v # u => requests'[v] = requests[v]
      BY <1>3 DEF HasPod, WithItem, FreshlyAssumed
  <2> QED BY <2>1 DEF ItemsPlaced, Assumed
<1> QED BY <1>1, <1>2, <1>3 DEF AssumePod

LEMMA AssumeEvictionStep == ASSUME IInv, AssumeEviction PROVE IInv'
<1> DEFINE u == call.pod.uid
           n == call.pod.node
           s == NamespaceOf[call.pod.uid]
<1>1. /\ u \in Uids /\ n \in Nodes \ {NoNode} /\ s \in Namespaces /\ n = NodeOf[u]
      /\ Within(totalPodCount + Cardinality(Assumed) + 1, MaxPodsToEvictTotal)
      /\ Within(nodePodCount[n] + Cardinality(AssumedOn(n)) + 1, MaxPodsToEvictPerNode)
      /\ Within(namespacePodCount[s] + Cardinality(AssumedIn(s)) + 1,
                MaxPodsToEvictPerNamespace)
      /\ s = NamespaceOf[u]
    BY AnswerFacts DEF AssumeEviction
<1>2. /\ AssumePod(u, n) /\ Return /\ Accept(u) /\ EvictionsInBackground
      /\ UNCHANGED <<countVars, informerVars, serverVars, handler>>
    BY DEF AssumeEviction, BackgroundEviction
<1>3. CallTypeOK' /\ InFlight' /\ call'.pc = "idle" /\ (accepted \subseteq Uids)'
    BY <1>1, <1>2, ReturnType, AcceptType
<1>4. CacheInv /\ ItemsPlaced /\ CountTypeOK
    BY InvParts
<1> HIDE DEF u, n, s
<1>5. CacheInv'
    BY <1>1, <1>2, <1>4, AssumePodInv
<1>6. /\ ItemsPlaced'
      /\ Assumed' \subseteq Assumed \cup {u}
      /\ \A v \in Assumed : v \in Assumed' /\ requests'[v].node = requests[v].node
    BY <1>1, <1>2, <1>4, AssumePodAdds
<1>7. CountTypeOK' /\ InformerTypeOK' /\ ServerTypeOK' /\ HandlerTypeOK'
    BY <1>2, InvParts DEF countVars, informerVars, serverVars, CountTypeOK,
                          InformerTypeOK, ServerTypeOK, HandlerTypeOK
<1>8. TypeOK'
    BY <1>3, <1>5, <1>7
       DEF TypeOK, CacheInv, CountTypeOK, CallTypeOK, HandlerTypeOK,
           InformerTypeOK, ServerTypeOK
<1>9. ASSUME NEW A, NEW B, IsFiniteSet(A), B \subseteq A \cup {u}
      PROVE  /\ Cardinality(A) \in Nat /\ Cardinality(B) \in Nat
             /\ Cardinality(B) =< Cardinality(A) + 1
  <2>1. IsFiniteSet(A \cup {u}) /\ Cardinality(A \cup {u}) =< Cardinality(A) + 1
    <3>1. Cardinality(A) \in Nat
        BY <1>9, FS_CardinalityType
    <3>2. /\ IsFiniteSet(A \cup {u})
          /\ Cardinality(A \cup {u}) = IF u \in A THEN Cardinality(A) ELSE Cardinality(A) + 1
        BY <1>9, FS_AddElement
    <3> QED BY <3>1, <3>2
  <2>2. IsFiniteSet(B) /\ Cardinality(B) =< Cardinality(A \cup {u})
      BY <1>9, <2>1, FS_Subset
  <2> QED BY <1>9, <2>1, <2>2, FS_CardinalityType
<1>10. BudgetKept'
  <2>1. Within(totalPodCount + Cardinality(Assumed), MaxPodsToEvictTotal)'
    <3>1. /\ Cardinality(Assumed) \in Nat /\ Cardinality(Assumed') \in Nat
          /\ Cardinality(Assumed') =< Cardinality(Assumed) + 1
        BY <1>4, <1>6, <1>9, FiniteAssumed DEF CacheInv
    <3>2. totalPodCount \in Nat /\ totalPodCount' = totalPodCount
        BY <1>2, <1>4 DEF countVars, CountTypeOK
    <3> QED BY <1>1, <3>1, <3>2, EvictorAssumption DEF Within, Limits
  <2>2. ASSUME NEW m \in Nodes \ {NoNode}
        PROVE  Within(nodePodCount[m] + Cardinality(AssumedOn(m)), MaxPodsToEvictPerNode)'
    <3>1. IsFiniteSet(AssumedOn(m)) /\ nodePodCount'[m] = nodePodCount[m]
          /\ nodePodCount[m] \in Nat
        BY <1>2, <1>4, FiniteAssumed DEF CacheInv, countVars, CountTypeOK
    <3>2. CASE m = n
      <4>1. AssumedOn(m)' \subseteq AssumedOn(m) \cup {u}
          BY <1>6 DEF AssumedOn, OnNode
      <4>2. /\ Cardinality(AssumedOn(m)) \in Nat /\ Cardinality(AssumedOn(m)') \in Nat
            /\ Cardinality(AssumedOn(m)') =< Cardinality(AssumedOn(m)) + 1
          BY <1>9, <3>1, <4>1
      <4> QED BY <1>1, <3>1, <3>2, <4>2, EvictorAssumption DEF Within, Limits
    <3>3. CASE m # n
      <4>1. u \in Assumed' => requests'[u].node # m
          BY <1>1, <1>6, <3>3 DEF ItemsPlaced, Assumed
      <4>2. AssumedOn(m)' = AssumedOn(m)
          BY <1>6, <4>1 DEF AssumedOn, OnNode
      <4> QED BY <3>1, <4>2 DEF IInv, BudgetKept, Within
    <3> QED BY <3>2, <3>3
  <2>3. ASSUME NEW t \in Namespaces
        PROVE  Within(namespacePodCount[t] + Cardinality(AssumedIn(t)),
                      MaxPodsToEvictPerNamespace)'
    <3>1. IsFiniteSet(AssumedIn(t)) /\ namespacePodCount'[t] = namespacePodCount[t]
          /\ namespacePodCount[t] \in Nat
        BY <1>2, <1>4, FiniteAssumed DEF CacheInv, countVars, CountTypeOK
    <3>2. CASE t = s
      <4>1. AssumedIn(t)' \subseteq AssumedIn(t) \cup {u}
          BY <1>6 DEF AssumedIn, InNamespace
      <4>2. /\ Cardinality(AssumedIn(t)) \in Nat /\ Cardinality(AssumedIn(t)') \in Nat
            /\ Cardinality(AssumedIn(t)') =< Cardinality(AssumedIn(t)) + 1
          BY <1>9, <3>1, <4>1
      <4> QED BY <1>1, <3>1, <3>2, <4>2, EvictorAssumption DEF Within, Limits
    <3>3. CASE t # s
      <4>1. AssumedIn(t)' = AssumedIn(t)
          BY <1>1, <1>6, <3>3 DEF AssumedIn, InNamespace
      <4> QED BY <3>1, <4>1 DEF IInv, BudgetKept, Within
    <3> QED BY <3>2, <3>3
  <2> QED BY <2>1, <2>2, <2>3 DEF BudgetKept
<1>11. Placed' /\ CountersMatch' /\ GateOffEmpty'
    BY <1>2, <1>3, <1>5, <1>6 DEF CacheInv, ItemsPlaced, Placed, GateOffEmpty, countVars
<1> QED BY <1>3, <1>8, <1>10, <1>11 DEF IInv

LEMMA ResetCountersStep == ASSUME IInv, ResetCounters PROVE IInv'
<1>1. CountTypeOK /\ CountTypeOK' /\ CacheKept
    BY InvParts, UnchangedKeeps
       DEF ResetCounters, CountTypeOK, ZeroPerNode, ZeroPerNamespace
<1>2. /\ InformerTypeOK' /\ ServerTypeOK' /\ HandlerTypeOK' /\ CallTypeOK'
      /\ (accepted \subseteq Uids)'
    BY InvParts DEF ResetCounters, informerVars, serverVars, CallTypeOK,
                    InformerTypeOK, ServerTypeOK, HandlerTypeOK
<1>3. TypeOK'
    BY <1>1, <1>2 DEF TypeOK, CacheKept, CacheInv, CountTypeOK, CallTypeOK,
                      HandlerTypeOK, InformerTypeOK, ServerTypeOK
<1>4. BudgetKept'
  <2>1. /\ totalPodCount' =< totalPodCount
        /\ \A n \in Nodes : nodePodCount'[n] =< nodePodCount[n]
        /\ \A s \in Namespaces : namespacePodCount'[s] =< namespacePodCount[s]
      BY <1>1 DEF ResetCounters, CountTypeOK, ZeroPerNode, ZeroPerNamespace
  <2> QED BY <1>1, <1>3, <2>1, LessSpent DEF IInv, CacheKept
<1>5. Placed' /\ CountersMatch' /\ GateOffEmpty' /\ InFlight'
    BY <1>1 DEF ResetCounters, IInv, CacheKept, CacheInv, ItemsPlaced, Placed,
                GateOffEmpty, InFlight, cacheVars
<1> QED BY <1>3, <1>4, <1>5 DEF IInv

-----------------------------------------------------------------------------
(***************************************************************************)
(* Start and restart: an empty cache, zero counters, everything listed.    *)
(***************************************************************************)
LEMMA InitialListType ==
    ASSUME NEW cur \in [Names -> Pod \cup {NoPod}]
    PROVE  InitialList(cur) \in Seq(Event)
BY ListedEventsType DEF InitialList

\* Nothing is spent at the start, and every limit is at least zero.
LEMMA NothingSpent ==
    ASSUME CacheInit, totalPodCount = 0, nodePodCount = ZeroPerNode,
           namespacePodCount = ZeroPerNamespace, call = Idle
    PROVE  BudgetKept /\ InFlight /\ Placed /\ GateOffEmpty
<1>1. DOMAIN requests = {}
    BY DEF CacheInit, EmptyCache
<1>2. /\ Cardinality(Assumed) = 0
      /\ \A n : Cardinality(AssumedOn(n)) = 0
      /\ \A s : Cardinality(AssumedIn(s)) = 0
  <2>1. /\ Assumed = {}
        /\ \A n : AssumedOn(n) = {}
        /\ \A s : AssumedIn(s) = {}
      BY <1>1 DEF Assumed, AssumedOn, AssumedIn, OnNode, InNamespace
  <2> QED BY <2>1, FS_EmptySet
<1>3. BudgetKept
    BY <1>2, EvictorAssumption DEF BudgetKept, Within, Limits, ZeroPerNode, ZeroPerNamespace
<1> QED BY <1>1, <1>3 DEF InFlight, Placed, GateOffEmpty, Idle

\* What Init and Restart have in common.
StartState ==
    /\ CacheInit /\ totalPodCount = 0
    /\ nodePodCount = ZeroPerNode /\ namespacePodCount = ZeroPerNamespace
    /\ call = Idle /\ handler = HandlerIdle
    /\ watch = InitialList(server) /\ unsynced = Len(watch)
    /\ store = NothingSeen /\ accepted = {}
    /\ EvictionsInBackground \in BOOLEAN
    /\ ServerTypeOK

LEMMA StartInv == StartState => IInv
<1> SUFFICES ASSUME StartState PROVE IInv
    OBVIOUS
<1>1. CacheInv
    BY CacheInitInv DEF StartState
<1>2. CountTypeOK /\ CallTypeOK /\ HandlerTypeOK /\ accepted \subseteq Uids
    BY DEF StartState, CountTypeOK, CallTypeOK, HandlerTypeOK, ZeroPerNode,
           ZeroPerNamespace, Idle, HandlerIdle, Phases
<1>3. watch \in Seq(Event) /\ unsynced = Len(watch)
    BY InitialListType DEF StartState, ServerTypeOK
<1>4. InformerTypeOK
    BY <1>3 DEF StartState, InformerTypeOK, NothingSeen
<1>5. TypeOK
    BY <1>1, <1>2, <1>4, TypeParts DEF StartState, CacheInv
<1> QED BY <1>1, <1>5, NothingSpent DEF StartState, IInv, CacheInv

LEMMA InitInv == Init => IInv
<1>1. Init => ServerTypeOK
  <2>1. Init => created \subseteq Uids
      BY DEF Init, Pod
  <2>2. {MaxChanges, MaxWatchGaps, MaxRestarts} \subseteq Nat
      BY EvictorAssumption
  <2>3. Init => budget \in [changes : Nat, gaps : Nat, restarts : Nat]
      BY <2>2 DEF Init
  <2>4. Init => server \in [Names -> Pod \cup {NoPod}] /\ listed = server
      BY DEF Init
  <2> QED BY <2>1, <2>3, <2>4 DEF ServerTypeOK
<1>2. Init => StartState
    BY <1>1, EvictorAssumption DEF Init, StartState
<1> QED BY <1>2, StartInv

LEMMA RestartStep == ASSUME IInv, Restart PROVE IInv'
<1>1. ServerTypeOK'
  <2>1. budget.restarts > 0 /\ budget' = [budget EXCEPT !.restarts = @ - 1]
      BY DEF Restart
  <2>2. budget \in [changes : Nat, gaps : Nat, restarts : Nat]
      BY InvParts DEF ServerTypeOK
  <2>3. budget' \in [changes : Nat, gaps : Nat, restarts : Nat]
      BY <2>1, <2>2
  <2>4. UNCHANGED <<server, created>> /\ listed' = server
      BY DEF Restart
  <2> QED BY <2>3, <2>4, InvParts DEF ServerTypeOK
<1>2. StartState'
    BY <1>1, InvParts
       DEF Restart, StartState, CacheInit, EmptyCache, ZeroPerNode, ZeroPerNamespace,
           Idle, HandlerIdle, InitialList, NothingSeen, ListedEvents, CountTypeOK
<1>3. (StartState => IInv)'
    BY StartInv, PTL
<1> QED BY <1>2, <1>3
-----------------------------------------------------------------------------
\* Every action preserves the invariant.
LEMMA NextInv == IInv /\ [Next]_vars => IInv'
<1> SUFFICES ASSUME IInv, [Next]_vars PROVE IInv'
    OBVIOUS
<1>1. ASSUME NEW n \in Names, ChangePod(n) PROVE IInv'
    BY <1>1, ChangePodStep
<1>2. ASSUME NEW n \in Names, EvictPod(n) PROVE IInv'
    BY <1>2, EvictPodBegins
<1>3. CASE WatchGap
    BY <1>3, WatchGapStep
<1>4. CASE Restart
    BY <1>4, RestartStep
<1>5. CASE HandleEvent
    BY <1>5, HandleEventStep
<1>6. CASE StoreEvent
    BY <1>6, StoreEventStep
<1>7. CASE HandlerDelete
    BY <1>7, HandlerDeleteStep
<1>8. CASE Clean \/ TimePasses
    BY <1>8, CleanStep, TimePassesStep
<1>9. CASE ResetCounters
    BY <1>9, ResetCountersStep
<1>10. CASE EvictPodStep
    BY <1>10, AlreadyRequestedStep, CheckTotalStep, CheckNodeStep, CheckNamespaceStep,
       ServerEvictsStep, CountEvictionStep, AssumeEvictionStep, IgnoreOrFailStep
       DEF EvictPodStep
<1>11. CASE UNCHANGED vars
  <2>1. /\ UNCHANGED <<cacheVars, countVars, informerVars, serverVars, handler, accepted>>
        /\ UNCHANGED call
      BY <1>11 DEF vars
  <2>2. CacheKept
      BY <2>1, InvParts, UnchangedKeeps
  <2>3. HandlerTypeOK' /\ InformerTypeOK' /\ ServerTypeOK'
      BY <2>1, InvParts DEF informerVars, serverVars, HandlerTypeOK, InformerTypeOK,
                            ServerTypeOK
  <2> QED BY <2>1, <2>2, <2>3, OutsideStep DEF cacheVars
<1> QED BY <1>1, <1>2, <1>3, <1>4, <1>5, <1>6, <1>7, <1>8, <1>9, <1>10, <1>11 DEF Next

LEMMA Invariance == Spec => []IInv
BY InitInv, NextInv, PTL DEF Spec

\* The evictor's state keeps its types, for every cluster and all limits.
THEOREM EvictorTypes == Spec => []TypeOK
<1>1. IInv => TypeOK
    BY DEF IInv
<1> QED BY <1>1, Invariance, PTL

\* The counters EvictPod enforces the limits with agree with the cache, however
\* the evictor, the informer handlers and the cleaner are interleaved and
\* whenever the descheduler restarts (addPod, assumePod, deletePod, cleanCache).
THEOREM EvictorCountersMatch == Spec => []CountersMatch
<1>1. IInv => CountersMatch
    BY DEF IInv
<1> QED BY <1>1, Invariance, PTL

\* No limit is ever exceeded by the evictions of the cycle and the outstanding
\* requests together, for every cluster, all limits and with the gate on or off
\* (EvictPod).
THEOREM EvictorKeepsBudget == Spec => []BudgetKept
<1>1. IInv => BudgetKept
    BY DEF IInv
<1> QED BY <1>1, Invariance, PTL
=============================================================================
