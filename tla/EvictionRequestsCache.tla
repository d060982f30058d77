----------------------- MODULE EvictionRequestsCache -----------------------
(***************************************************************************)
(* The cache of evictions in background kept by the pod evictor            *)
(* (pkg/descheduler/evictions/evictions.go, type evictionRequestsCache).   *)
(*                                                                         *)
(* The cache maps the UID of a pod to an item and keeps three counters     *)
(* next to the map; the evictor reads only the counters when it enforces   *)
(* the eviction limits.  Every operation runs under the cache's mutex, so  *)
(* each one is a single action.  An item is either assumed (the evictor    *)
(* sent the request and was told that an eviction in background started)   *)
(* or detected (an informer handler saw the in-progress annotation).       *)
(*                                                                         *)
(* An assumed item carries its age, time.Now() minus assumedTimestamp in   *)
(* ticks, up to AssumedTimeout + 1: beyond that cleanCache does not tell   *)
(* two ages apart.  An item remembers the node its pod had when it entered *)
(* (a pod gets its node only when it is scheduled); the namespace is a     *)
(* function of the UID.  A Go map key that is missing, or was deleted at   *)
(* zero, reads as 0.                                                       *)
(***************************************************************************)
EXTENDS Integers, FiniteSets

CONSTANTS
    Uids,           \* the UIDs pods may have
    Nodes,          \* node names, NoNode (a pod without spec.nodeName) included
    Namespaces,
    NamespaceOf,    \* pod.Namespace of each UID
    AssumedTimeout  \* assumedRequestTimeoutSeconds, in ticks

ASSUME CacheAssumption ==
    /\ IsFiniteSet(Uids)
    /\ NamespaceOf \in [Uids -> Namespaces]
    /\ AssumedTimeout \in Nat

VARIABLES
    requests,              \* UID -> item, for the UIDs in the cache
    requestsPerNode,
    requestsPerNamespace,
    requestsTotal

cacheVars == <<requests, requestsPerNode, requestsPerNamespace, requestsTotal>>

Item == [evictionAssumed : BOOLEAN, age : 0 .. AssumedTimeout + 1, node : Nodes]
Detected(n) == [evictionAssumed |-> FALSE, age |-> 0, node |-> n]
FreshlyAssumed(n) == [evictionAssumed |-> TRUE, age |-> 0, node |-> n]

HasPod(u) == u \in DOMAIN requests

\* The items cleanCache, and only cleanCache, may give up on.
Assumed == {u \in DOMAIN requests : requests[u].evictionAssumed}
Expired == {u \in Assumed : requests[u].age > AssumedTimeout}

\* The UIDs of S whose item is on node n, and those in namespace s.
OnNode(S, n) == {u \in S : requests[u].node = n}
InNamespace(S, s) == {u \in S : NamespaceOf[u] = s}

\* The map with item it under u.
WithItem(u, it) ==
    [v \in DOMAIN requests \cup {u} |-> IF v = u THEN it ELSE requests[v]]
-----------------------------------------------------------------------------
EmptyCache == [u \in {} |-> {}]
ZeroPerNode == [n \in Nodes |-> 0]
ZeroPerNamespace == [s \in Namespaces |-> 0]

\* newEvictionRequestsCache.
CacheInit ==
    /\ requests = EmptyCache
    /\ requestsPerNode = ZeroPerNode
    /\ requestsPerNamespace = ZeroPerNamespace
    /\ requestsTotal = 0

BumpCounters(u, n) ==
    /\ requestsPerNode' = [requestsPerNode EXCEPT ![n] = @ + 1]
    /\ requestsPerNamespace' = [requestsPerNamespace EXCEPT ![NamespaceOf[u]] = @ + 1]
    /\ requestsTotal' = requestsTotal + 1

\* addPod: a pod already in the cache, assumed or not, is left as it is.
AddPod(u, n) ==
    \/ /\ HasPod(u)
       /\ UNCHANGED cacheVars
    \/ /\ ~HasPod(u)
       /\ requests' = WithItem(u, Detected(n))
       /\ BumpCounters(u, n)

\* Seeded fault: the upgrade of a detected item takes over the pod's node.
AssumePodMovesItem(u, n) ==
    \/ u \in Assumed /\ UNCHANGED cacheVars
    \/ /\ HasPod(u) /\ u \notin Assumed
       /\ requests' = WithItem(u, FreshlyAssumed(n))
       /\ UNCHANGED <<requestsPerNode, requestsPerNamespace, requestsTotal>>
    \/ ~HasPod(u) /\ requests' = WithItem(u, FreshlyAssumed(n)) /\ BumpCounters(u, n)

\* assumePod: the first strategy to assume a pod wins; an item the informer
\* put in first is upgraded in place, on the node it was counted on.
AssumePod(u, n) ==
    \/ /\ u \in Assumed
       /\ UNCHANGED cacheVars
    \/ /\ HasPod(u) /\ u \notin Assumed
       /\ requests' = WithItem(u, FreshlyAssumed(requests[u].node))
       /\ UNCHANGED <<requestsPerNode, requestsPerNamespace, requestsTotal>>
    \/ /\ ~HasPod(u)
       /\ requests' = WithItem(u, FreshlyAssumed(n))
       /\ BumpCounters(u, n)

\* deleteItem for every item of S, one critical section.
DeleteItems(S) ==
    /\ requests' = [u \in DOMAIN requests \ S |-> requests[u]]
    /\ requestsPerNode' =
         [n \in Nodes |-> requestsPerNode[n] - Cardinality(OnNode(S, n))]
    /\ requestsPerNamespace' =
         [s \in Namespaces |-> requestsPerNamespace[s] - Cardinality(InNamespace(S, s))]
    /\ requestsTotal' = requestsTotal - Cardinality(S)

\* Seeded fault: deletePod counts down also when the pod is not in the cache.
DeletePodUnchecked(u) ==
    /\ requests' = [v \in DOMAIN requests \ {u} |-> requests[v]]
    /\ requestsTotal' = requestsTotal - 1
    /\ UNCHANGED <<requestsPerNode, requestsPerNamespace>>

DeletePod(u) == DeleteItems({u} \cap DOMAIN requests)

CleanCache == DeleteItems(Expired)

Older(it) == [evictionAssumed |-> TRUE, age |-> it.age + 1, node |-> it.node]

\* Time passes: every assumed item gets older.
Tick ==
    /\ requests' = [u \in DOMAIN requests |->
                      IF u \in Assumed /\ requests[u].age =< AssumedTimeout
                      THEN Older(requests[u])
                      ELSE requests[u]]
    /\ UNCHANGED <<requestsPerNode, requestsPerNamespace, requestsTotal>>

CacheNext ==
    \/ \E u \in Uids, n \in Nodes : AddPod(u, n) \/ AssumePod(u, n)
    \/ \E u \in Uids : DeletePod(u)
    \/ CleanCache
    \/ Tick

CacheSpec == CacheInit /\ [][CacheNext]_cacheVars
-----------------------------------------------------------------------------
CacheTypeOK ==
    /\ DOMAIN requests \subseteq Uids
    /\ requests \in [DOMAIN requests -> Item]
    /\ requestsPerNode \in [Nodes -> Nat]
    /\ requestsPerNamespace \in [Namespaces -> Nat]
    /\ requestsTotal \in Nat

\* The counters the limits are enforced with agree with the map: addPod,
\* assumePod, deletePod and cleanCache, in any order and however often the
\* informer and the evictor report the same pod, count every item once and on
\* one node, also when the pod is scheduled while its item is in the cache
\* (evictions.go, addPod to deleteItem).
CountersMatch ==
    /\ requestsTotal = Cardinality(DOMAIN requests)
    /\ \A n \in Nodes : requestsPerNode[n] = Cardinality(OnNode(DOMAIN requests, n))
    /\ \A s \in Namespaces :
         requestsPerNamespace[s] = Cardinality(InNamespace(DOMAIN requests, s))
=============================================================================
