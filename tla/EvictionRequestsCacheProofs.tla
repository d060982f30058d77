-------------------- MODULE EvictionRequestsCacheProofs --------------------
(***************************************************************************)
(* For every set of pods, nodes and namespaces: the counters of the cache  *)
(* agree with its map.  Each operation is treated in a lemma of its own,   *)
(* so that the proofs about the evictor, which interleaves them, can cite  *)
(* it.                                                                     *)
(***************************************************************************)
EXTENDS EvictionRequestsCache, FiniteSetTheorems, TLAPS

CacheInv == CacheTypeOK /\ CountersMatch

\* The map only has finitely many items, and so has every selection of them.
LEMMA FiniteCache ==
    ASSUME CacheTypeOK
    PROVE  /\ IsFiniteSet(DOMAIN requests)
           /\ \A S \in SUBSET DOMAIN requests : IsFiniteSet(S)
BY CacheAssumption, FS_Subset DEF CacheTypeOK

\* newEvictionRequestsCache: no items, all counters zero.
LEMMA CacheInitInv == CacheInit => CacheInv
<1> SUFFICES ASSUME CacheInit PROVE CacheInv
    OBVIOUS
<1>1. DOMAIN requests = {}
    BY DEF CacheInit, EmptyCache
<1>2. CacheTypeOK
    BY <1>1 DEF CacheInit, CacheTypeOK, EmptyCache, ZeroPerNode, ZeroPerNamespace
<1>3. /\ \A n \in Nodes : OnNode(DOMAIN requests, n) = {}
      /\ \A s \in Namespaces : InNamespace(DOMAIN requests, s) = {}
    BY <1>1 DEF OnNode, InNamespace
<1>4. CountersMatch
    BY <1>1, <1>3, FS_EmptySet
       DEF CacheInit, CountersMatch, ZeroPerNode, ZeroPerNamespace
<1> QED BY <1>2, <1>4 DEF CacheInv

\* A new item is counted once: addPod and assumePod on a pod that is not in the
\* cache.
LEMMA NewItem ==
    ASSUME CacheInv, NEW u \in Uids, NEW it \in Item,
           ~HasPod(u), requests' = WithItem(u, it), BumpCounters(u, it.node)
    PROVE  CacheInv'
<1> DEFINE D == DOMAIN requests
<1>1. DOMAIN requests' = D \cup {u} /\ u \notin D
    BY DEF WithItem, HasPod
<1>2. /\ requests'[u] = it
      /\ \A v \in D : requests'[v] = requests[v]
    BY <1>1 DEF WithItem
<1>3. CacheTypeOK'
  <2>1. requests' \in [DOMAIN requests' -> Item]
      BY <1>1 DEF CacheInv, CacheTypeOK, WithItem
  <2>2. it.node \in Nodes /\ NamespaceOf[u] \in Namespaces
      BY CacheAssumption DEF Item
  <2> QED BY <1>1, <2>1, <2>2 DEF CacheInv, CacheTypeOK, BumpCounters
<1>4. requestsTotal' = Cardinality(DOMAIN requests')
    BY <1>1, FiniteCache, FS_AddElement DEF CacheInv, CountersMatch, BumpCounters
<1>5. ASSUME NEW n \in Nodes
      PROVE  requestsPerNode'[n] = Cardinality(OnNode(DOMAIN requests, n)')
  <2>1. IsFiniteSet(OnNode(D, n)) /\ u \notin OnNode(D, n)
      BY <1>1, FiniteCache DEF OnNode, CacheInv
  <2>2. requestsPerNode[n] = Cardinality(OnNode(D, n))
      BY DEF CacheInv, CountersMatch
  <2>3. CASE n = it.node
    <3>1. OnNode(DOMAIN requests, n)' = OnNode(D, n) \cup {u}
        BY <1>1, <1>2, <2>3 DEF OnNode
    <3> QED BY <2>1, <2>2, <2>3, <3>1, FS_AddElement
            DEF BumpCounters, CacheInv, CacheTypeOK
  <2>4. CASE n # it.node
    <3>1. OnNode(DOMAIN requests, n)' = OnNode(D, n)
        BY <1>1, <1>2, <2>4 DEF OnNode
    <3> QED BY <2>2, <2>4, <3>1 DEF BumpCounters, CacheInv, CacheTypeOK
  <2> QED BY <2>3, <2>4
<1>6. ASSUME NEW s \in Namespaces
      PROVE  requestsPerNamespace'[s] = Cardinality(InNamespace(DOMAIN requests, s)')
  <2>1. IsFiniteSet(InNamespace(D, s)) /\ u \notin InNamespace(D, s)
      BY <1>1, FiniteCache DEF InNamespace, CacheInv
  <2>2. requestsPerNamespace[s] = Cardinality(InNamespace(D, s))
      BY DEF CacheInv, CountersMatch
  <2>3. CASE s = NamespaceOf[u]
    <3>1. InNamespace(DOMAIN requests, s)' = InNamespace(D, s) \cup {u}
        BY <1>1, <2>3 DEF InNamespace
    <3> QED BY <2>1, <2>2, <2>3, <3>1, FS_AddElement
            DEF BumpCounters, CacheInv, CacheTypeOK
  <2>4. CASE s # NamespaceOf[u]
    <3>1. InNamespace(DOMAIN requests, s)' = InNamespace(D, s)
        BY <1>1, <2>4 DEF InNamespace
    <3> QED BY <2>2, <2>4, <3>1 DEF BumpCounters, CacheInv, CacheTypeOK
  <2> QED BY <2>3, <2>4
<1> QED BY <1>3, <1>4, <1>5, <1>6 DEF CacheInv, CountersMatch

\* Items that change without moving to another node keep the counters right:
\* assumePod's upgrade and the passing of time.
LEMMA SameNodes ==
    ASSUME CacheInv, requests' \in [DOMAIN requests -> Item],
           \A v \in DOMAIN requests : requests'[v].node = requests[v].node,
           UNCHANGED <<requestsPerNode, requestsPerNamespace, requestsTotal>>
    PROVE  CacheInv'
<1>1. DOMAIN requests' = DOMAIN requests
    OBVIOUS
<1>2. \A n \in Nodes : OnNode(DOMAIN requests, n)' = OnNode(DOMAIN requests, n)
    BY <1>1 DEF OnNode
<1>3. \A s \in Namespaces :
        InNamespace(DOMAIN requests, s)' = InNamespace(DOMAIN requests, s)
    BY <1>1 DEF InNamespace
<1> QED BY <1>1, <1>2, <1>3 DEF CacheInv, CacheTypeOK, CountersMatch

\* addPod.
LEMMA AddPodInv ==
    ASSUME CacheInv, NEW u \in Uids, NEW n \in Nodes, AddPod(u, n)
    PROVE  CacheInv'
<1>1. CASE HasPod(u) /\ UNCHANGED cacheVars
    BY <1>1 DEF cacheVars, CacheInv, CacheTypeOK, CountersMatch, OnNode, InNamespace
<1>2. CASE ~HasPod(u) /\ requests' = WithItem(u, Detected(n)) /\ BumpCounters(u, n)
  <2>1. Detected(n) \in Item /\ Detected(n).node = n
      BY CacheAssumption DEF Detected, Item
  <2> QED BY <1>2, <2>1, NewItem
<1> QED BY <1>1, <1>2 DEF AddPod

\* assumePod.
LEMMA AssumePodInv ==
    ASSUME CacheInv, NEW u \in Uids, NEW n \in Nodes, AssumePod(u, n)
    PROVE  CacheInv'
<1>1. CASE UNCHANGED cacheVars
    BY <1>1 DEF cacheVars, CacheInv, CacheTypeOK, CountersMatch, OnNode, InNamespace
<1>2. CASE /\ HasPod(u)
           /\ requests' = WithItem(u, FreshlyAssumed(requests[u].node))
           /\ UNCHANGED <<requestsPerNode, requestsPerNamespace, requestsTotal>>
  <2>1. FreshlyAssumed(requests[u].node) \in Item
      BY <1>2, CacheAssumption DEF FreshlyAssumed, Item, HasPod, CacheInv, CacheTypeOK
  <2>2. DOMAIN requests \cup {u} = DOMAIN requests
      BY <1>2 DEF HasPod
  <2>3. requests' \in [DOMAIN requests -> Item]
      BY <1>2, <2>1, <2>2 DEF WithItem, CacheInv, CacheTypeOK
  <2>4. \A v \in DOMAIN requests : requests'[v].node = requests[v].node
      BY <1>2, <2>2 DEF WithItem, FreshlyAssumed
  <2> QED BY <1>2, <2>3, <2>4, SameNodes
<1>3. CASE ~HasPod(u) /\ requests' = WithItem(u, FreshlyAssumed(n)) /\ BumpCounters(u, n)
  <2>1. FreshlyAssumed(n) \in Item /\ FreshlyAssumed(n).node = n
      BY CacheAssumption DEF FreshlyAssumed, Item
  <2> QED BY <1>3, <2>1, NewItem
<1> QED BY <1>1, <1>2, <1>3 DEF AssumePod

\* deleteItem, for any items of the cache.
LEMMA DeleteItemsInv ==
    ASSUME CacheInv, NEW S \in SUBSET DOMAIN requests, DeleteItems(S)
    PROVE  CacheInv'
<1> DEFINE D == DOMAIN requests
<1>1. DOMAIN requests' = D \ S /\ \A v \in D \ S : requests'[v] = requests[v]
    BY DEF DeleteItems
<1>2. ASSUME NEW A \in SUBSET D, NEW B \in SUBSET A
      PROVE  /\ Cardinality(A \ B) = Cardinality(A) - Cardinality(B)
             /\ Cardinality(A \ B) \in Nat
  <2>1. IsFiniteSet(A) /\ IsFiniteSet(B) /\ IsFiniteSet(A \ B)
      BY FiniteCache, FS_Subset DEF CacheInv
  <2>2. A \cap B = B
      OBVIOUS
  <2> QED BY <2>1, <2>2, FS_Difference, FS_CardinalityType
<1>3. /\ requestsTotal' = Cardinality(D \ S)
      /\ requestsTotal' \in Nat
    BY <1>2 DEF DeleteItems, CacheInv, CountersMatch
<1>4. ASSUME NEW n \in Nodes
      PROVE  /\ requestsPerNode'[n] = Cardinality(OnNode(DOMAIN requests, n)')
             /\ requestsPerNode'[n] \in Nat
  <2>1. OnNode(DOMAIN requests, n)' = OnNode(D, n) \ OnNode(S, n)
      BY <1>1 DEF OnNode
  <2>2. OnNode(D, n) \in SUBSET D /\ OnNode(S, n) \in SUBSET OnNode(D, n)
      BY DEF OnNode
  <2>3. requestsPerNode'[n] = Cardinality(OnNode(D, n)) - Cardinality(OnNode(S, n))
      BY DEF DeleteItems, CacheInv, CountersMatch
  <2> QED BY <1>2, <2>1, <2>2, <2>3
<1>5. ASSUME NEW s \in Namespaces
      PROVE  /\ requestsPerNamespace'[s] = Cardinality(InNamespace(DOMAIN requests, s)')
             /\ requestsPerNamespace'[s] \in Nat
  <2>1. InNamespace(DOMAIN requests, s)' = InNamespace(D, s) \ InNamespace(S, s)
      BY <1>1 DEF InNamespace
  <2>2. InNamespace(D, s) \in SUBSET D /\ InNamespace(S, s) \in SUBSET InNamespace(D, s)
      BY DEF InNamespace
  <2>3. requestsPerNamespace'[s] =
          Cardinality(InNamespace(D, s)) - Cardinality(InNamespace(S, s))
      BY DEF DeleteItems, CacheInv, CountersMatch
  <2> QED BY <1>2, <2>1, <2>2, <2>3
<1>6. CacheTypeOK'
  <2>1. DOMAIN requests' \subseteq Uids /\ requests' \in [DOMAIN requests' -> Item]
      BY <1>1 DEF CacheInv, CacheTypeOK, DeleteItems
  <2>2. requestsPerNode' \in [Nodes -> Nat]
      BY <1>4 DEF DeleteItems
  <2>3. requestsPerNamespace' \in [Namespaces -> Nat]
      BY <1>5 DEF DeleteItems
  <2> QED BY <1>3, <2>1, <2>2, <2>3 DEF CacheTypeOK
<1>7. CountersMatch'
    BY <1>1, <1>3, <1>4, <1>5 DEF CountersMatch
<1> QED BY <1>6, <1>7 DEF CacheInv

\* deletePod and cleanCache delete items of the cache.
LEMMA DeletePodInv ==
    ASSUME CacheInv, NEW u, DeletePod(u)
    PROVE  CacheInv'
BY DeleteItemsInv DEF DeletePod

LEMMA CleanCacheInv ==
    ASSUME CacheInv, CleanCache
    PROVE  CacheInv'
BY DeleteItemsInv DEF CleanCache, Expired, Assumed

\* Time passes.
LEMMA TickInv ==
    ASSUME CacheInv, Tick
    PROVE  CacheInv'
<1>1. requests' \in [DOMAIN requests -> Item]
  <2>1. ASSUME NEW u \in DOMAIN requests PROVE requests'[u] \in Item
    <3>1. requests[u] \in Item
        BY DEF CacheInv, CacheTypeOK
    <3> QED BY <3>1, CacheAssumption DEF Tick, Older, Item
  <2> QED BY <2>1 DEF Tick
<1>2. \A v \in DOMAIN requests : requests'[v].node = requests[v].node
  <2>1. ASSUME NEW v \in DOMAIN requests PROVE requests'[v].node = requests[v].node
    <3>1. requests[v] \in Item
        BY DEF CacheInv, CacheTypeOK
    <3> QED BY <3>1 DEF Tick, Older, Item
  <2> QED BY <2>1
<1> QED BY <1>1, <1>2, SameNodes DEF Tick

\* The counters agree with the map in every reachable state of the cache,
\* whatever order its operations are called in (evictions.go, addPod to
\* cleanCache).
THEOREM CacheCountersMatch == CacheSpec => [](CacheTypeOK /\ CountersMatch)
<1>1. CacheInv /\ [CacheNext]_cacheVars => CacheInv'
  <2> SUFFICES ASSUME CacheInv, [CacheNext]_cacheVars PROVE CacheInv'
      OBVIOUS
  <2>1. CASE UNCHANGED cacheVars
      BY <2>1 DEF cacheVars, CacheInv, CacheTypeOK, CountersMatch, OnNode, InNamespace
  <2>2. CASE CacheNext
      BY <2>2, AddPodInv, AssumePodInv, DeletePodInv, CleanCacheInv, TickInv
         DEF CacheNext
  <2> QED BY <2>1, <2>2
<1> QED BY <1>1, CacheInitInv, PTL DEF CacheSpec, CacheInv
=============================================================================
