------------------------------- MODULE PodUtil -------------------------------
(***************************************************************************)
(* What the plugins ask of pods: pkg/descheduler/pod/pods.go and           *)
(* pkg/utils/pod.go, as operators.                                         *)
(*                                                                         *)
(* A pod is a record that keeps what these questions tell apart:           *)
(*   name, ns, node         the node is "" before the pod is scheduled     *)
(*   labels, annotations    sets of <<key, value>> and of keys             *)
(*   owners                 set of [kind, uid]                             *)
(*   phase, reason, terminating, priority (Nil: unset), qos                *)
(*   age, started           seconds since creation and start (Nil: not     *)
(*                          started); age < 0: created after this clock    *)
(*   waiting, terminated    container class -> reasons of its containers,  *)
(*   exits, restarts          exit codes, restart count                    *)
(*   conditions             set of [type, status, reason, since]           *)
(*   volumes, claims        kinds of local volumes, names of the PVCs      *)
(*   resourceClaims         whether it has any                             *)
(*   requests               resource -> quantity                           *)
(*   nodeSelector, required, preferred, anti, tolerations: see NodeFit     *)
(* The informer's store is a set of pods, called view below.               *)
(***************************************************************************)
EXTENDS Integers, Sequences, FiniteSets, SequencesExt, FiniteSetsExt

\* A nil pointer to a number; the numbers themselves are not negative.
Nil == -1

SystemCriticalPriority == 2000000000

Classes == {"main", "init", "ephemeral"}

\* The keys of the annotations.
MirrorPodAnnotationKey == "mirror"
NotFromAPI == "source"
EvictPodAnnotationKey == "evict"
SoftNoEvictionAnnotationKey == "prefer-no-eviction"

\* A label selector is the set of labels it asks for.
Matches(selector, labels) == selector \subseteq labels
HasKey(labels, key) == \E l \in labels : l[1] = key

----------------------------------------------------------------------------
(* Predicates on one pod.                                                  *)

IsMirrorPod(p) == MirrorPodAnnotationKey \in p.annotations
IsPodTerminating(p) == p.terminating
IsStaticPod(p) == NotFromAPI \in p.annotations
IsCriticalPriorityPod(p) == p.priority # Nil /\ p.priority >= SystemCriticalPriority
IsDaemonsetPod(owners) == \E o \in owners : o.kind = "DaemonSet"
IsPodWithLocalStorage(p) == p.volumes \cap {"hostPath", "emptyDir"} # {}
IsPodWithPVC(p) == p.claims # {}
IsPodWithResourceClaims(p) == p.resourceClaims
IsPodCoveredByPDB(p, pdbs) == \E b \in pdbs : b.ns = p.ns /\ Matches(b.selector, p.labels)
PodHasNodeAffinity(p, type) == IF type = "required" THEN p.required # <<>> ELSE p.preferred # {}
HaveNoEvictionAnnotation(p) == SoftNoEvictionAnnotationKey \in p.annotations

OwnerRef(p) == p.owners
OwnerRefUIDs(p) == {o.uid : o \in OwnerRef(p)}

HasMatchingContainerWaitingState(p, class, states) == p.waiting[class] \cap states # {}
HasMatchingContainerTerminatedState(p, class, states) == p.terminated[class] \cap states # {}

----------------------------------------------------------------------------
(* Filters and lists.  Options is a record [included, excluded, selector], *)
(* {} where an option is not set.  A filter given to a list is applied to  *)
(* the set it returns.                                                     *)

\* filter is what the filter that is wrapped says of p.
BuildFilterFunc(o, filter, p) ==
    /\ o.included # {} => p.ns \in o.included
    /\ o.excluded # {} => p.ns \notin o.excluded
    /\ Matches(o.selector, p.labels)
    /\ filter

ListAllPodsOnANode(view, n) == {p \in view : p.node = n.name}

ListPodsOnANode(view, n) ==
    {p \in ListAllPodsOnANode(view, n) : p.phase \notin {"Succeeded", "Failed"}}

ListPodsOnNodes(view, nodes) == UNION {ListPodsOnANode(view, n) : n \in nodes}

----------------------------------------------------------------------------
(* Orders.  The comparators are given to sort.Slice, which is not stable:  *)
(* pods neither of which must precede the other come in any order.         *)

SortedBy(pods, Before(_, _)) ==
    {s \in SetToSeqs(pods) :
        \A i, j \in 1..Len(s) : i < j => Before(s[i], s[j]) \/ ~Before(s[j], s[i])}

QoSRank(p) == CASE p.qos = "BestEffort" -> 0 [] p.qos = "Burstable" -> 1 [] OTHER -> 2

\* Pods without a priority first, then from low to high; equal ones by QoS,
\* and equal again with those that prefer not to be evicted at the end.
PriorityLowToHigh(p, q) ==
    \/ p.priority = Nil /\ q.priority # Nil
    \/ /\ p.priority = q.priority
       /\ \/ QoSRank(p) < QoSRank(q)
          \/ /\ QoSRank(p) = QoSRank(q)
             /\ ~HaveNoEvictionAnnotation(p) \/ HaveNoEvictionAnnotation(q)
    \/ Nil \notin {p.priority, q.priority} /\ p.priority < q.priority

OldestFirst(p, q) == p.age > q.age
============================================================================
