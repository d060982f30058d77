------------------------------- MODULE NodeFit -------------------------------
(***************************************************************************)
(* Where a pod could run: pkg/descheduler/node/node.go and                 *)
(* pkg/utils/predicates.go, as operators.                                  *)
(*                                                                         *)
(* A node is a record [name, labels, taints, unschedulable, ready,         *)
(* allocatable]: ready is FALSE if there is a Ready condition that is not  *)
(* true, taints a sequence of [key, value, effect], allocatable resource   *)
(* -> quantity.  Of a pod the operators read                               *)
(*   nodeSelector   set of labels                                          *)
(*   required       sequence of terms, each a set of labels, <<>> for none *)
(*   preferred      set of [weight, labels]                                *)
(*   anti           required pod anti-affinity, set of [namespaces,        *)
(*                  selector, key]                                         *)
(*   tolerations    sequence of [key, op, value, effect]; "" is any        *)
(***************************************************************************)
EXTENDS PodUtil

Pods == "pods"

IsReady(n) == n.ready
IsNodeUnschedulable(n) == n.unschedulable

\* An empty lister makes the code ask the API server, which has the same nodes.
ReadyNodes(nodes, selector) == {n \in nodes : Matches(selector, n.labels) /\ IsReady(n)}

----------------------------------------------------------------------------
(* Selectors, taints and preferences.                                      *)

PodMatchNodeSelector(p, n) ==
    /\ Matches(p.nodeSelector, n.labels)
    /\ p.required # <<>> => \E i \in 1..Len(p.required) : Matches(p.required[i], n.labels)

ToleratesTaint(t, taint) ==
    /\ t.effect \in {"", taint.effect}
    /\ t.key \in {"", taint.key}
    /\ t.op = "Exists" \/ t.value = taint.value

TolerationsTolerateTaint(tolerations, taint) ==
    \E i \in 1..Len(tolerations) : ToleratesTaint(tolerations[i], taint)

\* taints are those that pass the filter.
TolerationsTolerateTaintsWithFilter(tolerations, taints) ==
    \A i \in 1..Len(taints) : TolerationsTolerateTaint(tolerations, taints[i])

KeepsAway(taint) == taint.effect \in {"NoSchedule", "NoExecute"}

\* Some node has no more taints than the pod has tolerations, and the pod
\* tolerates them all, those of effect PreferNoSchedule included.
PodToleratesTaints(p, nodes) ==
    \E n \in nodes :
        /\ Len(p.tolerations) >= Len(n.taints)
        /\ TolerationsTolerateTaintsWithFilter(p.tolerations, n.taints)

GetNodeWeightGivenPodPreferredAffinity(p, n) ==
    LET weight(t) == t.weight
    IN  MapThenSumSet(weight, {t \in p.preferred : Matches(t.labels, n.labels)})

GetBestNodeWeightGivenPodPreferredAffinity(p, nodes) ==
    Max({0} \cup {GetNodeWeightGivenPodPreferredAffinity(p, n) : n \in nodes})

\* Sorted and without duplicates, two lists are equal when their sets are.
TolerationsEqual(s, t) == ToSet(s) = ToSet(t)

\* The requirements of a term are sorted, the terms are not: only neighbours
\* that are equal count once.
uniqueSortNodeSelectorTerms(terms) ==
    LET add(r, t) == IF r # <<>> /\ Last(r) = t THEN r ELSE Append(r, t)
    IN  FoldLeft(add, <<>>, terms)

NodeSelectorsEqual(s, t) == uniqueSortNodeSelectorTerms(s) = uniqueSortNodeSelectorTerms(t)

----------------------------------------------------------------------------
(* Inter-pod anti-affinity.                                                *)

GetNamespacesFromPodAffinityTerm(p, term) ==
    IF term.namespaces = {} THEN {p.ns} ELSE term.namespaces

PodMatchesTermsNamespaceAndSelector(q, namespaces, selector) ==
    q.ns \in namespaces /\ Matches(selector, q.labels)

Dislikes(p, term, q) ==
    /\ q.name # p.name
    /\ PodMatchesTermsNamespaceAndSelector(q, GetNamespacesFromPodAffinityTerm(p, term), term.selector)

hasSameLabelValue(n1, n2, key) ==
    \/ n1.name = n2.name
    \/ \E l \in n1.labels \cap n2.labels : l[1] = key

\* A pod of assigned that candidate p dislikes is in p's topology domain;
\* both nodes have to be among nodes.
CheckPodsWithAntiAffinityExist(p, assigned, nodes) ==
    \E term \in p.anti, q \in assigned, n1, n2 \in nodes :
        /\ n1.name = p.node /\ n2.name = q.node
        /\ Dislikes(p, term, q)
        /\ hasSameLabelValue(n1, n2, term.key)

\* p dislikes a pod on n, and n is in some domain.
podMatchesInterPodAntiAffinity(view, p, n) ==
    \E term \in p.anti, q \in ListPodsOnANode(view, n) :
        Dislikes(p, term, q) /\ HasKey(n.labels, term.key)

----------------------------------------------------------------------------
(* Resources.                                                              *)

Of(quantities, r) == IF r \in DOMAIN quantities THEN quantities[r] ELSE 0

NodeUtilization(pods, r) ==
    LET request(p) == Of(p.requests, r)
    IN  IF r = Pods THEN Cardinality(pods) ELSE MapThenSumSet(request, pods)

IsBasicResource(r) == r \in {"cpu", "memory", Pods}

\* A basic resource the node does not list counts as zero, so does any other.
nodeAvailableResources(view, n, r) ==
    IF IsBasicResource(r) \/ r \in DOMAIN n.allocatable
    THEN Of(n.allocatable, r) - NodeUtilization(ListPodsOnANode(view, n), r)
    ELSE 0

fitsRequest(view, p, n) ==
    /\ \A r \in DOMAIN p.requests : p.requests[r] <= nodeAvailableResources(view, n, r)
    /\ nodeAvailableResources(view, n, Pods) > 0

----------------------------------------------------------------------------
(* Whether a pod fits.  The nodes are tried in parallel until one fits.    *)

NodeFits(view, p, n) ==
    /\ ~IsNodeUnschedulable(n)
    /\ PodMatchNodeSelector(p, n)
    /\ TolerationsTolerateTaintsWithFilter(p.tolerations, SelectSeq(n.taints, KeepsAway))
    /\ ~podMatchesInterPodAntiAffinity(view, p, n)
    /\ p.node # n.name => fitsRequest(view, p, n)

PodFitsAnyNode(view, p, nodes) == \E n \in nodes : NodeFits(view, p, n)
PodFitsAnyOtherNode(view, p, nodes) == \E n \in nodes : n.name # p.node /\ NodeFits(view, p, n)
============================================================================
