-------------------------- MODULE RemoveDuplicates --------------------------
(***************************************************************************)
(* Balance runs of RemoveDuplicates: on every node the pods with the same  *)
(* owners and images are duplicates of the first one listed, and of the    *)
(* duplicates of an owner those above the average are evicted.  Between    *)
(* two runs the owners make the evicted pods anew, and the scheduler puts  *)
(* them on the feasible nodes with the fewest pods of the owner.           *)
(*                                                                         *)
(* A setting is a record [args, evictor, cluster, pods, given, limits].    *)
(* A pod has a field images, the sorted sequence of its images, and its    *)
(* owners have a name.                                                     *)
(***************************************************************************)
EXTENDS EvictorHandle

CONSTANTS
    Settings,   \* what a run can start from, in families
    Rounds      \* how many runs there are

ASSUME RoundsAssumption == Rounds \in Nat \ {0}

VARIABLES
    setting,
    view,         \* the pods in the informer's store
    round,
    status,       \* "new", "listing", "evicting" or one of Ends
    unlisted,     \* the nodes not listed yet
    occurrence,   \* ownerKeyOccurence: owner key -> number of pods
    duplicates,   \* duplicatePods: <<owner key, node name>> -> sequence of pods
    todo,         \* the owner keys not worked off yet
    owner,        \* the current owner key, <<>> before the first
    targets,      \* its target nodes
    nodeQueues,   \* the pods to evict of its nodes not worked off yet
    queue,        \* and of the current node
    calls,        \* the requests made in this round
    clean         \* no node failed to list and no request was refused so far

vars == <<setting, view, round, status, unlisted, occurrence, duplicates, todo, owner, targets,
          nodeQueues, queue, calls, clean>>

Ends == {"rejected", "done"}

args == setting.args
given == setting.given

Filter(p) == EvictorFilter(setting.evictor, setting.cluster, view, p)
PreEvictionFilter(p) == EvictorPreEvictionFilter(setting.evictor, setting.cluster, view, p)
Evictable(p) == Filter(p) /\ PreEvictionFilter(p)
podFilter(p) == BuildFilterFunc(args, Evictable(p), p)

ValidateRemoveDuplicatesArgs == ~(args.included # {} /\ args.excluded # {})

hasExcludedOwnerRefKind(owners) == \E o \in owners : o.kind \in args.excludeOwnerKinds

----------------------------------------------------------------------------
(* The duplicates on one node.                                             *)

podOwner(p, o) == [ns |-> p.ns, kind |-> o.kind, name |-> o.name, images |-> p.images]
OwnerKeys(p) == {podOwner(p, o) : o \in OwnerRef(p)}

\* The list of keys of a pod is every owner with every image; two lists are
\* equal if the namespace, the owners and the images are.
podContainerKeys(p) == <<p.ns, {<<o.kind, o.name>> : o \in OwnerRef(p)}, p.images>>

Considered(p) == OwnerRef(p) # {} /\ ~hasExcludedOwnerRefKind(OwnerRef(p))

\* Of the pods in the order listed, those with an equal one before them.
DuplicatesIn(list) ==
    LET again(k) == \E l \in 1..(k - 1) : podContainerKeys(list[l]) = podContainerKeys(list[k])
    IN  [k \in 1..Cardinality({l \in 1..Len(list) : again(l)}) |->
            list[CHOOSE l \in 1..Len(list) :
                    again(l) /\ Cardinality({m \in 1..l : again(m)}) = k]]

----------------------------------------------------------------------------
(* The nodes the duplicates of an owner could run on.                      *)

\* Seeded fault: the node selectors are not compared.
SameTermsButSelector(p, q) ==
    TolerationsEqual(p.tolerations, q.tolerations) /\ NodeSelectorsEqual(p.required, q.required)

SameTerms(p, q) ==
    /\ TolerationsEqual(p.tolerations, q.tolerations)
    /\ NodeSelectorsEqual(p.required, q.required)
    /\ p.nodeSelector = q.nodeSelector

\* distinctPods, one of each kind; which one depends on the order of a map.
DistinctPods(pods) ==
    {d \in SUBSET pods :
        /\ \A p \in pods : \E q \in d : SameTerms(p, q)
        /\ \A p, q \in d : SameTerms(p, q) => p = q}

MatchingNodes(p) ==
    {n \in given :
        /\ TolerationsTolerateTaintsWithFilter(p.tolerations, SelectSeq(n.taints, KeepsAway))
        /\ PodMatchNodeSelector(p, n)}

\* Pods that could run on one node only stay where they are.
getTargetNodes(distinct) ==
    UNION {nodes \in {MatchingNodes(p) : p \in distinct} : Cardinality(nodes) > 1}

----------------------------------------------------------------------------
(* The run.                                                                *)

Init ==
    /\ \E family \in Settings : setting \in family
    /\ view = setting.pods
    /\ round = 1 /\ status = "new"
    /\ unlisted = {} /\ occurrence = <<>> /\ duplicates = <<>> /\ todo = {}
    /\ owner = <<>> /\ targets = {} /\ nodeQueues = <<>> /\ queue = <<>> /\ calls = <<>>
    /\ clean = TRUE

\* Validation and New, and the start of Balance.
Build ==
    /\ status = "new"
    /\ IF ValidateRemoveDuplicatesArgs
       THEN status' = "listing" /\ unlisted' = given
       ELSE status' = "rejected" /\ UNCHANGED unlisted
    /\ UNCHANGED <<setting, view, round, occurrence, duplicates, todo, owner, targets, nodeQueues, queue, calls, clean>>

At(f, x, default) == IF x \in DOMAIN f THEN f[x] ELSE default

\* The pods of a node, in any order; an error skips the node.
ListNode ==
    /\ status = "listing"
    /\ \E n \in unlisted :
        /\ unlisted' = unlisted \ {n}
        /\ \E list \in SetToSeqs({p \in ListPodsOnANode(view, n) : podFilter(p) /\ Considered(p)}) :
            LET keys == UNION {OwnerKeys(p) : p \in ToSet(list)}
                of(key) == SelectSeq(DuplicatesIn(list), LAMBDA p : key \in OwnerKeys(p))
                found == {key \in keys : of(key) # <<>>}
            IN  /\ occurrence' = [key \in DOMAIN occurrence \cup keys |->
                        At(occurrence, key, 0) + Cardinality({p \in ToSet(list) : key \in OwnerKeys(p)})]
                /\ duplicates' = [x \in DOMAIN duplicates \cup (found \X {n.name}) |->
                        IF x \in DOMAIN duplicates THEN duplicates[x] ELSE of(x[1])]
    /\ UNCHANGED <<setting, view, round, status, todo, owner, targets, nodeQueues, queue, calls, clean>>

ListFails ==
    /\ status = "listing"
    /\ \E n \in unlisted : unlisted' = unlisted \ {n}
    /\ clean' = FALSE
    /\ UNCHANGED <<setting, view, round, status, occurrence, duplicates, todo, owner, targets, nodeQueues, queue, calls>>

StartEvicting ==
    /\ status = "listing" /\ unlisted = {}
    /\ status' = "evicting"
    /\ todo' = {x[1] : x \in DOMAIN duplicates}
    /\ UNCHANGED <<setting, view, round, unlisted, occurrence, duplicates, owner, targets, nodeQueues, queue, calls, clean>>

\* Seeded fault: the average is rounded down.
upperAvgDown(key, nodes) == Max({1, occurrence[key] \div Cardinality(nodes)})

upperAvg(key, nodes) == -((-occurrence[key]) \div Cardinality(nodes))

\* The pods of a node above the average; the first pod, of which they are
\* duplicates, is not among them.
Excess(pods, avg) == SubSeq(pods, avg, Len(pods))

\* The next owner, in the order of a map.
NextOwner ==
    /\ status = "evicting" /\ queue = <<>> /\ DOMAIN nodeQueues = {}
    /\ \E key \in todo :
        LET nodes == {x[2] : x \in {y \in DOMAIN duplicates : y[1] = key}}
        IN  /\ todo' = todo \ {key} /\ owner' = key
            /\ \E distinct \in DistinctPods(UNION {ToSet(duplicates[<<key, n>>]) : n \in nodes}) :
                targets' = getTargetNodes(distinct)
            /\ IF Cardinality(targets') < 2
               THEN UNCHANGED nodeQueues
               ELSE nodeQueues' = [n \in nodes |-> Excess(duplicates[<<key, n>>], upperAvg(key, targets'))]
    /\ UNCHANGED <<setting, view, round, status, unlisted, occurrence, duplicates, queue, calls, clean>>

NextNode ==
    /\ queue = <<>>
    /\ \E n \in DOMAIN nodeQueues :
        /\ queue' = nodeQueues[n]
        /\ nodeQueues' = [m \in DOMAIN nodeQueues \ {n} |-> nodeQueues[m]]
    /\ UNCHANGED <<setting, view, round, status, unlisted, occurrence, duplicates, todo, owner, targets, calls, clean>>

\* Seeded fault: the limit of a node ends the work on the owner.
AfterEvictOwner(result) ==
    /\ status' = IF result = "total" THEN "done" ELSE status
    /\ queue' = IF result \in {"node", "total"} THEN <<>> ELSE Tail(queue)
    /\ nodeQueues' = IF result \in {"node", "total"} THEN <<>> ELSE nodeQueues

\* The limit of a node ends the node, the total limit the run.
AfterEvict(result) ==
    /\ status' = IF result = "total" THEN "done" ELSE status
    /\ queue' = IF result \in {"node", "total"} THEN <<>> ELSE Tail(queue)
    /\ nodeQueues' = IF result = "total" THEN <<>> ELSE nodeQueues

Evict ==
    /\ queue # <<>>
    /\ LET p == Head(queue)
       IN  \E result \in Answers(setting.limits, calls, p) :
            /\ calls' = Append(calls, [pod |-> p, result |-> result])
            /\ AfterEvict(result)
            /\ clean' = (clean /\ result = "ok")
    /\ UNCHANGED <<setting, view, round, unlisted, occurrence, duplicates, todo, owner, targets>>

Finish ==
    /\ status = "evicting" /\ queue = <<>> /\ DOMAIN nodeQueues = {} /\ todo = {}
    /\ status' = "done"
    /\ UNCHANGED <<setting, view, round, unlisted, occurrence, duplicates, todo, owner, targets, nodeQueues, queue, calls, clean>>

\* A pod leaves while the nodes are listed.
Gone ==
    /\ status = "listing" /\ round = 1
    /\ \E p \in view : IsPodTerminating(p) /\ view' = view \ {p}
    /\ UNCHANGED <<setting, round, status, unlisted, occurrence, duplicates, todo, owner, targets, nodeQueues, queue, calls, clean>>

----------------------------------------------------------------------------
(* Between two runs.                                                       *)

Sharing(pods, p, n) == Cardinality({q \in pods : q.node = n.name /\ OwnerKeys(q) \cap OwnerKeys(p) # {}})

\* The pods placed one after the other, each on a node it may run on that has
\* no more pods of its owners than any other.
Placements(pods, new) ==
    LET place(p, soFar) ==
            UNION {{q \cup {[p EXCEPT !.node = n.name]} :
                        n \in {m \in MatchingNodes(p) :
                                \A o \in MatchingNodes(p) : Sharing(q, p, m) <= Sharing(q, p, o)}} : q \in soFar}
    IN  FoldSet(place, {pods}, new)

Reschedule ==
    /\ status = "done" /\ round < Rounds
    /\ round' = round + 1 /\ status' = "listing" /\ unlisted' = given
    /\ view' \in Placements(view \ Evicted(calls), Evicted(calls))
    /\ occurrence' = <<>> /\ duplicates' = <<>> /\ calls' = <<>>
    /\ todo' = {} /\ owner' = <<>> /\ targets' = {}
    /\ nodeQueues' = <<>> /\ queue' = <<>>
    /\ UNCHANGED <<setting, clean>>

Next ==
    \/ Build \/ ListNode \/ ListFails \/ StartEvicting \/ NextOwner \/ NextNode \/ Evict \/ Finish
    \/ Gone \/ Reschedule

Spec == Init /\ [][Next]_vars

----------------------------------------------------------------------------
(* Properties.                                                             *)

OfOwner(key) ==
    {p \in view : /\ \E n \in given : n.name = p.node
                 /\ Considered(p) /\ podFilter(p) /\ key \in OwnerKeys(p)}
OnNode(key, n) == {p \in OfOwner(key) : p.node = n.name}

\* Pods of this owner have no other, and may all run on the same nodes.
Alike(key) ==
    \A p, q \in OfOwner(key) : OwnerKeys(p) = {key} /\ SameTerms(p, q)

\* A node keeps its share: of the pods of an owner at least as many as the
\* average over all nodes, rounded up, stay on a node that has them, so pods
\* that are already spread evenly are left alone (upperAvg, and the first pod
\* that is not in the list of duplicates).
KeepsShare ==
    \A key \in DOMAIN occurrence, n \in given :
        Alike(key) =>
            Cardinality(OnNode(key, n) \ Evicted(calls))
                >= Min({Cardinality(OnNode(key, n)), -((-occurrence[key]) \div Cardinality(given))})

\* A run that is over has asked for every pod of a node above the average of
\* the nodes the pods may run on, but for the nodes at their limit.
ExcessTried ==
    status = "done" /\ ~OutOfBudget(calls) =>
        \A key \in DOMAIN occurrence, n \in given :
            LET nodes == UNION {MatchingNodes(p) : p \in OfOwner(key)}
            IN  Alike(key) /\ Cardinality(nodes) > 1 /\ occurrence[key] = Cardinality(OfOwner(key)) /\ ~NodeFull(calls, n.name)
                => Cardinality({p \in OnNode(key, n) : ~Requested(calls, p)})
                        <= -((-occurrence[key]) \div Cardinality(nodes))

\* Pods do not go round in circles: once the evicted pods of a run run where
\* the scheduler spreads them, the next run evicts nothing.
Settles ==
    round > 1 /\ clean /\ (\A key \in DOMAIN occurrence : Alike(key))
              /\ (\A p \in view : podFilter(p) /\ Considered(p) /\ \E n \in given : n.name = p.node)
    => calls = <<>>

\* It does not matter which pod stands for the others with equal tolerations,
\* node selector and affinity ("Identical pods wrt. (tolerations,
\* nodeselectors, node affinity) terms will produce the same result").
RepresentativesSuffice ==
    owner # <<>> =>
        LET all == UNION {ToSet(duplicates[x]) : x \in {y \in DOMAIN duplicates : y[1] = owner}}
        IN  targets = UNION {nodes \in {MatchingNodes(p) : p \in all} : Cardinality(nodes) > 1}
=============================================================================
