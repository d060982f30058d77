--------------------------- MODULE TopologySpread ---------------------------
(***************************************************************************)
(* One Balance run of RemovePodsViolatingTopologySpreadConstraint: for     *)
(* every constraint of a namespace the evictable pods are put into         *)
(* domains, and pods move from the largest domains to the smallest until   *)
(* the two indices meet; those that moved are evicted at the end.          *)
(*                                                                         *)
(* A setting is a record [args, evictor, cluster, pods, given, limits].    *)
(* A pod has a field constraints, a sequence of [when, skew, key,          *)
(* selector, matchLabelKeys, affinity, taints]: selector is {} when nil,   *)
(* which matches nothing, else a set with one selector; the two policies   *)
(* are "" when nil.  The ideal average is a fraction, compared exactly.    *)
(***************************************************************************)
EXTENDS EvictorHandle

CONSTANT Settings   \* what a run can start from, in families

VARIABLES
    setting,
    view,      \* the pods in the informer's store
    status,    \* "new", "balancing", "evicting" or one of Ends
    pods,      \* the evictable pods when they were listed
    todo,      \* the constraints to balance, [ns, tsc]
    current,   \* the constraint being balanced: [ns, tsc, sum, below]
    domains,   \* sortedDomains, [value, pods]
    i, j,      \* the indices into domains of balanceDomains
    chosen,    \* podsForEviction
    calls      \* the requests made

vars == <<setting, view, status, pods, todo, current, domains, i, j, chosen, calls>>

Ends == {"rejected", "failed", "done"}

args == setting.args
given == setting.given

Filter(p) == EvictorFilter(setting.evictor, setting.cluster, view, p)
PreEvictionFilter(p) == EvictorPreEvictionFilter(setting.evictor, setting.cluster, view, p)
podFilter(p) == BuildFilterFunc(args, Filter(p), p)

ValidateArgs ==
    /\ ~(args.included # {} /\ args.excluded # {})
    /\ args.constraints \subseteq {"DoNotSchedule", "ScheduleAnyway"}

SetDefaultsArgs(a) ==
    [a EXCEPT !.constraints = IF @ = {} THEN {"DoNotSchedule"} ELSE @]

----------------------------------------------------------------------------
(* Constraints and domains.                                                *)

mergeLabelSetWithSelector(labels, selector) == {s \cup labels : s \in selector}

Policy(policy, default) == IF policy = "" THEN default ELSE policy

newTopologySpreadConstraint(c, p) ==
    LET affinity == Policy(c.affinity, "Honor")
        taints == Policy(c.taints, "Ignore")
    IN  [skew |-> c.skew, key |-> c.key,
         selector |-> mergeLabelSetWithSelector({l \in p.labels : l[1] \in c.matchLabelKeys}, c.selector),
         affinity |-> affinity, taints |-> taints,
         podAffinity |-> IF affinity = "Honor" THEN <<p.nodeSelector, p.required>> ELSE <<{}, <<>>>>,
         podTolerations |-> IF taints = "Honor" THEN p.tolerations ELSE <<>>]

\* Identical constraints of a namespace are balanced once.
Constraints(found) ==
    UNION {{[ns |-> p.ns, tsc |-> newTopologySpreadConstraint(p.constraints[k], p)] :
                k \in {l \in 1..Len(p.constraints) : p.constraints[l].when \in args.constraints}} : p \in found}

matchNodeInclusionPolicies(tsc, n) ==
    /\ tsc.affinity = "Honor" =>
        PodMatchNodeSelector([nodeSelector |-> tsc.podAffinity[1], required |-> tsc.podAffinity[2]], n)
    /\ tsc.taints = "Honor" =>
        TolerationsTolerateTaintsWithFilter(tsc.podTolerations, SelectSeq(n.taints, KeepsAway))

filterEligibleNodes(tsc) == {n \in given : matchNodeInclusionPolicies(tsc, n)}

ValuesOf(nodes, key) == {l[2] : l \in {m \in UNION {n.labels : n \in nodes} : m[1] = key}}
InDomain(p, key, value) == \E n \in given : n.name = p.node /\ <<key, value>> \in n.labels

\* The pods that count for constraint c, by the value of its topology key;
\* a domain without eligible nodes counts once a pod is in it.
constraintTopologies(c) ==
    LET counts(p) == /\ p.ns = c.ns /\ ~IsPodTerminating(p)
                     /\ \E s \in c.tsc.selector : Matches(s, p.labels)
        on(v) == {p \in pods : counts(p) /\ InDomain(p, c.tsc.key, v)}
        values == ValuesOf(filterEligibleNodes(c.tsc), c.tsc.key)
                      \cup {v \in ValuesOf(given, c.tsc.key) : on(v) # {}}
    IN  [v \in values |-> on(v)]

topologyIsBalanced(topologies, tsc) ==
    \A v, w \in DOMAIN topologies :
        Cardinality(topologies[v]) - Cardinality(topologies[w]) <= tsc.skew

\* Among all nodes that are eligible, those of domains below the average.
filterNodesBelowIdealAvg(c, topologies, sum) ==
    {n \in filterEligibleNodes(c.tsc) :
        \E v \in DOMAIN topologies :
            /\ <<c.tsc.key, v>> \in n.labels
            /\ Cardinality(topologies[v]) * Cardinality(DOMAIN topologies) < sum}

hasSelectorOrAffinity(p) == p.nodeSelector # {} \/ p.required # <<>> \/ p.preferred # {}

comparePodsByPriority(p, q) ==
    \/ q.priority = Nil
    \/ p.priority # Nil /\ p.priority > q.priority

\* The comparator of the pods of a domain; the last ones are evicted first.
StaysLonger(p, q) ==
    IF ~Filter(p) \/ ~Filter(q) THEN ~(Filter(p) /\ ~Filter(q))
    ELSE IF hasSelectorOrAffinity(p) = hasSelectorOrAffinity(q) THEN ~comparePodsByPriority(p, q)
    ELSE hasSelectorOrAffinity(p)

Smaller(a, b) == Len(a.pods) < Len(b.pods)

\* Every way to sort the pods of each domain, and then the domains.
sortDomains(topologies) ==
    LET orders == [v \in DOMAIN topologies |-> SortedBy(topologies[v], StaysLonger)]
        sorted == {f \in [DOMAIN topologies -> UNION {orders[v] : v \in DOMAIN topologies}] :
                        \A v \in DOMAIN topologies : f[v] \in orders[v]}
    IN  UNION {SortedBy({[value |-> v, pods |-> f[v]] : v \in DOMAIN topologies}, Smaller) : f \in sorted}

----------------------------------------------------------------------------
(* The run.                                                                *)

Init ==
    /\ \E family \in Settings : setting \in family
    /\ view = setting.pods
    /\ status = "new"
    /\ pods = {} /\ todo = {} /\ current = <<>> /\ domains = <<>>
    /\ i = 0 /\ j = 0 /\ chosen = {} /\ calls = <<>>

\* Validation, defaults and New.
Build ==
    /\ status = "new"
    /\ status' = IF ValidateArgs THEN "listing" ELSE "rejected"
    /\ setting' = [setting EXCEPT !.args = SetDefaultsArgs(@)]
    /\ UNCHANGED <<view, pods, todo, current, domains, i, j, chosen, calls>>

\* The start of Balance.
List ==
    /\ status = "listing"
    /\ pods' = {p \in ListPodsOnNodes(view, given) : podFilter(p)}
    /\ todo' = Constraints(pods')
    /\ status' = "balancing"
    /\ UNCHANGED <<setting, view, current, domains, i, j, chosen, calls>>

ListFails ==
    /\ status = "listing"
    /\ status' = "failed"
    /\ UNCHANGED <<setting, view, pods, todo, current, domains, i, j, chosen, calls>>

\* The next constraint, and what balanceDomains does before its loop.
NextConstraint ==
    /\ status = "balancing" /\ i >= j
    /\ \E c \in todo :
        LET topologies == constraintTopologies(c)
            sum == MapThenSumSet(LAMBDA v : Cardinality(topologies[v]), DOMAIN topologies)
        IN  /\ todo' = todo \ {c}
            /\ IF topologyIsBalanced(topologies, c.tsc)
               THEN UNCHANGED <<current, domains, i, j>>
               ELSE /\ current' = [ns |-> c.ns, tsc |-> c.tsc, sum |-> sum,
                                   below |-> filterNodesBelowIdealAvg(c, topologies, sum)]
                    /\ domains' \in sortDomains(topologies)
                    /\ i' = 1 /\ j' = Len(domains')
    /\ UNCHANGED <<setting, view, status, pods, chosen, calls>>

Ceil(a, b) == -((-a) \div b)
Size(k) == Len(domains[k].pods)

\* Seeded fault: a domain may be emptied down to the skew alone.
movePodsHalf(lo, hi) == Ceil(Size(hi) - Size(lo) - current.tsc.skew, 2)

\* How many pods domain hi can give to domain lo.
movePods(lo, hi) ==
    LET n == Len(domains)
        aboveAvg == Ceil(Size(hi) * n - current.sum, n)
        belowAvg == Ceil(current.sum - Size(lo) * n, n)
        halfSkew == Ceil(Size(hi) - Size(lo) - current.tsc.skew, 2)
    IN  Min({aboveAvg, belowAvg, halfSkew})

Fits(p) == PodFitsAnyOtherNode(view, p, current.below)
DoesNotFit(p) == ~Fits(p)

\* Seeded fault: pods that fit nowhere are evicted too.
MoveUnfit(lo, hi, k) ==
    LET ordered == SelectSeq(domains[hi].pods, DoesNotFit) \o SelectSeq(domains[hi].pods, Fits)
        kept == SubSeq(ordered, 1, Len(ordered) - k)
        moved == SubSeq(ordered, Len(ordered) - k + 1, Len(ordered))
    IN  /\ domains' = [domains EXCEPT ![hi].pods = kept, ![lo].pods = @ \o moved]
        /\ chosen' = chosen \cup ToSet(moved)

\* Those that fit on a node below the average go to the end and are taken
\* from there; with topologyBalanceNodeFit those that do not fit count as
\* moved but are not evicted.
Move(lo, hi, k) ==
    LET ordered == SelectSeq(domains[hi].pods, DoesNotFit) \o SelectSeq(domains[hi].pods, Fits)
        kept == SubSeq(ordered, 1, Len(ordered) - k)
        moved == SubSeq(ordered, Len(ordered) - k + 1, Len(ordered))
    IN  /\ domains' = [domains EXCEPT ![hi].pods = kept, ![lo].pods = @ \o moved]
        /\ chosen' = chosen \cup {p \in ToSet(moved) : args.topologyBalanceNodeFit => Fits(p)}

\* Seeded fault: domains within the skew do not move the index.
BalanceStepStuck ==
    /\ status = "balancing" /\ i < j
    /\ LET hi == IF Size(j) * Len(domains) <= current.sum THEN j - 1 ELSE j
       IN  /\ j' = hi
           /\ IF Size(hi) - Size(i) <= current.tsc.skew \/ movePods(i, hi) <= 0
              THEN UNCHANGED <<i, domains, chosen>>
              ELSE Move(i, hi, movePods(i, hi)) /\ UNCHANGED i
    /\ UNCHANGED <<setting, view, status, pods, todo, current, calls>>


\* One turn of the loop of balanceDomains.
BalanceStep ==
    /\ status = "balancing" /\ i < j
    /\ LET hi == IF Size(j) * Len(domains) <= current.sum THEN j - 1 ELSE j
       IN  /\ j' = hi
           /\ IF Size(hi) - Size(i) <= current.tsc.skew \/ movePods(i, hi) <= 0
              THEN i' = i + 1 /\ UNCHANGED <<domains, chosen>>
              ELSE Move(i, hi, movePods(i, hi)) /\ UNCHANGED i
    /\ UNCHANGED <<setting, view, status, pods, todo, current, calls>>

StartEvicting ==
    /\ status = "balancing" /\ i >= j /\ todo = {}
    /\ status' = "evicting"
    /\ UNCHANGED <<setting, view, pods, todo, current, domains, i, j, chosen, calls>>

\* The chosen pods are asked again, in any order; the limit of a node skips
\* the pods of the node, the total limit ends the run.
Evict ==
    /\ status = "evicting"
    /\ \E p \in chosen :
        /\ chosen' = chosen \ {p}
        /\ IF NodeFull(calls, p.node) \/ ~podFilter(p) \/ ~PreEvictionFilter(p)
           THEN UNCHANGED <<calls, status>>
           ELSE \E result \in Answers(setting.limits, calls, p) :
                    /\ calls' = Append(calls, [pod |-> p, result |-> result])
                    /\ status' = IF result = "total" THEN "done" ELSE status
    /\ UNCHANGED <<setting, view, pods, todo, current, domains, i, j>>

Finish ==
    /\ status = "evicting" /\ chosen = {}
    /\ status' = "done"
    /\ UNCHANGED <<setting, view, pods, todo, current, domains, i, j, chosen, calls>>

\* An evicted or terminating pod leaves the informer's store.
Gone ==
    /\ status \in {"balancing", "evicting"}
    /\ \E p \in view :
        /\ IsPodTerminating(p) \/ p \in Evicted(calls)
        /\ view' = view \ {p}
    /\ UNCHANGED <<setting, status, pods, todo, current, domains, i, j, chosen, calls>>

Next ==
    \/ Build \/ List \/ ListFails \/ NextConstraint \/ BalanceStep \/ StartEvicting
    \/ Evict \/ Finish \/ Gone

\* The loop runs on its own; it waits for nothing.
Spec == Init /\ [][Next]_vars /\ WF_vars(BalanceStep)

----------------------------------------------------------------------------
(* Properties.                                                             *)

\* balanceDomains comes to an end whatever the sizes of the domains: every turn
\* of the loop moves an index or pods, and the two indices meet.
LoopEnds == (i < j) ~> (i >= j)

\* When the indices have met, with the pods that moved counted where they
\* went, no two domains differ by more than maxSkew ("how many pods (minimum)
\* should be evicted from large domains to achieve an ideal balance within
\* maxSkew", balanceDomains).
EndsWithinSkew ==
    status = "balancing" /\ current # <<>> /\ i >= j =>
        \A k, l \in 1..Len(domains) : Size(k) - Size(l) <= current.tsc.skew


\* Domains give only down to the average and receive only up to it, both
\* rounded, and none does both: "we will only move as many pods from a domain
\* as possible without bringing it below the ideal average, and we will not
\* bring any smaller domain above the average".  Appending to a domain that
\* gave would also write over the pods taken from its slice.
NotPastAverage ==
    current # <<>> =>
        LET before == constraintTopologies(current)
        IN  \A k \in 1..Len(domains) :
            LET size == Cardinality(before[domains[k].value])
                own == {p \in ToSet(domains[k].pods) : InDomain(p, current.tsc.key, domains[k].value)}
            IN  /\ Size(k) < size => Size(k) >= current.sum \div Len(domains)
                /\ Size(k) > size => Size(k) <= Ceil(current.sum, Len(domains))
                /\ own # ToSet(domains[k].pods) => Cardinality(own) = size

\* A pod is evicted only for a constraint it counts for, which the pods
\* listed violate, from a domain above the average, and with
\* topologyBalanceNodeFit only if a node in a domain below the average could
\* take it, however many constraints and namespaces share the run.
EvictedFromCrowded ==
    \A k \in 1..Len(calls) :
        LET p == calls[k].pod
        IN  \E c \in Constraints(pods) :
                LET topologies == constraintTopologies(c)
                    sum == MapThenSumSet(LAMBDA v : Cardinality(topologies[v]), DOMAIN topologies)
                    average(v) == Cardinality(topologies[v]) * Cardinality(DOMAIN topologies) - sum
                IN  /\ ~topologyIsBalanced(topologies, c.tsc)
                    /\ \E v \in DOMAIN topologies : p \in topologies[v] /\ average(v) > 0
                    /\ args.topologyBalanceNodeFit =>
                        \E v \in DOMAIN topologies, n \in given :
                            /\ average(v) < 0 /\ <<c.tsc.key, v>> \in n.labels /\ n.name # p.node
                            /\ matchNodeInclusionPolicies(c.tsc, n) /\ ~n.unschedulable
                            /\ PodMatchNodeSelector(p, n)

\* Of the pods of a domain that could move, those with a lower priority go
\* first ("a LOWER priority value should be evicted FIRST",
\* comparePodsByPriority).
LowerPriorityFirst ==
    status = "balancing" /\ current # <<>> =>
        \A p \in chosen, q \in pods \ chosen, v \in ValuesOf(given, current.tsc.key) :
            /\ InDomain(p, current.tsc.key, v) /\ InDomain(q, current.tsc.key, v)
            /\ q \in constraintTopologies(current)[v] /\ Fits(p) /\ Fits(q)
            /\ hasSelectorOrAffinity(p) = hasSelectorOrAffinity(q)
            /\ Nil \notin {p.priority, q.priority}
            => p.priority <= q.priority
=============================================================================
