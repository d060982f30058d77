--------------------------- MODULE NodeUtilization ---------------------------
(***************************************************************************)
(* One Balance run of LowNodeUtilization or HighNodeUtilization            *)
(* (pkg/framework/plugins/nodeutilization): the usage of the nodes is      *)
(* read once, the nodes are classified, and pods are evicted from the      *)
(* source nodes while the plugin keeps account of what is left in use on   *)
(* the source and of what is still available on the destinations.          *)
(*                                                                         *)
(* A setting is a record [plugin, args, evictor, cluster, pods, given,     *)
(* limits, prompt, rounding, policy, collected, samples, podUsages]:       *)
(* given is the set of ready nodes, collected and samples are what the     *)
(* metrics collector and Prometheus have by node name, samples in          *)
(* thousandths, podUsages what the metrics server may say of a pod.        *)
(***************************************************************************)
EXTENDS NodeUsage, Policy

CONSTANT Settings   \* what a run can start from, in families

VARIABLES
    setting,
    view,        \* the pods in the informer's store
    status,      \* "new", "balance", "evicting" or one of Ends
    allPods,     \* the pods when the usage was read
    start,       \* the usage read: node -> resource -> quantity
    usage,       \* the usage the plugin keeps account of
    available,   \* what is left on the destinations, by resource
    sources,     \* the source nodes not visited yet
    queue,       \* the removable pods of the current node not considered yet
    counter,     \* evictionCounter
    calls        \* the requests made

vars == <<setting, view, status, allPods, start, usage, available, sources, queue, counter, calls>>

Ends == {"rejected", "failed", "idle", "done"}

plugin == setting.plugin
args == setting.args
rounding == setting.rounding

Names == extendedResourceNames(plugin, args)
client == usageClientForMetrics(plugin, args, HandleOf(setting.policy))

Filter(p) == EvictorFilter(setting.evictor, setting.cluster, view, p)
PreEvictionFilter(p) == EvictorPreEvictionFilter(setting.evictor, setting.cluster, view, p)

\* HighNodeUtilization can be told to leave pods alone that request none of
\* the resources with a threshold.
withResourceRequestForAny(p, names) == names \cap DOMAIN p.requests # {}

podFilter(p) ==
    /\ Filter(p)
    /\ plugin = High /\ "OnlyThresholdingResources" \in args.modes
        => withResourceRequestForAny(p, DOMAIN args.thresholds)

----------------------------------------------------------------------------
(* The usage clients.                                                      *)

\* A sample is a number between zero and one, turned into a percentage.
NodeUsageFromPrometheusMetrics(sample) ==
    IF rounding.down /\ sample % 10 = 0 /\ 0 < sample /\ sample < 1000
    THEN (sample \div 10) - 1 ELSE sample \div 10

\* Whether sync can read the usage of all nodes.
SyncPossible ==
    CASE client = "requested" -> TRUE
      [] client = "actual" ->
            /\ {n.name : n \in setting.given} \subseteq DOMAIN setting.collected
            /\ Names \subseteq Basic
      [] client = "prometheus" ->
            /\ "" \notin DOMAIN setting.samples
            /\ \A i \in DOMAIN setting.samples : setting.samples[i] \in 0..1000
            /\ {n.name : n \in setting.given} \subseteq DOMAIN setting.samples
      [] OTHER -> FALSE

nodeUtilization(n) ==
    LET pods == ListPodsOnANode(view, n)
    IN  [r \in Names |->
            CASE client = "requested" \/ r = Pods -> NodeUtilization(pods, r)
              [] client = "actual" -> setting.collected[n.name][r]
              [] OTHER -> NodeUsageFromPrometheusMetrics(setting.samples[n.name])]

\* What podUsage can answer for a pod; "unsupported" with Prometheus, and the
\* metrics server may fail.
requestedUsage(p) == [r \in Names |-> Of(p.requests, r)]

podUsage(p) ==
    CASE client = "requested" -> {requestedUsage(p)}
      [] client = "actual" -> setting.podUsages
      [] OTHER -> {}

----------------------------------------------------------------------------
(* The groups of nodes, as the usage read at the start puts them.          *)

highThresholds == [r \in DOMAIN args.thresholds |-> MaxResourcePercentage]

Assessed(used) ==
    CASE plugin = High ->
            assessNodesUsagesAndStaticThresholds(used, args.thresholds, highThresholds)
      [] args.deviation ->
            assessNodesUsagesAndRelativeThresholds(used, DOMAIN args.thresholds, args.thresholds, args.targets)
      [] OTHER ->
            assessNodesUsagesAndStaticThresholds(used, args.thresholds, args.targets)

Groups(used) == Classify(plugin, Assessed(used), rounding)
SourceNodes(used) == Groups(used)[IF plugin = Low THEN 2 ELSE 1]
DestinationNodes(used) == Groups(used)[IF plugin = Low THEN 1 ELSE 2]

Capped(used) ==
    [n \in DOMAIN used |-> capNodeCapacitiesToThreshold(n, Assessed(used).high, Names, rounding)]

NothingToDo(used) ==
    LET under == Groups(used)[1]
    IN  \/ under = {} \/ Cardinality(under) <= args.numberOfNodes
        \/ under = setting.given \/ Groups(used)[2] = {}

TotalUsage(used, n) == MapThenSumSet(LAMBDA r : used[n][r], Names)

isNodeAboveTargetUtilization(used, capped) == \E r \in Names : capped[r] < used[r]

\* Seeded fault: only one resource has to be left on the destinations.
continueEvictionAny(n, used, left) ==
    /\ plugin = Low => isNodeAboveTargetUtilization(used[n], Capped(start)[n])
    /\ \E r \in Names : left[r] > 0

continueEviction(n, used, left) ==
    /\ plugin = Low => isNodeAboveTargetUtilization(used[n], Capped(start)[n])
    /\ \A r \in Names : left[r] > 0

----------------------------------------------------------------------------
(* The run.                                                                *)

Init ==
    /\ \E family \in Settings : setting \in family
    /\ view = setting.pods
    /\ status = "new"
    /\ allPods = {} /\ start = <<>> /\ usage = <<>> /\ available = <<>>
    /\ sources = <<>> /\ queue = <<>> /\ counter = 0 /\ calls = <<>>

\* Validation, NewLowNodeUtilization and NewHighNodeUtilization.
Build ==
    /\ status = "new"
    /\ status' = IF /\ ProvidersValid(setting.policy)
                    /\ IF plugin = High THEN ValidateHighNodeUtilizationArgs(args)
                       ELSE /\ ValidateLowNodeUtilizationArgs(args)
                            /\ UsesPrometheus(args) => validatePrometheusMetricsUtilization(args)
                 THEN "balance" ELSE "rejected"
    /\ UNCHANGED <<setting, view, allPods, start, usage, available, sources, queue, counter, calls>>

\* The client cannot be had, or cannot list the pods or read the usage.
SyncFails ==
    /\ status = "balance"
    /\ status' = "failed"
    /\ UNCHANGED <<setting, view, allPods, start, usage, available, sources, queue, counter, calls>>

Balance ==
    /\ status = "balance" /\ SyncPossible
    /\ LET used == [n \in setting.given |-> nodeUtilization(n)]
           more(m, n) == IF plugin = Low THEN TotalUsage(used, m) > TotalUsage(used, n)
                         ELSE TotalUsage(used, m) < TotalUsage(used, n)
       IN  /\ start' = used /\ usage' = used
           /\ allPods' = ListPodsOnNodes(view, setting.given)
           /\ IF NothingToDo(used)
              THEN status' = "idle" /\ UNCHANGED <<sources, available>>
              ELSE /\ status' = "evicting"
                   /\ available' = assessAvailableResourceInNodes(DestinationNodes(used), Capped(used), used, Names)
                   /\ sources' \in SortedBy(SourceNodes(used), more)
    /\ UNCHANGED <<setting, view, queue, counter, calls>>

\* evictPodsFromSourceNodes and the start of evictPods: a node is passed over
\* when nothing on it can be removed or nothing has to be.
VisitNode ==
    /\ status = "evicting" /\ queue = <<>> /\ sources # <<>>
    /\ LET n == Head(sources)
           removable == {p \in allPods : p.node = n.name /\ podFilter(p)}
       IN  queue' \in IF continueEviction(n, usage, available)
                      THEN SortedBy(removable, PriorityLowToHigh) ELSE {<<>>}
    /\ sources' = Tail(sources)
    /\ counter' = 0
    /\ UNCHANGED <<setting, view, status, allPods, start, usage, available, calls>>

NodeOf(p) == CHOOSE n \in setting.given : n.name = p.node
LimitReached == plugin = Low /\ args.nodeLimit # Nil /\ counter >= args.nodeLimit


Movable(p) ==
    /\ PodToleratesTaints(p, DestinationNodes(start))
    /\ PreEvictionFilter(p)
    /\ p.ns \notin args.excluded

StopAtLimit ==
    /\ queue # <<>> /\ LimitReached
    /\ queue' = <<>>
    /\ UNCHANGED <<setting, view, status, allPods, start, usage, available, sources, counter, calls>>

\* The pod cannot go, or the metrics server does not know its usage.
Pass ==
    /\ queue # <<>> /\ ~LimitReached
    /\ ~Movable(Head(queue)) \/ client = "actual"
    /\ queue' = Tail(queue)
    /\ UNCHANGED <<setting, view, status, allPods, start, usage, available, sources, counter, calls>>

\* Seeded fault: what was evicted is taken off the destinations only.
subtractPodUsageFromNodeAvailabilityOnce(n, used) ==
    /\ available' = [r \in Names |-> available[r] - (IF r = Pods THEN 1 ELSE used[r])]
    /\ UNCHANGED usage

subtractPodUsageFromNodeAvailability(n, used) ==
    /\ available' = [r \in Names |-> available[r] - (IF r = Pods THEN 1 ELSE used[r])]
    /\ usage' = [usage EXCEPT ![n] = [r \in Names |-> @[r] - (IF r = Pods THEN 1 ELSE used[r])]]

\* With a known usage the account decides whether to go on; without, one pod
\* per node, or as many as the plugin's limit says.
Accepted(p) ==
    LET n == NodeOf(p)
    IN  IF client = "prometheus"
        THEN /\ IF plugin = Low /\ args.nodeLimit # Nil
                THEN queue' = Tail(queue) /\ counter' = counter + 1
                ELSE queue' = <<>> /\ UNCHANGED counter
             /\ UNCHANGED <<usage, available>>
        ELSE /\ counter' = counter + 1
             /\ \E used \in podUsage(p) : subtractPodUsageFromNodeAvailability(n, used)
             /\ queue' = IF continueEviction(n, usage', available') THEN Tail(queue) ELSE <<>>

\* Seeded fault: the limit of a node ends the run.
RefusedForGood(result) ==
    /\ queue' = IF result \in {"node", "total"} THEN <<>> ELSE Tail(queue)
    /\ sources' = IF result \in {"node", "total"} THEN <<>> ELSE sources
    /\ UNCHANGED <<usage, available, counter>>

\* A limit of the node ends the node, the total limit the run; after any
\* other error it is the next pod's turn, with the account as it was.
Refused(result) ==
    /\ queue' = IF result \in {"node", "total"} THEN <<>> ELSE Tail(queue)
    /\ sources' = IF result = "total" THEN <<>> ELSE sources
    /\ UNCHANGED <<usage, available, counter>>

Evict ==
    /\ queue # <<>> /\ ~LimitReached /\ Movable(Head(queue))
    /\ LET p == Head(queue)
       IN  \E result \in Answers(setting.limits, calls, p) :
            /\ calls' = Append(calls, [pod |-> p, result |-> result])
            /\ IF result = "ok"
               THEN /\ Accepted(p)
                    /\ view' = IF setting.prompt THEN view \ {p} ELSE view
                    /\ UNCHANGED sources
               ELSE Refused(result) /\ UNCHANGED view
    /\ UNCHANGED <<setting, status, allPods, start>>

Finish ==
    /\ status = "evicting" /\ queue = <<>> /\ sources = <<>>
    /\ status' = "done"
    /\ UNCHANGED <<setting, view, allPods, start, usage, available, sources, queue, counter, calls>>

\* An evicted pod leaves the informer's store.
Gone ==
    /\ status = "evicting"
    /\ \E p \in view \cap Evicted(calls) : view' = view \ {p}
    /\ UNCHANGED <<setting, status, allPods, start, usage, available, sources, queue, counter, calls>>

Next ==
    \/ Build \/ SyncFails \/ Balance \/ VisitNode \/ StopAtLimit \/ Pass \/ Evict \/ Finish \/ Gone

Spec == Init /\ [][Next]_vars

----------------------------------------------------------------------------
(* Properties.  They compare what was evicted with the pods themselves,    *)
(* not with the plugin's account.                                          *)

Accepts == {i \in 1..Len(calls) : calls[i].result = "ok"}
EvictedBefore(i) == {calls[j].pod : j \in {k \in Accepts : k < i}}
Requests(pods, r) == NodeUtilization(pods, r)
OnNode(n) == {p \in allPods : p.node = n.name}

\* LowNodeUtilization takes a pod only from a node whose remaining pods,
\* without those evicted before and with those the evictor refused, are still
\* above the target in some resource: no node is emptied further than one pod
\* below its target (continueEvictionCond, "we stop as soon as the node usage
\* drops below the threshold").
StopsAtTarget ==
    plugin = Low /\ client = "requested" =>
        \A i \in Accepts :
            LET n == NodeOf(calls[i].pod)
            IN  \E r \in Names :
                    Requests(OnNode(n) \ EvictedBefore(i), r) > Capped(start)[n][r]

\* Both plugins evict only while the pods evicted before leave something of
\* every resource on the destinations, so what has to move never exceeds what
\* was free there by more than one pod (assessAvailableResourceInNodes,
\* subtractPodUsageFromNodeAvailability).
RoomAtDestinations ==
    client = "requested" =>
        \A i \in Accepts, r \in Names :
            Requests(EvictedBefore(i), r)
                < MapThenSumSet(LAMBDA n : Capped(start)[n][r] - Requests(OnNode(n), r), DestinationNodes(start))

\* A run that is over has a reason for every pod it left on a source node:
\* the total limit, the limit of the node or of the plugin, the node at its
\* target, the destinations full, or the pod was asked for or cannot go.
StopsForAReason ==
    status = "done" /\ ~OutOfBudget(calls) /\ client = "requested"
    /\ setting.evictor.minReplicas <= 1 /\ ~setting.evictor.nodeFit
    => \A n \in SourceNodes(start) :
        \/ NodeFull(calls, n.name)
        \/ plugin = Low /\ args.nodeLimit # Nil
           /\ Cardinality(OnNode(n) \cap Evicted(calls)) >= args.nodeLimit
        \/ plugin = Low /\ \A r \in Names : Requests(OnNode(n) \ Evicted(calls), r) <= Capped(start)[n][r]
        \/ \E r \in Names : Requests(Evicted(calls), r)
                >= MapThenSumSet(LAMBDA d : Capped(start)[d][r] - Requests(OnNode(d), r), DestinationNodes(start))
        \/ \A p \in OnNode(n) :
            Requested(calls, p) \/ ~Movable(p) \/ ~EvictorFilter(setting.evictor, setting.cluster, allPods, p)
                                \/ ~podFilter(p)


\* With thresholds relative to the average, pods move only from nodes above
\* the average in some resource to nodes that are above it in none
\* (UseDeviationThresholds).
AroundAverage ==
    plugin = Low /\ args.deviation /\ start # <<>> =>
        LET usages == Assessed(start).usage
            average == Average(usages)
            above(n) == \E r \in DOMAIN args.thresholds : usages[n][r] > average[r]
        IN  \A i \in Accepts :
                /\ above(NodeOf(calls[i].pod)) \/ rounding.up
                /\ \A d \in DestinationNodes(start) : ~above(d)
============================================================================
