------------------------------ MODULE NodeUsage ------------------------------
(***************************************************************************)
(* How LowNodeUtilization and HighNodeUtilization judge nodes: the         *)
(* arguments, usage as percentages, thresholds that are fixed or relative  *)
(* to the average, and the classification (package nodeutilization with    *)
(* normalizer and classifier), as operators.                               *)
(*                                                                         *)
(* A percentage is an integer, Scale of them make one percent, so that     *)
(* the quotients of an instance are exact.  The code uses floating point   *)
(* numbers, which may miss an exact result by a last digit:                *)
(* rounding.up says that a percentage comes out just above its exact       *)
(* value, rounding.down that a truncation to an integer loses one unit.    *)
(* CPU is in thousandths, as the code compares it.                         *)
(***************************************************************************)
EXTENDS EvictorHandle

CONSTANT Scale   \* units of one percent

ASSUME ScaleAssumption == Scale \in Nat \ {0}

Low == "LowNodeUtilization"
High == "HighNodeUtilization"

MetricResource == "MetricResource"
Basic == {"cpu", "memory", Pods}
MaxResourcePercentage == 100 * Scale

----------------------------------------------------------------------------
(* The arguments: [thresholds, targets, deviation, numberOfNodes,          *)
(* included, excluded, modes, nodeLimit, metrics], thresholds and targets  *)
(* functions from resources to percentages, metrics a record [set,         *)
(* metricsServer, source, query], query "none" without a Prometheus part.  *)

validateThresholds(t) ==
    DOMAIN t # {} /\ \A r \in DOMAIN t : 0 <= t[r] /\ t[r] <= MaxResourcePercentage

validateEvictionModes(modes) == modes \subseteq {"OnlyThresholdingResources"}

ValidateHighNodeUtilizationArgs(args) ==
    /\ args.included = {}
    /\ validateThresholds(args.thresholds)
    /\ validateEvictionModes(args.modes)

validateLowNodeUtilizationThresholds(args) ==
    /\ validateThresholds(args.thresholds) /\ validateThresholds(args.targets)
    /\ DOMAIN args.thresholds = DOMAIN args.targets
    /\ \A r \in DOMAIN args.thresholds :
        args.thresholds[r] > args.targets[r] => args.deviation

ValidateLowNodeUtilizationArgs(args) ==
    /\ args.included = {}
    /\ validateLowNodeUtilizationThresholds(args)
    /\ args.metrics.set =>
        /\ args.metrics.source = "KubernetesMetrics" =>
                ~args.metrics.metricsServer /\ args.metrics.query = "none"
        /\ args.metrics.source = "Prometheus" => args.metrics.query \notin {"none", ""}

UsesPrometheus(args) == args.metrics.set /\ args.metrics.source = "Prometheus"

\* NewLowNodeUtilization looks at the Prometheus part once more.
validatePrometheusMetricsUtilization(args) ==
    /\ args.metrics.query \notin {"none", ""}
    /\ DOMAIN args.thresholds = {MetricResource} /\ DOMAIN args.targets = {MetricResource}

\* The resources the plugin keeps account of.
extendedResourceNames(plugin, args) ==
    IF plugin = Low /\ UsesPrometheus(args) THEN DOMAIN args.thresholds
    ELSE DOMAIN args.thresholds \cup Basic

\* Which usage client a run works with, "none" if it cannot have one; handle
\* says whether the process has a metrics collector and a Prometheus client.
usageClientForMetrics(plugin, args, handle) ==
    CASE plugin = High \/ ~args.metrics.set -> "requested"
      [] args.metrics.metricsServer \/ args.metrics.source = "KubernetesMetrics" ->
            IF handle.collector THEN "actual" ELSE "none"
      [] args.metrics.source = "Prometheus" -> IF handle.prometheus THEN "prometheus" ELSE "none"
      [] OTHER -> "none"

----------------------------------------------------------------------------
(* Percentages and thresholds.                                             *)

referencedResourceListForNodeCapacity(n) ==
    [r \in DOMAIN n.allocatable \cup {MetricResource} |->
        IF r = MetricResource THEN 100 ELSE n.allocatable[r]]

ResourceUsageToResourceThreshold(usage, capacity) ==
    [r \in DOMAIN usage \cap DOMAIN capacity |->
        IF capacity[r] > 0 THEN (usage[r] * MaxResourcePercentage) \div capacity[r] ELSE 0]

filterResourceNames(usage, names) == [r \in DOMAIN usage \cap names |-> usage[r]]

\* usages is a function from nodes; a node without a resource does not count.
Average(usages) ==
    LET having(r) == {n \in DOMAIN usages : r \in DOMAIN usages[n]}
    IN  [r \in UNION {DOMAIN usages[n] : n \in DOMAIN usages} |->
            MapThenSumSet(LAMBDA n : usages[n][r], having(r)) \div Cardinality(having(r))]

Clamp(x) == Max({0, Min({x, MaxResourcePercentage})})

\* What both plugins compare with: [usage, low, high], from the usage of the
\* nodes.
assessNodesUsagesAndStaticThresholds(used, low, high) ==
    [usage |-> [n \in DOMAIN used |-> ResourceUsageToResourceThreshold(used[n], referencedResourceListForNodeCapacity(n))],
     low |-> low, high |-> high]

\* Seeded fault: the deviation is added to the average on both sides.
assessNodesUsagesAndRelativeThresholdsOneSided(used, names, low, high) ==
    LET usage == [n \in DOMAIN used |->
                    ResourceUsageToResourceThreshold(filterResourceNames(used[n], names),
                                                     referencedResourceListForNodeCapacity(n))]
        average == Average(usage)
    IN  [usage |-> usage,
         low |-> [r \in DOMAIN average |-> Clamp(average[r] + Of(low, r))],
         high |-> [r \in DOMAIN average |-> Clamp(average[r] + Of(high, r))]]

assessNodesUsagesAndRelativeThresholds(used, names, low, high) ==
    LET usage == [n \in DOMAIN used |->
                    ResourceUsageToResourceThreshold(filterResourceNames(used[n], names),
                                                     referencedResourceListForNodeCapacity(n))]
        average == Average(usage)
    IN  [usage |-> usage,
         low |-> [r \in DOMAIN average |-> Clamp(average[r] - Of(low, r))],
         high |-> [r \in DOMAIN average |-> Clamp(average[r] + Of(high, r))]]

Exceeds(used, threshold, rounding) ==
    \/ threshold < used
    \/ rounding.up /\ threshold = used /\ 0 < used /\ used < MaxResourcePercentage

isNodeAboveThreshold(usage, threshold, rounding) ==
    \E r \in DOMAIN threshold : Exceeds(Of(usage, r), threshold[r], rounding)
isNodeBelowThreshold(usage, threshold, rounding) ==
    \A r \in DOMAIN threshold : ~Exceeds(Of(usage, r), threshold[r], rounding)

\* The first class whose condition a node meets is its class; the second is
\* the overutilized nodes or, for HighNodeUtilization, the schedulable ones.
Classify(plugin, assessed, rounding) ==
    LET given == DOMAIN assessed.usage
        under == {n \in given :
                    /\ isNodeBelowThreshold(assessed.usage[n], assessed.low, rounding)
                    /\ plugin = Low => ~IsNodeUnschedulable(n)}
        second == {n \in given \ under :
                    IF plugin = Low THEN isNodeAboveThreshold(assessed.usage[n], assessed.high, rounding)
                    ELSE ~IsNodeUnschedulable(n)}
    IN  <<under, second>>

----------------------------------------------------------------------------
(* Capacity.                                                               *)

fraction(threshold, capacity, rounding) ==
    LET product == threshold * capacity
        exact == product \div MaxResourcePercentage
    IN  IF /\ rounding.down /\ product % MaxResourcePercentage = 0
           /\ 0 < exact /\ threshold < MaxResourcePercentage
        THEN exact - 1 ELSE exact

\* A resource without a threshold keeps its capacity, one the node does not
\* have counts as zero.
capNodeCapacityToThreshold(n, thresholds, r, rounding) ==
    LET capacities == referencedResourceListForNodeCapacity(n)
    IN  IF r \notin DOMAIN capacities THEN 0
        ELSE IF r \notin DOMAIN thresholds THEN capacities[r]
        ELSE fraction(thresholds[r], capacities[r], rounding)

capNodeCapacitiesToThreshold(n, thresholds, names, rounding) ==
    [r \in names |-> capNodeCapacityToThreshold(n, thresholds, r, rounding)]

assessAvailableResourceInNodes(nodes, capped, used, names) ==
    [r \in names |-> MapThenSumSet(LAMBDA n : capped[n][r] - used[n][r], nodes)]
============================================================================
