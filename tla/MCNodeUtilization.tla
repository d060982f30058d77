-------------------------- MODULE MCNodeUtilization --------------------------
(***************************************************************************)
(* Balance runs on three nodes of ten units of everything, so percentages  *)
(* are multiples of ten and, with Scale = 6, the averages of two or three  *)
(* nodes are exact.  Thresholds are met exactly, exceeded and not reached. *)
(***************************************************************************)
EXTENDS NodeUtilization, MCCluster

capacity == [cpu |-> 10, memory |-> 10, pods |-> 10]
node(k) == [aNode EXCEPT !.name = k, !.allocatable = capacity]
cordoned(n) == [n EXCEPT !.unschedulable = TRUE]
gpu == [key |-> "gpu", value |-> "", effect |-> "NoSchedule"]
tainted(n) == [n EXCEPT !.taints = <<gpu>>]
clusters ==
    {{node("n1"), node("n2"), node("n3")}, {node("n1"), cordoned(node("n2")), node("n3")},
     {node("n1"), node("n2"), tainted(node("n3"))}, {node("n1"), cordoned(node("n2")), tainted(node("n3"))}}

pod(n, k, cpu) == [aPod EXCEPT !.name = k, !.node = n, !.requests = [cpu |-> cpu]]
bare(p) == [p EXCEPT !.owners = {}]
ranked(p, priority) == [p EXCEPT !.priority = priority]
tolerant(p) == [p EXCEPT !.tolerations = <<[key |-> "gpu", op |-> "Exists", value |-> "", effect |-> ""]>>]
other(p) == [p EXCEPT !.ns = "ns2"]

placements ==
    {\* 80, 10 and 0 percent
     {ranked(pod("n1", "a", 2), 3), ranked(pod("n1", "b", 3), 1), tolerant(ranked(pod("n1", "c", 2), 2)),
      other(ranked(pod("n1", "d", 1), 1)), pod("n2", "e", 1)},
     \* 70, 60 and 20 percent, a pod of n2 cannot be evicted
     {pod("n1", "a", 5), tolerant(pod("n1", "b", 2)), bare(pod("n2", "c", 4)), pod("n2", "d", 2), pod("n3", "e", 2)},
     \* 70, 60 and 0 percent
     {pod("n1", "a", 3), pod("n1", "b", 2), tolerant(pod("n1", "c", 2)), bare(pod("n2", "d", 4)), pod("n2", "e", 2)},
     \* 100, 20 and 0 percent, the memory of n1 is requested too
     {[pod("n1", "a", 6) EXCEPT !.requests = [cpu |-> 6, memory |-> 9]], tolerant(pod("n1", "b", 4)), pod("n2", "c", 1), pod("n2", "d", 1)}}

percent(x) == x * Scale
noMetrics == [set |-> FALSE, metricsServer |-> FALSE, source |-> "", query |-> "none"]
lowArgs ==
    [thresholds |-> [cpu |-> percent(20)], targets |-> [cpu |-> percent(50)], deviation |-> FALSE, numberOfNodes |-> 0,
     included |-> none, excluded |-> none, modes |-> none, nodeLimit |-> Nil, metrics |-> noMetrics]
byPods(x, y) ==
    [lowArgs EXCEPT !.thresholds = [cpu |-> percent(20), pods |-> percent(x)], !.targets = [cpu |-> percent(60), pods |-> percent(y)]]

base ==
    [plugin |-> Low, args |-> lowArgs, evictor |-> evictorDefaults, cluster |-> aCluster, pods |-> none, given |-> none,
     limits |-> noLimits, prompt |-> TRUE, rounding |-> [up |-> FALSE, down |-> FALSE],
     policy |-> [collector |-> FALSE, providers |-> <<>>],
     collected |-> [n \in {"n1", "n2", "n3"} |-> [cpu |-> 1, memory |-> 1]],
     samples |-> [n \in {"n1", "n2", "n3"} |-> 100], podUsages |-> none]

Limits == {noLimits, [noLimits EXCEPT !.total = 2], [noLimits EXCEPT !.node = 1], [noLimits EXCEPT !.namespace = 1]}
Roundings == [up : BOOLEAN, down : BOOLEAN]

runs(plug, argSet, nodeSets, podSets, limits) ==
    {[base EXCEPT !.plugin = plug, !.args = a, !.given = ns, !.cluster.nodes = ns, !.pods = ps, !.limits = l,
                  !.rounding = r] :
        a \in argSet, ns \in nodeSets, ps \in podSets, l \in limits, r \in Roundings}

low == runs(Low,
    {lowArgs, [lowArgs EXCEPT !.numberOfNodes = 1], [lowArgs EXCEPT !.excluded = {"ns2"}], [lowArgs EXCEPT !.nodeLimit = 1],
     byPods(20, 30), byPods(10, 90), [lowArgs EXCEPT !.targets = [cpu |-> percent(30)]], [lowArgs EXCEPT !.thresholds = [cpu |-> percent(60)]], [lowArgs EXCEPT !.included = {"ns1"}]},
    clusters, placements, Limits)

relative == runs(Low,
    {[lowArgs EXCEPT !.deviation = TRUE, !.thresholds = [cpu |-> percent(x)], !.targets = [cpu |-> percent(y)]] :
        x \in {0, 10, 50}, y \in {10, 30}}, clusters, placements, {noLimits})

high == runs(High,
    {[lowArgs EXCEPT !.thresholds = [cpu |-> percent(x)], !.modes = m, !.numberOfNodes = k] :
        x \in {20, 60, 101}, m \in {{}, {"OnlyThresholdingResources"}, {"Often"}}, k \in {0, 1}}
    \cup {[lowArgs EXCEPT !.thresholds = [memory |-> percent(20)], !.modes = {"OnlyThresholdingResources"}]},
    clusters, placements, Limits)

\* The store follows with a delay, and the evictor looks at it.
slow == {[s EXCEPT !.prompt = FALSE, !.evictor.nodeFit = b, !.evictor.minReplicas = 2] :
            s \in runs(Low, {lowArgs}, clusters, placements, {noLimits}), b \in BOOLEAN}

----------------------------------------------------------------------------
usageArgs(server, source, query) ==
    [lowArgs EXCEPT !.metrics = [set |-> TRUE, metricsServer |-> server, source |-> source, query |-> query]]
byMetric(a) == [a EXCEPT !.thresholds = [MetricResource |-> percent(20)], !.targets = [MetricResource |-> percent(50)]]
limited(a) == [a EXCEPT !.nodeLimit = 2]

provider(source, token) == [source |-> source, prometheus |-> source = "Prometheus", url |-> "prom", authToken |-> token]
kubernetes == provider("KubernetesMetrics", "none")
prometheus == provider("Prometheus", "secret")
policies ==
    {[collector |-> FALSE, providers |-> <<>>], [collector |-> FALSE, providers |-> <<kubernetes, prometheus>>],
     [collector |-> TRUE, providers |-> <<provider("Prometheus", "none")>>]}
mistakes ==
    {[collector |-> TRUE, providers |-> <<kubernetes, prometheus>>], [collector |-> FALSE, providers |-> <<prometheus, prometheus>>],
     [collector |-> FALSE, providers |-> <<[prometheus EXCEPT !.prometheus = FALSE, !.url = ""]>>],
     [collector |-> FALSE, providers |-> <<[prometheus EXCEPT !.url = ""]>>],
     [collector |-> TRUE, providers |-> <<provider("Prometheus", "incomplete")>>]}

misconfigured == {[s EXCEPT !.policy = m] : s \in runs(Low, {lowArgs}, clusters, placements, {noLimits}), m \in mistakes}

measured ==
    {[s EXCEPT !.policy = h,
               !.collected = [n1 |-> [cpu |-> 9, memory |-> 2], n2 |-> [cpu |-> 2, memory |-> 0]] @@ c,
               !.podUsages = {[cpu |-> 1, memory |-> 1], [cpu |-> 3, memory |-> 0]},
               !.samples = [n1 |-> 805, n2 |-> 200] @@ p] :
        s \in runs(Low, {usageArgs(TRUE, "", "none"), usageArgs(FALSE, "KubernetesMetrics", "none"), usageArgs(TRUE, "KubernetesMetrics", "none"),
                         usageArgs(FALSE, "Other", "none"), limited(usageArgs(TRUE, "", "none")), usageArgs(FALSE, "Prometheus", "load"),
                         byMetric(usageArgs(FALSE, "Prometheus", "load")), limited(byMetric(usageArgs(FALSE, "Prometheus", "load"))),
                         byMetric(usageArgs(FALSE, "Prometheus", ""))},
                   {{node("n1"), node("n2"), node("n3")}}, placements, {noLimits}),
        h \in policies, c \in {<<>>, [n3 |-> [cpu |-> 5, memory |-> 5]]}, p \in {[n3 |-> 0], [n3 |-> 2000]}}

MCSettings == {low, relative, high, slow, measured, misconfigured}
============================================================================
