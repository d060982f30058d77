-------------------------- MODULE MCTopologySpread --------------------------
(***************************************************************************)
(* Balance runs on clusters with one node per zone: every combination of   *)
(* domain sizes up to SizeBound, which the loop of balanceDomains depends  *)
(* on, and small clusters in which the pods, the constraints and the nodes *)
(* differ in everything else the plugin reads.                             *)
(***************************************************************************)
EXTENDS TopologySpread, MCCluster

zone(z) == <<"zone", z>>
host(n) == <<"host", n>>
node(n, z) == [aNode EXCEPT !.name = n, !.labels = {zone(z), host(n)}, !.allocatable = [cpu |-> 20, pods |-> 20]]

app == <<"app", "a">>
other == <<"app", "b">>
spread(k, s) ==
    [when |-> "DoNotSchedule", skew |-> s, key |-> k, selector |-> {{app}}, matchLabelKeys |-> {},
     affinity |-> "", taints |-> ""]
pod(n, k, cs) ==
    [constraints |-> cs] @@ [aPod EXCEPT !.name = <<n, k>>, !.node = n, !.labels = {app}, !.priority = k]

defaults == [included |-> none, excluded |-> none, selector |-> none, constraints |-> none, topologyBalanceNodeFit |-> TRUE]
run(ns, ps) ==
    [args |-> defaults, evictor |-> evictorDefaults, cluster |-> [aCluster EXCEPT !.nodes = ns], pods |-> ps,
     given |-> ns, limits |-> noLimits]

----------------------------------------------------------------------------
SizeBound == 5
Zones == <<"z1", "z2", "z3", "z4">>
Ascending(k) == {s \in [1..k -> 0..SizeBound] : \A a, b \in 1..k : a < b => s[a] <= s[b]}

\* The budget is used up, so that these runs end with the choice of pods.
sizes ==
    {[run({node(Zones[a], Zones[a]) : a \in 1..Len(s)},
         UNION {{pod(Zones[a], k, <<spread("zone", skew)>>) : k \in 1..s[a]} : a \in 1..Len(s)})
        EXCEPT !.limits.total = 0] :
        s \in Ascending(2) \cup Ascending(3) \cup Ascending(4), skew \in 1..2}

----------------------------------------------------------------------------
n1 == node("n1", "z1")
n2 == node("n2", "z1")
n3 == node("n3", "z2")
n4 == node("n4", "z3")
gpu == [key |-> "gpu", value |-> "", effect |-> "NoSchedule"]
nodeSets ==
    {{n1, n2, n3}, {n1, n3, n4}, {n1, n3, [n4 EXCEPT !.unschedulable = TRUE]}, {n1, n2, n3, [n4 EXCEPT !.taints = <<gpu>>]},
     {n1, n3, [n4 EXCEPT !.labels = {host("n4")}]}}

plain(k) == pod("n1", k, <<spread("zone", 1)>>)
hosts(k) == pod("n1", k, <<spread("host", 1), spread("zone", 1)>>)
pinned(p) == [p EXCEPT !.nodeSelector = {host("n1")}]
wants(p) == [p EXCEPT !.required = <<{zone("z1")}, {zone("z2")}>>]
strict(p) == [p EXCEPT !.constraints = <<[spread("zone", 1) EXCEPT !.taints = "Honor", !.affinity = "Ignore"]>>]
revision(p, r) == [p EXCEPT !.labels = {app, <<"rev", r>>}, !.constraints = <<[spread("zone", 1) EXCEPT !.matchLabelKeys = {"rev"}]>>]
soft(p) == [p EXCEPT !.constraints = <<[spread("zone", 1) EXCEPT !.when = "ScheduleAnyway"]>>]
nil(p) == [p EXCEPT !.constraints = <<[spread("zone", 1) EXCEPT !.selector = {}]>>]
tied(p) == [p EXCEPT !.priority = Nil]

podSets ==
    {{plain(1), plain(2), plain(3), [plain(4) EXCEPT !.terminating = TRUE]},
     {pinned(plain(1)), pinned(plain(2)), plain(3), plain(4)},
     {wants(plain(1)), wants(plain(2)), plain(3), wants(plain(4))},
     {hosts(1), hosts(2), hosts(3), [hosts(4) EXCEPT !.node = "n2"]},
     {strict(plain(1)), strict(plain(2)), strict(plain(3)), strict(plain(4))},
     {revision(plain(1), 1), revision(plain(2), 1), revision(plain(3), 1), revision(plain(4), 2)},
     {soft(plain(1)), soft(plain(2)), soft(plain(3)), nil(plain(4))},
     {tied(plain(1)), tied(plain(2)), tied(plain(3)), [plain(4) EXCEPT !.node = "n3"]},
     {[plain(1) EXCEPT !.ns = "ns2"], [plain(2) EXCEPT !.ns = "ns2"], plain(3), plain(4), [plain(5) EXCEPT !.labels = {other}]},
     {[plain(1) EXCEPT !.owners = {}], plain(2), plain(3), plain(4)}}

shapes ==
    {[run(ns, ps) EXCEPT !.limits = l, !.args.topologyBalanceNodeFit = fit] :
        ns \in nodeSets, ps \in podSets, fit \in BOOLEAN,
        l \in {noLimits, [noLimits EXCEPT !.total = 1], [noLimits EXCEPT !.node = 1], [noLimits EXCEPT !.namespace = 1]}}

options ==
    {[run(ns, ps) EXCEPT !.args = a, !.evictor.minReplicas = 3, !.evictor.nodeFit = TRUE] :
        ns \in nodeSets, ps \in podSets,
        a \in {[defaults EXCEPT !.constraints = {"ScheduleAnyway"}], [defaults EXCEPT !.constraints = {"Sometimes"}],
               [defaults EXCEPT !.included = {"ns1"}], [defaults EXCEPT !.included = {"ns1"}, !.excluded = {"ns2"}]}}

MCSettings == {sizes, shapes, options}
=============================================================================
