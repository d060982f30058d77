------------------------- MODULE MCRemoveDuplicates -------------------------
(***************************************************************************)
(* RemoveDuplicates on three nodes, one of which may be tainted: three or  *)
(* four pods of an owner in every placement, and small sets of pods that   *)
(* differ in owners, images, namespaces and where they may run.            *)
(***************************************************************************)
EXTENDS RemoveDuplicates, MCCluster

gpu == [key |-> "gpu", value |-> "", effect |-> "NoSchedule"]
tolerates == [key |-> "gpu", op |-> "Exists", value |-> "", effect |-> ""]
any == [key |-> "", op |-> "Exists", value |-> "", effect |-> ""]
zone(z) == <<"zone", z>>
node(n, z) == [aNode EXCEPT !.name = n, !.labels = {zone(z)}, !.allocatable = [cpu |-> 20, pods |-> 20]]
three == {node("n1", "a"), node("n2", "b"), node("n3", "b")}
tainted == {node("n1", "a"), node("n2", "b"), [node("n3", "b") EXCEPT !.taints = <<gpu>>]}
two == {node("n1", "a"), [node("n2", "b") EXCEPT !.taints = <<gpu>>]}

set(name) == [kind |-> "ReplicaSet", uid |-> name, name |-> name]
job == [kind |-> "Job", uid |-> "job", name |-> "job"]
pod(k, n) == [images |-> <<"i">>] @@ [aPod EXCEPT !.name = k, !.node = n, !.owners = {set("a")}]

run(ns, ps) ==
    [args |-> [included |-> none, excluded |-> none, selector |-> none, excludeOwnerKinds |-> none],
     evictor |-> evictorDefaults, cluster |-> [aCluster EXCEPT !.nodes = ns], pods |-> ps, given |-> ns, limits |-> noLimits]

\* k pods of one owner, c[1], c[2], c[3] of them on the nodes.
Counts(k) == {c \in [1..3 -> 0..k] : c[1] + c[2] + c[3] = k /\ c[1] >= c[2]}
Names == <<"n1", "n2", "n3">>
uniform(c) == UNION {{pod(<<a, k>>, Names[a]) : k \in 1..c[a]} : a \in 1..3}
uniforms == {run(ns, uniform(c)) : c \in Counts(3) \cup Counts(4), ns \in {three, tainted}}

----------------------------------------------------------------------------
image(p, s) == [p EXCEPT !.images = s]
owned(p, os) == [p EXCEPT !.owners = os]
in(p, z) == [p EXCEPT !.nodeSelector = {zone(z)}]
needs(p, zs) == [p EXCEPT !.required = [k \in 1..Len(zs) |-> {zone(zs[k])}]]
tolerant(p, ts) == [p EXCEPT !.tolerations = ts]

podSets ==
    {\* two owners share pods
     {owned(pod(1, "n1"), {set("a"), set("b")}), owned(pod(2, "n1"), {set("a"), set("b")}), pod(3, "n1"), pod(4, "n2")},
     \* other images, another kind, no owner
     {image(pod(1, "n1"), <<"i", "j">>), image(pod(2, "n1"), <<"i", "j">>), pod(3, "n1"), owned(pod(4, "n1"), {}), owned(pod(5, "n1"), {job}), owned(pod(6, "n1"), {job})},
     \* pods that differ in where they may run
     {tolerant(pod(1, "n1"), <<tolerates, any>>), tolerant(pod(2, "n1"), <<any, tolerates, any>>), pod(3, "n1"), pod(4, "n1")},
     {in(pod(1, "n2"), "b"), in(pod(2, "n2"), "b"), pod(3, "n2"), pod(4, "n2")},
     {needs(pod(1, "n1"), <<"a", "b">>), needs(pod(2, "n1"), <<"b", "a">>), needs(pod(3, "n1"), <<"a", "a">>), in(pod(4, "n1"), "a")},
     \* another namespace, a pod that is going away
     {[pod(1, "n1") EXCEPT !.ns = "ns2"], [pod(2, "n1") EXCEPT !.ns = "ns2"], pod(3, "n1"), [pod(4, "n1") EXCEPT !.terminating = TRUE]},
     \* pods on two nodes
     {pod(1, "n1"), pod(2, "n1"), pod(3, "n1"), pod(4, "n2"), pod(5, "n2"), pod(6, "n2")},
     {pod(1, "n1"), pod(2, "n1"), pod(3, "n2"), pod(4, "n2"), tolerant(pod(5, "n1"), <<any>>)}}

shapes ==
    {[run(ns, ps) EXCEPT !.limits = l, !.args = a] :
        ns \in {three, tainted, two}, ps \in podSets,
        l \in {noLimits, [noLimits EXCEPT !.total = 1], [noLimits EXCEPT !.node = 0], [noLimits EXCEPT !.namespace = 1]},
        a \in {[run(three, {}).args EXCEPT !.excludeOwnerKinds = {"Job"}], [run(three, {}).args EXCEPT !.excluded = {"ns2"}]}}

refused == {[run(three, {}) EXCEPT !.args.included = {"ns1"}, !.args.excluded = {"ns2"}]}

MCSettings == {uniforms, shapes, refused}
=============================================================================
