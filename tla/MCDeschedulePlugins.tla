------------------------- MODULE MCDeschedulePlugins -------------------------
(***************************************************************************)
(* Runs of the Deschedule plugins on two nodes and up to four pods.  Every *)
(* plugin is run with its filters set in several ways and with each limit  *)
(* small enough to be reached; the evictor's protections are tried on one  *)
(* pod of each protected kind.                                             *)
(***************************************************************************)
EXTENDS DeschedulePlugins, MCCluster

x == <<"app", "x">>
ssd == <<"disk", "ssd">>
zone == <<"zone", "a">>
gpu == [key |-> "gpu", value |-> "yes", effect |-> "NoSchedule"]
slow == [key |-> "slow", value |-> "", effect |-> "PreferNoSchedule"]

n1 == [aNode EXCEPT !.labels = {zone}, !.taints = <<gpu, slow>>]
n2 == [aNode EXCEPT !.name = "n2", !.labels = {zone, ssd}]

defaults ==
    [included |-> none, excluded |-> none, selector |-> none, states |-> none,
     includingInitContainers |-> FALSE, includingEphemeralContainers |-> FALSE,
     ownerKinds |-> none, excludedKinds |-> none, conditions |-> none, exitCodes |-> none,
     maxPodLifeTimeSeconds |-> Nil, minPodLifetimeSeconds |-> Nil, reasons |-> none,
     podRestartThreshold |-> 0, nodeAffinityType |-> <<>>, includesTaints |-> FALSE,
     includedTaints |-> none, excludedTaints |-> none, includePreferNoSchedule |-> FALSE]

\* The policy as it is usually written: the filters are left to the defaults.
enabled(plug) == [deschedule |-> <<plug>>, balance |-> <<>>, filter |-> <<>>, preEvictionFilter |-> <<>>,
                  configs |-> <<PluginName, plug>>]

base ==
    [profile |-> enabled(LifeTime), plugin |-> LifeTime, args |-> defaults, evictor |-> evictorDefaults,
     cluster |-> [aCluster EXCEPT !.nodes = {n1, n2}], pods |-> none, order |-> <<n1, n2>>,
     limits |-> noLimits, prompt |-> TRUE, wraps |-> FALSE]

Limits == {noLimits, [noLimits EXCEPT !.total = 2], [noLimits EXCEPT !.node = 1],
           [noLimits EXCEPT !.namespace = 1], [total |-> 2, node |-> 1, namespace |-> 1]}

\* Four pods, two on each node, the second in another namespace.
at(n, ns, name, p) == [p EXCEPT !.name = name, !.node = n, !.ns = ns]
four(a, b, c, d) == {at("n1", "ns1", "a", a), at("n1", "ns2", "b", b), at("n2", "ns1", "c", c), at("n2", "ns1", "d", d)}

runs(plug, argSet, podSets) ==
    {[base EXCEPT !.profile = enabled(plug), !.plugin = plug, !.args = a, !.pods = ps, !.limits = l, !.prompt = b] :
        a \in argSet, ps \in podSets, l \in Limits, b \in BOOLEAN}

----------------------------------------------------------------------------
aged(n) == [aPod EXCEPT !.age = n]
crashing(n) == [aged(n) EXCEPT !.waiting["main"] = {"CrashLoopBackOff"}, !.terminated["init"] = {"Error"},
                               !.exits["init"] = {1}, !.conditions = {[type |-> "Ready", status |-> "False", reason |-> "", since |-> 7]}]

lifeTimeArgs ==
    {[defaults EXCEPT !.maxPodLifeTimeSeconds = 6],
     [defaults EXCEPT !.maxPodLifeTimeSeconds = 6, !.states = {"CrashLoopBackOff", "Pending"}],
     [defaults EXCEPT !.states = {"Error"}, !.includingInitContainers = TRUE, !.ownerKinds = {"ReplicaSet"}],
     [defaults EXCEPT !.conditions = {[type |-> "Ready", status |-> "", reason |-> "", minSince |-> 7]}, !.excludedKinds = {"Job"}],
     [defaults EXCEPT !.exitCodes = {1}, !.includingInitContainers = TRUE, !.excluded = {"ns2"}],
     [defaults EXCEPT !.states = {"Sleeping"}]}
lifeTime == runs(LifeTime, lifeTimeArgs,
    {four(aged(10), aged(20), aged(5), aged(30)), four(crashing(10), aged(20), crashing(20), crashing(-1))})

----------------------------------------------------------------------------
failed(n) == [aged(n) EXCEPT !.phase = "Failed", !.reason = "NodeLost", !.terminated["main"] = {"OOMKilled"}, !.exits["main"] = {9}]
failedArgs ==
    {[defaults EXCEPT !.minPodLifetimeSeconds = 6], [defaults EXCEPT !.reasons = {"NodeLost"}],
     [defaults EXCEPT !.minPodLifetimeSeconds = 0, !.exitCodes = {9}, !.excludedKinds = {"Job"}]}
failedPods ==
    UNION {{[s EXCEPT !.wraps = w] : s \in runs(FailedPods, failedArgs, {four(failed(4000), failed(6), failed(-2), aged(4000))})} : w \in BOOLEAN}

----------------------------------------------------------------------------
restarted(n, m) == [aPod EXCEPT !.restarts["main"] = n, !.restarts["init"] = m]
restartArgs ==
    {[defaults EXCEPT !.podRestartThreshold = 3], [defaults EXCEPT !.podRestartThreshold = 3, !.includingInitContainers = TRUE],
     [defaults EXCEPT !.podRestartThreshold = 1, !.states = {"Running"}], defaults}
restarts == runs(Restarts, restartArgs, {four(restarted(3, 0), restarted(4, 0), restarted(2, 2), restarted(5, 0))})

----------------------------------------------------------------------------
needsSsd == [aPod EXCEPT !.required = <<{ssd}>>]
likesSsd == [aPod EXCEPT !.preferred = {[weight |-> 1, labels |-> {ssd}], [weight |-> 1, labels |-> {zone}]}]
affinityArgs ==
    {[defaults EXCEPT !.nodeAffinityType = t] :
        t \in {<<"required">>, <<"required", "preferred">>, <<"sometimes", "preferred">>, <<>>}}
both == [needsSsd EXCEPT !.preferred = {[weight |-> 2, labels |-> {ssd}]}]
affinity == runs(Affinity, affinityArgs, {four(both, likesSsd, needsSsd, aPod)})

----------------------------------------------------------------------------
exists == [key |-> "gpu", op |-> "Exists", value |-> "", effect |-> ""]
tolerant == [aPod EXCEPT !.tolerations = <<exists>>]
taintArgs ==
    {defaults, [defaults EXCEPT !.includePreferNoSchedule = TRUE], [defaults EXCEPT !.excludedTaints = {<<"gpu", "yes">>}],
     [defaults EXCEPT !.includesTaints = TRUE, !.includedTaints = {<<"slow">>}, !.includePreferNoSchedule = TRUE]}
taints == runs(Taints, taintArgs, {four(aPod, tolerant, aPod, failed(9)), {at("n1", "ns1", k, aPod) : k \in {"a", "b", "c"}}})

----------------------------------------------------------------------------
alone(prio) == [aPod EXCEPT !.labels = {x}, !.priority = prio, !.anti = {[namespaces |-> {"ns1", "ns2"}, selector |-> {x}, key |-> "zone"]}]
victim(prio) == [aPod EXCEPT !.labels = {x}, !.priority = prio]
antiAffinity == runs(AntiAffinity, {defaults, [defaults EXCEPT !.excluded = {"ns2"}]},
    {four(alone(2), alone(1), alone(3), aPod), four(alone(2), victim(1), victim(1), alone(2)),
     four(alone(Nil), alone(5), [alone(1) EXCEPT !.owners = {}], victim(1)), four(alone(2), victim(1), aPod, aPod)})

----------------------------------------------------------------------------
(* The evictor: a pod of each kind, under each way to set the policy.      *)

kinds ==
    {aPod, [aPod EXCEPT !.annotations = {MirrorPodAnnotationKey}], [aPod EXCEPT !.annotations = {NotFromAPI}],
     [aPod EXCEPT !.annotations = {SoftNoEvictionAnnotationKey}], [aPod EXCEPT !.terminating = TRUE],
     [aPod EXCEPT !.annotations = {EvictPodAnnotationKey}, !.owners = {}], [aPod EXCEPT !.owners = {}],
     [aPod EXCEPT !.owners = {}, !.phase = "Failed"], [aPod EXCEPT !.owners = {[kind |-> "DaemonSet", uid |-> "ds"]}],
     [aPod EXCEPT !.owners = {rs, [kind |-> "Job", uid |-> "job"]}], [aPod EXCEPT !.priority = SystemCriticalPriority],
     [aPod EXCEPT !.priority = 100], [aPod EXCEPT !.volumes = {"hostPath"}], [aPod EXCEPT !.claims = {"data"}],
     [aPod EXCEPT !.claims = {"lost"}], [aPod EXCEPT !.resourceClaims = TRUE], [aPod EXCEPT !.labels = {x}],
     [aPod EXCEPT !.started = 3], [aPod EXCEPT !.requests = [cpu |-> 9]]}

policies ==
    {evictorDefaults} \cup {[evictorDefaults EXCEPT !.legacy = {f}] :
        f \in {"EvictLocalStoragePods", "EvictDaemonSetPods", "EvictSystemCriticalPods", "EvictFailedBarePods", "IgnorePvcPods", "IgnorePodsWithoutPDB"}}
    \cup {[evictorDefaults EXCEPT !.defaultDisabled = <<f>>] : f \in defaultPodProtections}
    \cup {[evictorDefaults EXCEPT !.extraEnabled = <<f>>] : f \in extraPodProtections}
    \cup {[evictorDefaults EXCEPT !.extraEnabled = <<"PodsWithPVC">>, !.storageClasses = {c}] : c \in {"fast", "slow", ""}}
    \cup {[evictorDefaults EXCEPT !.priorityThreshold = t] :
            t \in {[value |-> 100, name |-> ""], [value |-> Nil, name |-> "high"], [value |-> Nil, name |-> "missing"],
                   [value |-> 1, name |-> "high"], [value |-> SystemCriticalPriority + 1, name |-> ""]}}
    \cup {[evictorDefaults EXCEPT !.defaultDisabled = <<"SystemCriticalPods">>, !.priorityThreshold.name = "missing"]}
    \cup {[evictorDefaults EXCEPT !.noEvictionPolicy = "Mandatory"], [evictorDefaults EXCEPT !.minPodAge = 5],
          [evictorDefaults EXCEPT !.labelSelector = {x}], [evictorDefaults EXCEPT !.namespaceLabelSelector = {x}],
          [evictorDefaults EXCEPT !.nodeFit = TRUE], [evictorDefaults EXCEPT !.legacy = {"IgnorePvcPods"}, !.extraEnabled = <<"PodsWithPVC">>]}

protections ==
    {[base EXCEPT !.args.maxPodLifeTimeSeconds = 6, !.pods = {at("n1", "ns1", "a", k), at("n2", "ns2", "b", aPod)}, !.evictor = e,
                  !.cluster.claims = (<<"ns1", "data">> :> "fast"), !.cluster.pdbs = {[ns |-> "ns1", selector |-> {x}]},
                  !.cluster.namespaces["ns2"] = {x}] : k \in kinds, e \in policies}

----------------------------------------------------------------------------
(* minReplicas: an owner with three pods on three nodes, or on one.        *)

n3 == [aNode EXCEPT !.name = "n3"]
spread(p) == {at("n1", "ns1", "a", p), at("n2", "ns1", "b", p), at("n3", "ns1", "c", p)}
stacked(p) == {at("n1", "ns1", k, p) : k \in {"a", "b", "c"}}
replicas ==
    {[base EXCEPT !.profile = enabled(t[1]), !.plugin = t[1], !.args = t[2], !.pods = t[3], !.prompt = b, !.order = <<n3, n1, n2>>,
                  !.cluster.nodes = {n1, n2, n3}, !.evictor.minReplicas = m] :
        t \in {<<Restarts, [defaults EXCEPT !.podRestartThreshold = 3], spread(restarted(3, 0))>>,
               <<FailedPods, [defaults EXCEPT !.minPodLifetimeSeconds = 6], spread(failed(9))>>,
               <<FailedPods, [defaults EXCEPT !.minPodLifetimeSeconds = 6], stacked(failed(9))>>,
               <<LifeTime, [defaults EXCEPT !.maxPodLifeTimeSeconds = 6], spread(aged(9))>>,
               <<AntiAffinity, defaults, stacked(alone(1))>>, <<AntiAffinity, defaults, spread(alone(1))>>},
        m \in {2, 3}, b \in BOOLEAN}

----------------------------------------------------------------------------
(* Policies that are written otherwise, some of them wrongly.              *)

written ==
    {[enabled(LifeTime) EXCEPT !.configs = c] : c \in {<<LifeTime>>, <<PluginName>>, <<LifeTime, "Unknown">>}}
    \cup {[enabled(LifeTime) EXCEPT !.filter = f, !.preEvictionFilter = f] : f \in {<<PluginName>>, <<LifeTime>>}}
    \cup {[enabled(LifeTime) EXCEPT !.filter = <<PluginName>>, !.balance = b] : b \in {<<LifeTime>>, <<"RemoveDuplicates">>}}
    \cup {[enabled(LifeTime) EXCEPT !.deschedule = <<LifeTime, "RemoveDuplicates">>, !.configs = <<LifeTime, "RemoveDuplicates">>]}
profiles ==
    {[base EXCEPT !.profile = w, !.args.maxPodLifeTimeSeconds = 6, !.evictor = e,
                  !.pods = {at("n1", "ns1", "a", k), at("n2", "ns2", "b", aPod)}] :
        w \in written, k \in {aPod, [aPod EXCEPT !.owners = {[kind |-> "DaemonSet", uid |-> "ds"]}]},
        e \in {evictorDefaults, [evictorDefaults EXCEPT !.legacy = {"EvictDaemonSetPods"}]}}

MCSettings == profiles \cup lifeTime \cup failedPods \cup restarts \cup affinity \cup taints \cup antiAffinity \cup protections \cup replicas
============================================================================
