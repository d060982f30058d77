-------------------------- MODULE DeschedulePlugins --------------------------
(***************************************************************************)
(* The plugins of the Deschedule extension point: PodLifeTime,             *)
(* RemoveFailedPods, RemovePodsHavingTooManyRestarts,                      *)
(* RemovePodsViolatingNodeAffinity, RemovePodsViolatingNodeTaints and      *)
(* RemovePodsViolatingInterPodAntiAffinity, on the pod evictor's limits    *)
(* and the DefaultEvictor's filters.                                       *)
(*                                                                         *)
(* A behaviour is one run of one plugin.  All of them list pods that they  *)
(* want gone and ask the evictor for one after the other; they differ in   *)
(* what they want, in when and in which order they list, and in what they  *)
(* make of a limit that is reached.  The pods are those of the informer's  *)
(* store, which follows the evictions with any delay.                      *)
(***************************************************************************)
EXTENDS EvictorHandle, Policy

CONSTANT Settings   \* what a run can start from, see Setting below

VARIABLES
    setting,     \* [profile, plugin, args, evictor, cluster, pods, order, limits, prompt]
    view,        \* the pods in the informer's store
    status,      \* where the run is
    passes,      \* the affinity types not finished
    nodes,       \* the nodes not visited in this pass
    queue,       \* the pods of the current node, or all, not considered yet
    group,       \* the pods RemovePodsViolatingInterPodAntiAffinity takes into account
    calls        \* the requests made, in order: [pod, result]

vars == <<setting, view, status, passes, nodes, queue, group, calls>>

LifeTime == "PodLifeTime"
FailedPods == "RemoveFailedPods"
Restarts == "RemovePodsHavingTooManyRestarts"
Affinity == "RemovePodsViolatingNodeAffinity"
Taints == "RemovePodsViolatingNodeTaints"
AntiAffinity == "RemovePodsViolatingInterPodAntiAffinity"

Ends == {"done", "failed", "rejected"}

plugin == setting.plugin
args == setting.args
evictor == setting.evictor
cluster == setting.cluster

----------------------------------------------------------------------------
(* The arguments.  includesTaints says that includedTaints is not nil; a   *)
(* taint is named <<key>> or <<key, value>>.                               *)

podLifeTimeAllowedStates ==
    {"Running", "Pending", "Succeeded", "Failed", "Unknown",
     "NodeAffinity", "NodeLost", "Shutdown", "UnexpectedAdmissionError",
     "PodInitializing", "ContainerCreating", "ImagePullBackOff", "CrashLoopBackOff",
     "CreateContainerConfigError", "ErrImagePull", "CreateContainerError", "InvalidImageName",
     "OOMKilled", "Error", "Completed", "DeadlineExceeded", "Evicted", "ContainerCannotRun",
     "StartError"}

OneSet(include, exclude) == include = {} \/ exclude = {}

ValidatePodLifeTimeArgs ==
    /\ OneSet(args.ownerKinds, args.excludedKinds)
    /\ args.states \subseteq podLifeTimeAllowedStates
    /\ \A c \in args.conditions :
        c.type # "" \/ c.status # "" \/ c.reason # "" \/ c.minSince # Nil
    /\ \/ args.maxPodLifeTimeSeconds # Nil
       \/ args.states # {} \/ args.conditions # {} \/ args.exitCodes # {}

ValidateRestartsArgs ==
    /\ args.podRestartThreshold >= 1
    /\ args.states \subseteq {"Running", "CrashLoopBackOff"}

ValidateNodeAffinityArgs == args.nodeAffinityType # <<>>
ValidateNodeTaintsArgs == OneSet(args.includedTaints, args.excludedTaints)

Validated ==
    /\ OneSet(args.included, args.excluded)
    /\ plugin = LifeTime => ValidatePodLifeTimeArgs
    /\ plugin = Restarts => ValidateRestartsArgs
    /\ plugin = Affinity => ValidateNodeAffinityArgs
    /\ plugin = Taints => ValidateNodeTaintsArgs
    /\ ValidateDefaultEvictorArgs(evictor)

\* Unset, the minimal lifetime of failed pods is an hour; the other defaults
\* change nothing.
SetDefaults_RemoveFailedPodsArgs(a) ==
    IF a.minPodLifetimeSeconds = Nil THEN [a EXCEPT !.minPodLifetimeSeconds = 3600] ELSE a

----------------------------------------------------------------------------
(* What the plugins want.                                                  *)

\* WrapFilterFuncs over the plugins that are enabled.
Filter(p) == setting.profile.filter # <<>> => EvictorFilter(evictor, cluster, view, p)
PreEvictionFilter(p) ==
    setting.profile.preEvictionFilter # <<>> => EvictorPreEvictionFilter(evictor, cluster, view, p)
Evictable(p) == Filter(p) /\ PreEvictionFilter(p)
podFilter(p) == BuildFilterFunc(args, Evictable(p), p)
InScope(p) == BuildFilterFunc(args, TRUE, p)

Counted == {"main"} \cup (IF args.includingInitContainers THEN {"init"} ELSE {})

matchesConditionFields(c, f) ==
    f.type \in {"", c.type} /\ f.status \in {"", c.status} /\ f.reason \in {"", c.reason}

\* A condition without a transition time has since = Nil, so has one whose
\* transition lies in the future: neither is old enough.
matchesAnyPodConditionFilter(p) ==
    \E f \in args.conditions, c \in p.conditions :
        /\ matchesConditionFields(c, f)
        /\ f.minSince # Nil => c.since # Nil /\ c.since >= f.minSince

matchesAnyExitCode(p) == \E class \in Counted : p.exits[class] \cap args.exitCodes # {}

HasState(p) ==
    \/ {p.phase, p.reason} \cap args.states # {}
    \/ \E class \in Counted \cup (IF args.includingEphemeralContainers THEN {"ephemeral"} ELSE {}) :
        \/ HasMatchingContainerWaitingState(p, class, args.states)
        \/ HasMatchingContainerTerminatedState(p, class, args.states)

LifeTimeFilter(p) ==
    /\ args.maxPodLifeTimeSeconds # Nil => p.age >= 0 /\ p.age > args.maxPodLifeTimeSeconds
    /\ args.states # {} => HasState(p)
    /\ args.ownerKinds # {} => \E o \in OwnerRef(p) : o.kind \in args.ownerKinds
    /\ (args.ownerKinds = {}) => \A o \in OwnerRef(p) : o.kind \notin args.excludedKinds
    /\ args.conditions # {} => matchesAnyPodConditionFilter(p)
    /\ args.exitCodes # {} => matchesAnyExitCode(p)

\* A pod created after this clock's now: the conversion of its negative age to
\* an unsigned number gives zero or a number larger than any lifetime,
\* depending on the platform the program is built for.
OldEnough(p) ==
    IF p.age < 0 THEN setting.wraps \/ args.minPodLifetimeSeconds = 0
    ELSE p.age >= args.minPodLifetimeSeconds

getFailedContainerStatusReasons(p, class) == (p.waiting[class] \cup p.terminated[class]) \ {""}

FailedPodsFilter(p) ==
    /\ p.phase = "Failed"
    /\ OldEnough(p)
    /\ \A o \in OwnerRef(p) : o.kind \notin args.excludedKinds
    /\ args.reasons # {} =>
        args.reasons \cap (UNION {getFailedContainerStatusReasons(p, class) : class \in Counted}
                             \cup ({p.reason} \ {""})) # {}
    /\ args.exitCodes # {} => matchesAnyExitCode(p)

getPodTotalRestarts(p) ==
    p.restarts["main"] + (IF args.includingInitContainers THEN p.restarts["init"] ELSE 0)

RestartsFilter(p) ==
    /\ getPodTotalRestarts(p) >= args.podRestartThreshold
    /\ args.states # {} =>
        \/ p.phase \in args.states
        \/ \E class \in Counted : HasMatchingContainerWaitingState(p, class, args.states)

\* The plugin is given the ready nodes in some order.
Given == ToSet(setting.order)

AffinityFilter(p, n, type) ==
    /\ PodHasNodeAffinity(p, type)
    /\ Filter(p)
    /\ PodFitsAnyNode(view, p, Given)
    /\ IF type = "required" THEN ~PodMatchNodeSelector(p, n)
       ELSE GetBestNodeWeightGivenPodPreferredAffinity(p, Given)
                > GetNodeWeightGivenPodPreferredAffinity(p, n)

TaintIn(taint, names) == <<taint.key>> \in names \/ (taint.value # "" /\ <<taint.key, taint.value>> \in names)

taintFilterFnc(taint) ==
    /\ \/ taint.effect = "NoSchedule"
       \/ args.includePreferNoSchedule /\ taint.effect = "PreferNoSchedule"
    /\ ~TaintIn(taint, args.excludedTaints)
    /\ args.includesTaints => TaintIn(taint, args.includedTaints)

----------------------------------------------------------------------------
(* The lists.                                                              *)

OnNode(n) == CHOOSE m \in Given : m.name = n

\* The pods of node n the plugin puts on its list; PodLifeTime and the
\* anti-affinity plugin put together the lists of all nodes.
Listed(n) ==
    LET wanted(p) ==
            /\ podFilter(p)
            /\ CASE plugin = LifeTime -> LifeTimeFilter(p)
                 [] plugin = FailedPods -> FailedPodsFilter(p)
                 [] plugin = Restarts -> RestartsFilter(p)
                 [] plugin = Affinity -> AffinityFilter(p, n, Head(passes))
                 [] OTHER -> TRUE
    IN  CASE plugin \in {LifeTime, FailedPods, Restarts} ->
                {p \in ListAllPodsOnANode(view, n) : wanted(p)}
          [] plugin = AntiAffinity -> {p \in ListPodsOnANode(view, n) : InScope(p)}
          [] OTHER -> {p \in ListPodsOnANode(view, n) : wanted(p)}

\* The order in which a list is worked off.
MoreRestarts(p, q) == getPodTotalRestarts(p) > getPodTotalRestarts(q)
AnyOrder(p, q) == FALSE

\* Seeded fault: PodLifeTime does not sort.
SortedNotByAge(pods) ==
    CASE plugin = Restarts -> SortedBy(pods, MoreRestarts)
      [] plugin = AntiAffinity -> SortedBy(pods, PriorityLowToHigh)
      [] OTHER -> SortedBy(pods, AnyOrder)

\* Seeded fault: the anti-affinity plugin does not sort.
SortedNotByPriority(pods) ==
    CASE plugin = LifeTime -> SortedBy(pods, OldestFirst)
      [] plugin = Restarts -> SortedBy(pods, MoreRestarts)
      [] OTHER -> SortedBy(pods, AnyOrder)

Sorted(pods) ==
    CASE plugin = LifeTime -> SortedBy(pods, OldestFirst)
      [] plugin = Restarts -> SortedBy(pods, MoreRestarts)
      [] plugin = AntiAffinity -> SortedBy(pods, PriorityLowToHigh)
      [] OTHER -> SortedBy(pods, AnyOrder)

----------------------------------------------------------------------------
(* One run of the plugin.                                                  *)

Init ==
    /\ setting \in Settings
    /\ view = setting.pods
    /\ status = "new"
    /\ passes = IF plugin = Affinity THEN args.nodeAffinityType ELSE <<"all">>
    /\ nodes = setting.order
    /\ queue = <<>> /\ group = {} /\ calls = <<>>

\* The policy is validated, its defaults are set and the profile is built from
\* it.
Build ==
    LET configured == setDefaultEvictor(setting.profile)
        chosen == ConfiguredEvictor(setting.profile, evictor)
        accepted ==
            /\ ConfigsRegistered(setting.profile) /\ Validated
            /\ ThresholdResolves(chosen, cluster)
            /\ NewProfileSucceeds(configured)
            /\ NewDefaultEvictorSucceeds(WithThreshold(chosen, cluster), cluster)
    IN  /\ status = "new"
        /\ status' = IF ~accepted THEN "rejected"
                     ELSE IF plugin \in {LifeTime, AntiAffinity} THEN "collect" ELSE "running"
        /\ setting' = IF ~accepted THEN setting
                      ELSE [setting EXCEPT !.profile = configured,
                                           !.evictor = WithThreshold(chosen, cluster),
                                           !.args = IF plugin = FailedPods
                                                    THEN SetDefaults_RemoveFailedPodsArgs(@) ELSE @]
        /\ UNCHANGED <<view, passes, nodes, queue, group, calls>>

\* PodLifeTime and the anti-affinity plugin list the pods of all nodes first.
Collect ==
    /\ status = "collect"
    /\ LET found == UNION {Listed(n) : n \in Given}
       IN  IF plugin = LifeTime
           THEN queue' \in Sorted(found) /\ nodes' = <<>> /\ UNCHANGED group
           ELSE group' = found /\ UNCHANGED <<queue, nodes>>
    /\ status' = "running"
    /\ UNCHANGED <<setting, view, passes, calls>>

\* The others list node by node.  An affinity type that is not known is
\* skipped with its nodes.
VisitNode ==
    /\ status = "running" /\ queue = <<>> /\ nodes # <<>>
    /\ plugin = Affinity => Head(passes) \in {"required", "preferred"}
    /\ LET n == Head(nodes)
       IN  queue' \in Sorted(IF plugin = AntiAffinity THEN {p \in group : p.node = n.name}
                             ELSE Listed(n))
    /\ nodes' = Tail(nodes)
    /\ UNCHANGED <<setting, view, status, passes, group, calls>>

\* An index that cannot be read ends the run; what was evicted stays evicted.
ListFails ==
    /\ \/ status = "collect"
       \/ status = "running" /\ queue = <<>> /\ nodes # <<>> /\ plugin # AntiAffinity
    /\ status' = "failed"
    /\ UNCHANGED <<setting, view, passes, nodes, queue, group, calls>>

\* Two plugins decide only when it is the pod's turn.
Wanted(p) ==
    CASE plugin = Taints -> ~TolerationsTolerateTaintsWithFilter(p.tolerations,
                                SelectSeq(OnNode(p.node).taints, taintFilterFnc))
      [] plugin = AntiAffinity -> CheckPodsWithAntiAffinityExist(p, group, Given) /\ Evictable(p)
      [] OTHER -> TRUE

Pass ==
    /\ status = "running" /\ queue # <<>> /\ ~Wanted(Head(queue))
    /\ queue' = Tail(queue)
    /\ UNCHANGED <<setting, view, status, passes, nodes, group, calls>>

\* Seeded fault: the limit of a namespace ends the work on the node.
AfterEvictNamespaceLimit(p, result) ==
    /\ queue' = IF result \in {"total", "namespace"} \/ (result = "node" /\ plugin # LifeTime) THEN <<>> ELSE Tail(queue)
    /\ nodes' = IF result = "total" THEN <<>> ELSE nodes
    /\ group' = IF result = "ok" THEN {q \in group : q.name # p.name \/ q.ns # p.ns} ELSE group
    /\ status' = IF result = "total" /\ plugin # Affinity THEN "done" ELSE status

\* Seeded fault: an evicted pod still counts as one that others dislike.
AfterEvictKeepsGroup(p, result) ==
    /\ queue' = IF result = "total" \/ (result = "node" /\ plugin # LifeTime) THEN <<>> ELSE Tail(queue)
    /\ nodes' = IF result = "total" THEN <<>> ELSE nodes
    /\ status' = IF result = "total" /\ plugin # Affinity THEN "done" ELSE status
    /\ UNCHANGED group

\* Seeded fault: with an evicted pod its whole namespace is forgotten.
AfterEvictDropsNamespace(p, result) ==
    /\ queue' = IF result = "total" \/ (result = "node" /\ plugin # LifeTime) THEN <<>> ELSE Tail(queue)
    /\ nodes' = IF result = "total" THEN <<>> ELSE nodes
    /\ group' = IF result = "ok" THEN {q \in group : q.ns # p.ns} ELSE group
    /\ status' = IF result = "total" /\ plugin # Affinity THEN "done" ELSE status

\* Seeded fault: the anti-affinity plugin steps back to the pod it has just
\* evicted, which is still in the list.
AfterEvictStepsBack(p, result) ==
    /\ queue' = IF result = "ok" /\ plugin = AntiAffinity THEN queue
                ELSE IF result = "total" \/ (result = "node" /\ plugin # LifeTime) THEN <<>> ELSE Tail(queue)
    /\ nodes' = IF result = "total" THEN <<>> ELSE nodes
    /\ group' = IF result = "ok" THEN {q \in group : q.name # p.name \/ q.ns # p.ns} ELSE group
    /\ status' = IF result = "total" /\ plugin # Affinity THEN "done" ELSE status

\* The node's limit ends the work on the node, PodLifeTime goes on with the
\* next pod.  The total limit ends the run, of the affinity plugin the pass.
\* Other errors, the namespace's limit among them, are logged.
AfterEvict(p, result) ==
    /\ queue' = IF result = "total" \/ (result = "node" /\ plugin # LifeTime) THEN <<>> ELSE Tail(queue)
    /\ nodes' = IF result = "total" THEN <<>> ELSE nodes
    /\ group' = IF result = "ok" THEN {q \in group : q.name # p.name \/ q.ns # p.ns} ELSE group
    /\ status' = IF result = "total" /\ plugin # Affinity THEN "done" ELSE status

Evict ==
    /\ status = "running" /\ queue # <<>> /\ Wanted(Head(queue))
    /\ LET p == Head(queue)
       IN  \E result \in Answers(setting.limits, calls, p) :
            /\ calls' = Append(calls, [pod |-> p, result |-> result])
            /\ AfterEvict(p, result)
            /\ view' = IF result = "ok" /\ setting.prompt THEN view \ {p} ELSE view
    /\ UNCHANGED <<setting, passes>>

EndOfNodes ==
    /\ status = "running" /\ queue = <<>>
    /\ nodes = <<>> \/ (plugin = Affinity /\ Head(passes) \notin {"required", "preferred"})
    /\ IF Len(passes) > 1
       THEN passes' = Tail(passes) /\ nodes' = setting.order /\ UNCHANGED status
       ELSE status' = "done" /\ UNCHANGED <<passes, nodes>>
    /\ UNCHANGED <<setting, view, queue, group, calls>>

Run == Build \/ Collect \/ VisitNode \/ ListFails \/ Pass \/ Evict \/ EndOfNodes

\* The informer sees an evicted pod terminate, then go.
WasEvicted(p) == \E q \in Evicted(calls) : q.name = p.name /\ q.ns = p.ns

Terminating(p) ==
    /\ WasEvicted(p) /\ ~p.terminating
    /\ view' = (view \ {p}) \cup {[p EXCEPT !.terminating = TRUE]}
    /\ UNCHANGED <<setting, status, passes, nodes, queue, group, calls>>

Gone(p) ==
    /\ WasEvicted(p)
    /\ view' = view \ {p}
    /\ UNCHANGED <<setting, status, passes, nodes, queue, group, calls>>

Informer == status \notin Ends /\ \E p \in view : Terminating(p) \/ Gone(p)

Next == Run \/ Informer

Spec == Init /\ [][Next]_vars

----------------------------------------------------------------------------
(* Properties.                                                             *)

\* The pods the plugin wants gone as the cluster was at the start, in the
\* words of the plugins' documentation.
Matching ==
    LET scope(p) == BuildFilterFunc(args,
                        /\ EvictorFilter(evictor, cluster, setting.pods, p)
                        /\ EvictorPreEvictionFilter(evictor, cluster, setting.pods, p), p)
        live(p) == p.phase \notin {"Succeeded", "Failed"}
        kind(p) ==
            CASE plugin = LifeTime -> LifeTimeFilter(p)
              [] plugin = FailedPods -> FailedPodsFilter(p)
              [] plugin = Restarts -> RestartsFilter(p)
              [] plugin = Taints ->
                    live(p) /\ \E i \in 1..Len(OnNode(p.node).taints) :
                        /\ taintFilterFnc(OnNode(p.node).taints[i])
                        /\ ~TolerationsTolerateTaint(p.tolerations, OnNode(p.node).taints[i])
              [] OTHER -> FALSE
    IN  {p \in setting.pods : p.node \in {n.name : n \in Given} /\ scope(p) /\ kind(p)}

\* A run that was not stopped by the total limit or an error has asked for
\* every pod it wanted gone, except on nodes that reached their limit: a
\* refusal or a limit for one pod, node or namespace costs no other pod its
\* turn (the loops of the Deschedule methods).  minReplicas is left out, which
\* evictions make harder to meet.
EveryMatchTried ==
    status = "done" /\ ~OutOfBudget(calls) /\ evictor.minReplicas <= 1 =>
        \A p \in Matching : Requested(calls, p) \/ NodeFull(calls, p.node)

\* What a total limit leaves behind is not worse than what was evicted:
\* PodLifeTime never evicts a pod while an older one on its list has not had
\* its turn ("the oldest can be evicted first in the event that PDB or
\* settings such maxNoOfPodsToEvictPer* prevent too much eviction"), and the
\* restarts plugin keeps the same order on each node.
WorstFirst ==
    evictor.minReplicas <= 1 =>
        \A p \in Evicted(calls) : \A q \in Matching :
            /\ plugin = LifeTime /\ q.age > p.age => Requested(calls, q)
            /\ plugin = Restarts /\ q.node = p.node /\ MoreRestarts(q, p) => Requested(calls, q)

Conflict(p, q) == CheckPodsWithAntiAffinityExist(p, {q}, Given)

\* A pod is evicted for anti-affinity only if a pod it must not be with had
\* not been evicted before it: two pods that dislike each other never both go
\* for the sake of each other (removePodFromNamespaceMap).
ConflictAtEviction ==
    plugin = AntiAffinity =>
        \A i \in 1..Len(calls) : calls[i].result = "ok" =>
            \E q \in setting.pods :
                /\ Conflict(calls[i].pod, q)
                /\ ~\E j \in 1..(i - 1) : calls[j] = [pod |-> q, result |-> "ok"]

\* When the anti-affinity plugin is done and nothing was refused, no pod that
\* may be evicted is left together with one it must not be with, as far as the
\* plugin's namespaces and selector let it see them.  Pods of one name are
\* taken for the same pod also across namespaces, so the names differ here.
ConflictsResolved ==
    /\ plugin = AntiAffinity /\ status = "done"
    /\ \A i \in 1..Len(calls) : calls[i].result = "ok"
    /\ \A p, q \in setting.pods : p.name = q.name => p = q
    => \A p, q \in setting.pods \ Evicted(calls) :
        InScope(p) /\ InScope(q) /\ Conflict(p, q) => ~Evictable(p)

\* Of two pods of one node that dislike each other the one with the lower
\* priority goes, unless the evictor does not let it ("pods are evicted by
\* their priority from low to high").
LowerPriorityGoes ==
    plugin = AntiAffinity /\ evictor.minReplicas <= 1 =>
        \A p \in Evicted(calls), q \in setting.pods :
            /\ q.node = p.node /\ Conflict(p, q) /\ Conflict(q, p) /\ InScope(q)
            /\ q.priority # Nil /\ p.priority # Nil /\ q.priority < p.priority
            /\ EvictorFilter(evictor, cluster, setting.pods, q)
            /\ EvictorPreEvictionFilter(evictor, cluster, setting.pods, q)
            => Requested(calls, q)

\* No pod is evicted twice in one run, even with a store that has not noticed
\* the first eviction.  The affinity plugin lists every node once per affinity
\* type, and needs a store that has.
NotEvictedTwice ==
    (plugin = Affinity => setting.prompt)
    => \A i, j \in 1..Len(calls) :
        i # j /\ calls[i].result = "ok" /\ calls[j].result = "ok" => calls[i].pod # calls[j].pod

\* No owner is left with fewer than minReplicas - 1 pods.  The filter counts
\* what is in the store when the pods are listed, so this needs a store that
\* follows every eviction, and a plugin that lists after every eviction:
\* the anti-affinity plugin asks the filter for each pod, the others list
\* once per node, and PodLifeTime once.
MinReplicasKept ==
    \A p \in Evicted(calls) :
        LET uid == CHOOSE u \in OwnerRefUIDs(p) : TRUE
            left == Replicas(setting.pods, uid) \ Evicted(calls)
        IN  /\ setting.prompt /\ plugin # LifeTime
            /\ evictor.minReplicas > 1 /\ Cardinality(p.owners) = 1 /\ ~HaveEvictAnnotation(p)
            /\ \A q, r \in Replicas(setting.pods, uid) :
                    q.node = r.node /\ plugin # AntiAffinity => q = r
            => Cardinality(left) >= evictor.minReplicas - 1

\* Whatever the plugin and however the protections are configured, a pod that
\* is a mirror or static pod, is terminating, has no owner, belongs to a
\* DaemonSet, is critical, has local storage or insists on staying is not
\* evicted, unless the policy says so or the pod carries the evict annotation
\* ("Pod Evictions" in the README).
ProtectedPodsStay ==
    LET allowed(flag, protection) ==
            flag \in evictor.legacy \/ protection \in ToSet(evictor.defaultDisabled)
    IN  \A p \in Evicted(calls) : ~HaveEvictAnnotation(p) =>
            /\ ~p.terminating /\ p.annotations \cap {MirrorPodAnnotationKey, NotFromAPI} = {}
            /\ p.owners = {} => p.phase = "Failed" /\ allowed("EvictFailedBarePods", "FailedBarePods")
            /\ IsDaemonsetPod(p.owners) => allowed("EvictDaemonSetPods", "DaemonSetPods")
            /\ p.priority >= SystemCriticalPriority => allowed("EvictSystemCriticalPods", "SystemCriticalPods")
            /\ p.volumes # {} => allowed("EvictLocalStoragePods", "PodsWithLocalStorage")
            /\ p.claims # {} => "IgnorePvcPods" \notin evictor.legacy
            /\ evictor.noEvictionPolicy = "Mandatory" => ~HaveNoEvictionAnnotation(p)
============================================================================
