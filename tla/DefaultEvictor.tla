--------------------------- MODULE DefaultEvictor ---------------------------
(***************************************************************************)
(* The DefaultEvictor plugin (pkg/framework/plugins/defaultevictor): which *)
(* pods may be evicted at all, as operators on its arguments, the cluster  *)
(* and the informer's pods.                                                *)
(*                                                                         *)
(* args is a record [legacy, defaultDisabled, extraEnabled,                *)
(* storageClasses, priorityThreshold, labelSelector,                       *)
(* namespaceLabelSelector, nodeFit, nodeSelector, minReplicas, minPodAge,  *)
(* noEvictionPolicy]: legacy is the set of deprecated flags that are true, *)
(* the two lists of protections are sequences, selectors are {} when not   *)
(* set, priorityThreshold is [value, name].  cluster is a record [nodes,   *)
(* pdbs, claims, namespaces, priorityClasses].                             *)
(***************************************************************************)
EXTENDS NodeFit

defaultPodProtections == {"PodsWithLocalStorage", "SystemCriticalPods", "FailedBarePods", "DaemonSetPods"}
extraPodProtections == {"PodsWithPVC", "PodsWithoutPDB", "PodsWithResourceClaims"}

NoEvictionPolicies == {"", "Preferred", "Mandatory"}

hasDuplicates(s) == Cardinality(ToSet(s)) < Len(s)

ValidateDefaultEvictorArgs(args) ==
    /\ ~(args.priorityThreshold.value # Nil /\ args.priorityThreshold.name # "")
    /\ args.noEvictionPolicy \in NoEvictionPolicies
    /\ args.legacy # {} => args.extraEnabled = <<>> /\ args.defaultDisabled = <<>>
    /\ ToSet(args.extraEnabled) \subseteq extraPodProtections
    /\ ToSet(args.defaultDisabled) \subseteq defaultPodProtections
    /\ ~hasDuplicates(args.defaultDisabled) /\ ~hasDuplicates(args.extraEnabled)
    /\ "PodsWithPVC" \in ToSet(args.extraEnabled) => "" \notin args.storageClasses

----------------------------------------------------------------------------
(* Building the plugin.                                                    *)

\* Seeded fault: two of the flags are mixed up.
legacyGetPodProtectionsMixedUp(args) ==
    {x \in defaultPodProtections :
        CASE x = "PodsWithLocalStorage" -> "EvictDaemonSetPods" \notin args.legacy
          [] x = "DaemonSetPods"        -> "EvictLocalStoragePods" \notin args.legacy
          [] x = "SystemCriticalPods"   -> "EvictSystemCriticalPods" \notin args.legacy
          [] OTHER                      -> "EvictFailedBarePods" \notin args.legacy}

legacyGetPodProtections(args) ==
    {x \in defaultPodProtections :
        CASE x = "PodsWithLocalStorage" -> "EvictLocalStoragePods" \notin args.legacy
          [] x = "DaemonSetPods"        -> "EvictDaemonSetPods" \notin args.legacy
          [] x = "SystemCriticalPods"   -> "EvictSystemCriticalPods" \notin args.legacy
          [] OTHER                      -> "EvictFailedBarePods" \notin args.legacy}
    \cup (IF "IgnorePvcPods" \in args.legacy THEN {"PodsWithPVC"} ELSE {})
    \cup (IF "IgnorePodsWithoutPDB" \in args.legacy THEN {"PodsWithoutPDB"} ELSE {})

getEffectivePodProtections(args) ==
    IF args.defaultDisabled = <<>> /\ args.extraEnabled = <<>>
    THEN legacyGetPodProtections(args)
    ELSE (defaultPodProtections \ ToSet(args.defaultDisabled)) \cup ToSet(args.extraEnabled)

HasThreshold(args) == args.priorityThreshold.value # Nil \/ args.priorityThreshold.name # ""

\* The value, or the value of the class, which the API server must have.
GetPriorityValueFromPriorityThreshold(args, cluster) ==
    IF args.priorityThreshold.value # Nil
    THEN args.priorityThreshold.value
    ELSE cluster.priorityClasses[args.priorityThreshold.name]

\* New fails only when the threshold cannot be resolved or is too high, and
\* it is resolved only if critical pods are protected.
NewDefaultEvictorSucceeds(args, cluster) ==
    ("SystemCriticalPods" \in getEffectivePodProtections(args) /\ HasThreshold(args)) =>
        /\ \/ args.priorityThreshold.value # Nil
           \/ args.priorityThreshold.name \in DOMAIN cluster.priorityClasses
        /\ GetPriorityValueFromPriorityThreshold(args, cluster) <= SystemCriticalPriority

----------------------------------------------------------------------------
(* The constraints.  A protection that is not in force constrains nothing. *)

IsPodEvictableBasedOnPriority(p, priority) == p.priority = Nil \/ p.priority < priority

SystemCriticalPodsConstraint(args, cluster, p) ==
    /\ ~IsCriticalPriorityPod(p)
    /\ HasThreshold(args) =>
        IsPodEvictableBasedOnPriority(p, GetPriorityValueFromPriorityThreshold(args, cluster))

\* A bare pod needs the protection off and a failed phase.
FailedBarePodsConstraint(protections, p) ==
    OwnerRef(p) = {} => "FailedBarePods" \notin protections /\ p.phase = "Failed"

\* A claim that cannot be resolved to a class protects its pod.
PVCConstraint(args, cluster, p) ==
    IF args.storageClasses = {} THEN ~IsPodWithPVC(p)
    ELSE \A c \in p.claims :
        /\ <<p.ns, c>> \in DOMAIN cluster.claims
        /\ cluster.claims[<<p.ns, c>>] # ""
        /\ cluster.claims[<<p.ns, c>>] \notin args.storageClasses

applyEffectivePodProtections(args, cluster, p) ==
    LET protections == getEffectivePodProtections(args)
    IN  /\ "SystemCriticalPods" \in protections => SystemCriticalPodsConstraint(args, cluster, p)
        /\ FailedBarePodsConstraint(protections, p)
        /\ "PodsWithLocalStorage" \in protections => ~IsPodWithLocalStorage(p)
        /\ "DaemonSetPods" \in protections => ~IsDaemonsetPod(OwnerRef(p))
        /\ "PodsWithPVC" \in protections => PVCConstraint(args, cluster, p)
        /\ "PodsWithoutPDB" \in protections => IsPodCoveredByPDB(p, cluster.pdbs)
        /\ "PodsWithResourceClaims" \in protections => ~IsPodWithResourceClaims(p)

\* The replicas are what the informer's index has for the owner, in whatever
\* state they are; a pod with several owners is not constrained.
Replicas(view, uid) == {q \in view : uid \in OwnerRefUIDs(q)}

\* Seeded fault: one replica fewer is enough.
evictionConstraintsForMinReplicasOffByOne(args, view, p) ==
    (args.minReplicas > 1 /\ Cardinality(OwnerRef(p)) = 1) =>
        \A uid \in OwnerRefUIDs(p) : Cardinality(Replicas(view, uid)) + 1 >= args.minReplicas

evictionConstraintsForMinReplicas(args, view, p) ==
    (args.minReplicas > 1 /\ Cardinality(OwnerRef(p)) = 1) =>
        \A uid \in OwnerRefUIDs(p) : Cardinality(Replicas(view, uid)) >= args.minReplicas

evictionConstraintsForMinPodAge(args, p) ==
    args.minPodAge # Nil => p.started # Nil /\ p.started >= args.minPodAge

evictionConstraintsForLabelSelector(args, p) == Matches(args.labelSelector, p.labels)

----------------------------------------------------------------------------
(* The two extension points.                                               *)

HaveEvictAnnotation(p) == EvictPodAnnotationKey \in p.annotations

EvictorFilter(args, cluster, view, p) ==
    \/ HaveEvictAnnotation(p)
    \/ /\ ~(args.noEvictionPolicy = "Mandatory" /\ HaveNoEvictionAnnotation(p))
       /\ ~IsMirrorPod(p) /\ ~IsStaticPod(p) /\ ~IsPodTerminating(p)
       /\ applyEffectivePodProtections(args, cluster, p)
       /\ evictionConstraintsForLabelSelector(args, p)
       /\ evictionConstraintsForMinReplicas(args, view, p)
       /\ evictionConstraintsForMinPodAge(args, p)

EvictorPreEvictionFilter(args, cluster, view, p) ==
    /\ args.nodeFit =>
        PodFitsAnyOtherNode(view, p, ReadyNodes(cluster.nodes, args.nodeSelector))
    /\ args.namespaceLabelSelector # {} =>
        /\ p.ns \in DOMAIN cluster.namespaces
        /\ Matches(args.namespaceLabelSelector, cluster.namespaces[p.ns])
============================================================================
