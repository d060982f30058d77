------------------------------- MODULE Policy -------------------------------
(***************************************************************************)
(* How a policy is loaded (pkg/descheduler/policyconfig.go) and a profile  *)
(* built from it (pkg/framework/profile/profile.go), as operators.         *)
(*                                                                         *)
(* profile is a record [deschedule, balance, filter, preEvictionFilter,    *)
(* configs] of sequences of plugin names: the plugins enabled at each      *)
(* extension point and those that have a pluginConfig.  policy is a record *)
(* [collector, providers] of the metrics settings; a provider is           *)
(* [source, prometheus, url, authToken], prometheus being FALSE when the   *)
(* provider's configuration is missing.  The validators of the plugins'    *)
(* arguments are in the modules of the plugins.                            *)
(***************************************************************************)
EXTENDS DefaultEvictor

PluginName == "DefaultEvictor"

----------------------------------------------------------------------------
(* RegisterDefaultPlugins: which extension points a plugin implements.     *)

DeschedulePlugin ==
    {"PodLifeTime", "RemoveFailedPods", "RemovePodsHavingTooManyRestarts",
     "RemovePodsViolatingInterPodAntiAffinity", "RemovePodsViolatingNodeAffinity",
     "RemovePodsViolatingNodeTaints"}
BalancePlugin ==
    {"LowNodeUtilization", "HighNodeUtilization", "RemoveDuplicates",
     "RemovePodsViolatingTopologySpreadConstraint"}
EvictorPlugin == {PluginName}
registry == DeschedulePlugin \cup BalancePlugin \cup EvictorPlugin

----------------------------------------------------------------------------
(* validateDeschedulerConfiguration, without the plugins' own validators.  *)

ConfigsRegistered(profile) == ToSet(profile.configs) \subseteq registry

validPrometheus(provider) ==
    /\ provider.prometheus
    /\ provider.url # ""
    /\ provider.authToken \in {"none", "secret"}

ProvidersValid(policy) ==
    LET sources == [i \in DOMAIN policy.providers |-> policy.providers[i].source]
    IN  /\ ~hasDuplicates(sources)
        /\ ~("KubernetesMetrics" \in ToSet(sources) /\ policy.collector)
        /\ \A i \in DOMAIN sources :
                sources[i] = "Prometheus" => validPrometheus(policy.providers[i])

----------------------------------------------------------------------------
(* setDefaults.                                                            *)

Prepended(names) == IF PluginName \in ToSet(names) THEN names ELSE <<PluginName>> \o names

\* Seeded fault: the evictor's config is added, its filters are not enabled.
setDefaultEvictorConfigOnly(profile) == [profile EXCEPT !.configs = Prepended(@)]

setDefaultEvictor(profile) ==
    [profile EXCEPT !.filter = Prepended(@), !.preEvictionFilter = Prepended(@), !.configs = Prepended(@)]

newPluginConfigArgs ==
    [legacy |-> {}, defaultDisabled |-> <<>>, extraEnabled |-> <<>>, storageClasses |-> {},
     priorityThreshold |-> [value |-> Nil, name |-> ""], labelSelector |-> {},
     namespaceLabelSelector |-> {}, nodeFit |-> FALSE, nodeSelector |-> {},
     minReplicas |-> 0, minPodAge |-> Nil, noEvictionPolicy |-> ""]

ConfiguredEvictor(profile, args) ==
    IF PluginName \in ToSet(profile.configs) THEN args ELSE newPluginConfigArgs

\* Whether or not the threshold will be used, it has to be one.
ThresholdResolves(args, cluster) ==
    HasThreshold(args) =>
        /\ \/ args.priorityThreshold.value # Nil
           \/ args.priorityThreshold.name \in DOMAIN cluster.priorityClasses
        /\ GetPriorityValueFromPriorityThreshold(args, cluster) <= SystemCriticalPriority

\* The class is looked up once, when the policy is loaded.
WithThreshold(args, cluster) ==
    [args EXCEPT !.priorityThreshold =
        [value |-> IF HasThreshold(args) THEN GetPriorityValueFromPriorityThreshold(args, cluster)
                   ELSE SystemCriticalPriority,
         name |-> ""]]

----------------------------------------------------------------------------
(* NewProfile and newDescheduler.                                          *)

\* Every enabled plugin implements its extension point, and has a config to
\* be built from.
NewProfileSucceeds(profile) ==
    /\ ToSet(profile.deschedule) \subseteq DeschedulePlugin
    /\ ToSet(profile.balance) \subseteq BalancePlugin
    /\ ToSet(profile.filter) \subseteq EvictorPlugin
    /\ ToSet(profile.preEvictionFilter) \subseteq EvictorPlugin
    /\ ToSet(profile.deschedule \o profile.balance \o profile.filter \o profile.preEvictionFilter)
            \subseteq ToSet(profile.configs)

\* The usage sources the plugins of a policy can ask.
HandleOf(policy) ==
    LET sources == {policy.providers[i].source : i \in DOMAIN policy.providers}
    IN  [collector |-> policy.collector \/ "KubernetesMetrics" \in sources,
         prometheus |-> \E i \in DOMAIN policy.providers :
            policy.providers[i].source = "Prometheus" /\ policy.providers[i].url # ""]
============================================================================
