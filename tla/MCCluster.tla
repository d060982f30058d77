------------------------------ MODULE MCCluster ------------------------------
(***************************************************************************)
(* Pods, nodes and arguments with every field at its default, from which   *)
(* the instances are made with EXCEPT.                                     *)
(***************************************************************************)
EXTENDS DefaultEvictor

none == {}
perClass(v) == [c \in Classes |-> v]
rs == [kind |-> "ReplicaSet", uid |-> "rs"]

aPod ==
    [name |-> "p", ns |-> "ns1", node |-> "n1", labels |-> none, annotations |-> none,
     owners |-> {rs}, phase |-> "Running", reason |-> "", terminating |-> FALSE,
     priority |-> Nil, qos |-> "Burstable", age |-> 10, started |-> 10,
     waiting |-> perClass({}), terminated |-> perClass({}), exits |-> perClass({}),
     restarts |-> perClass(0), conditions |-> none, volumes |-> none, claims |-> none,
     resourceClaims |-> FALSE, requests |-> [cpu |-> 1], nodeSelector |-> none,
     required |-> <<>>, preferred |-> none, anti |-> none, tolerations |-> <<>>]

aNode ==
    [name |-> "n1", labels |-> none, taints |-> <<>>, unschedulable |-> FALSE,
     ready |-> TRUE, allocatable |-> [cpu |-> 4, pods |-> 4]]

aCluster ==
    [nodes |-> {aNode}, pdbs |-> none, claims |-> [c \in {} |-> ""],
     namespaces |-> [n \in {"ns1", "ns2"} |-> {}], priorityClasses |-> [high |-> 100]]

evictorDefaults ==
    [legacy |-> none, defaultDisabled |-> <<>>, extraEnabled |-> <<>>, storageClasses |-> none,
     priorityThreshold |-> [value |-> Nil, name |-> ""], labelSelector |-> none,
     namespaceLabelSelector |-> none, nodeFit |-> FALSE, nodeSelector |-> none,
     minReplicas |-> 0, minPodAge |-> Nil, noEvictionPolicy |-> ""]

noLimits == [total |-> Nil, node |-> Nil, namespace |-> Nil]
============================================================================
