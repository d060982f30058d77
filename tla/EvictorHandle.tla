---------------------------- MODULE EvictorHandle ----------------------------
(***************************************************************************)
(* The evictor as one run of a plugin sees it: the filters of the          *)
(* DefaultEvictor, and EvictPod's limits.  calls is the sequence of the    *)
(* requests made so far, [pod, result], limits a record [total, node,      *)
(* namespace] with Nil for a limit that is not set.  What happens inside   *)
(* EvictPod is module PodEvictor.                                          *)
(***************************************************************************)
EXTENDS DefaultEvictor

Results == {"ok", "total", "node", "namespace", "error"}

Evicted(calls) == {calls[i].pod : i \in {j \in 1..Len(calls) : calls[j].result = "ok"}}

Evictions(calls, P(_)) == Cardinality({i \in 1..Len(calls) : calls[i].result = "ok" /\ P(calls[i].pod)})

Full(limit, evictions) == limit # Nil /\ evictions + 1 > limit

\* What EvictPod may answer: the first limit that is reached, else what the
\* API server says.
Answers(limits, calls, p) ==
    LET anyPod(q) == TRUE
        sameNode(q) == q.node = p.node
        sameNamespace(q) == q.ns = p.ns
    IN  IF Full(limits.total, Evictions(calls, anyPod)) THEN {"total"}
        ELSE IF Full(limits.node, Evictions(calls, sameNode)) THEN {"node"}
        ELSE IF Full(limits.namespace, Evictions(calls, sameNamespace)) THEN {"namespace"}
        ELSE {"ok", "error"}

Result(calls, p, results) == \E i \in 1..Len(calls) : calls[i].pod = p /\ calls[i].result \in results
Requested(calls, p) == Result(calls, p, Results)
NodeFull(calls, n) == \E i \in 1..Len(calls) : calls[i].pod.node = n /\ calls[i].result = "node"
OutOfBudget(calls) == \E i \in 1..Len(calls) : calls[i].result = "total"
============================================================================
