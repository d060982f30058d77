---------------------------- MODULE MCPodEvictor ----------------------------
(***************************************************************************)
(* Two pod names; "a" can be used by two incarnations, a1 on node n1 and a2 *)
(* on node n2, both in namespace s1; b1 in s2 shares node n1 with a1.      *)
(***************************************************************************)
EXTENDS PodEvictor

CONSTANTS a1, a2, b1, a, b, n1, n2, s1, s2

MCNames == {a, b}
MCUids == {a1, a2, b1}
MCNodes == {n1, n2, NoNode}
MCNamespaces == {s1, s2}
MCNameOf == [u \in MCUids |-> IF u = b1 THEN b ELSE a]
MCNodeOf == [u \in MCUids |-> IF u = a2 THEN n2 ELSE n1]
MCNamespaceOf == [u \in MCUids |-> IF u = b1 THEN s2 ELSE s1]

\* The same with one name only.
MCOneName == {a}
MCIncarnations == {a1, a2}
MCOneNameOf == [u \in MCIncarnations |-> a]
MCOneNodeOf == [u \in MCIncarnations |-> MCNodeOf[u]]
MCOneNamespaceOf == [u \in MCIncarnations |-> s1]
=============================================================================
