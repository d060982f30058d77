------------------------ MODULE MCKubeClientSandbox ------------------------
(***************************************************************************)
(* Two pods that are created at most once each, or one name with two       *)
(* incarnations and a second name.                                         *)
(***************************************************************************)
EXTENDS KubeClientSandbox

CONSTANTS a, b, a1, a2, b1

MCNames == {a, b}
MCOnce == {a1, b1}
MCTwice == {a1, a2, b1}
MCNameOfOnce == [u \in MCOnce |-> IF u = b1 THEN b ELSE a]
MCNameOfTwice == [u \in MCTwice |-> IF u = b1 THEN b ELSE a]
=============================================================================
