--------------------------- MODULE MCUsageSources ---------------------------
(***************************************************************************)
(* Nodes with usages far enough apart for the average to get stuck on the  *)
(* way, and two tokens.                                                    *)
(***************************************************************************)
EXTENDS UsageSources

MCUsages == {0, 7, 24}
=============================================================================
