--------------------------- MODULE EvictionBudget ---------------------------
(***************************************************************************)
(* What the pod evictor promises for one eviction limit: the whole run, a  *)
(* node or a namespace.  It spends the limit on evictions done in the      *)
(* current cycle and on evictions in background it has requested and that  *)
(* are still outstanding; each is added one at a time and only while there *)
(* is room, and outstanding requests leave in any number when they end or  *)
(* time out.  A new cycle forgets the evictions done, never the requests.  *)
(***************************************************************************)
EXTENDS Integers, FiniteSets

CONSTANTS Members,  \* the pods the limit applies to
          Limit,    \* the limit
          NoLimit

VARIABLES evicted, outstanding

budgetVars == <<evicted, outstanding>>

Room == Limit # NoLimit => evicted + Cardinality(outstanding) < Limit

Init == evicted = 0 /\ outstanding = {}

Evict == Room /\ evicted' = evicted + 1 /\ UNCHANGED outstanding

Request(u) == Room /\ outstanding' = outstanding \cup {u} /\ UNCHANGED evicted

Resolve == outstanding' \subseteq outstanding /\ UNCHANGED evicted

NewCycle == evicted' = 0 /\ UNCHANGED outstanding

Restart == evicted' = 0 /\ outstanding' = {}

Next == Evict \/ (\E u \in Members : Request(u)) \/ Resolve \/ NewCycle \/ Restart

Spec == Init /\ [][Next]_budgetVars
=============================================================================
