--------------------------- MODULE MCDescheduler ---------------------------
(***************************************************************************)
(* Two replicas and two profiles, of which one has no Balance plugin.      *)
(***************************************************************************)
EXTENDS Descheduler

CONSTANTS p1, p2

MCProcs == {p1, p2}
MCProfiles == << [deschedule |-> <<"PodLifeTime">>, balance |-> <<"LowNodeUtilization">>],
                 [deschedule |-> <<"RemoveFailedPods">>, balance |-> <<>>] >>
MCElected == {c \in Config : c.leaderElect /\ ~c.dryRun /\ c.interval = 1 /\ ~c.prometheus}
=============================================================================
