---------------------------- MODULE UsageSources ----------------------------
(***************************************************************************)
(* Where LowNodeUtilization gets the usage of the nodes from, while        *)
(* descheduling cycles run: the metrics collector                          *)
(* (pkg/descheduler/metricscollector), or Prometheus with a token of the   *)
(* service account or of a secret (pkg/descheduler/                        *)
(* prom_client_controller.go).                                             *)
(*                                                                         *)
(* Locks make Collect, the reconcilers and prometheusClient atomic.  A     *)
(* client is the token it was made with.  Once steady, the cluster does    *)
(* not change and no call fails.                                           *)
(***************************************************************************)
EXTENDS Integers, FiniteSets

CONSTANTS
    Nodes,
    MaxUsage,     \* bound: the usage of a node, in the unit of the average
    Usages,       \* the usages a node can have
    Tokens,       \* tokens that are not empty
    MaxChanges    \* bound: changes of the cluster

\* No token or client, and a secret without a token.
None == "none"
Empty == ""

ASSUME UsageAssumption ==
    /\ MaxUsage \in Nat /\ Usages \subseteq 0..MaxUsage
    /\ {None, Empty} \cap Tokens = {}

VARIABLES
    source,      \* "collector", "inCluster" or "secret"
    steady,
    changes,
    live,        \* node -> what the metrics server would say
    listed,      \* the nodes in the lister
    averages,    \* mc.nodes: node -> the weighted average
    hasSynced,
    token,       \* the token of the service account or in the informer's secret
    client,      \* promClient
    current,     \* currentPrometheusAuthToken
    event,       \* an event of the secret that was not handled yet
    queue,       \* "idle", "queued", "working" or "requeued"
    retry,       \* a rate limited retry
    cycle,       \* "idle", "running", "checked" or "using"
    used         \* the client the plugin uses

world == <<source, steady, changes, live, listed, token>>
collector == <<averages, hasSynced>>
connection == <<client, current>>
work == <<event, queue, retry>>
vars == <<world, collector, connection, work, cycle, used>>

Init ==
    /\ source \in {"collector", "inCluster", "secret"}
    /\ steady = FALSE /\ changes = MaxChanges
    /\ live \in [Nodes -> IF source = "collector" THEN Usages ELSE {0}]
    /\ listed = IF source = "collector" THEN Nodes ELSE {}
    /\ averages = <<>> /\ hasSynced = FALSE
    /\ token \in CASE source = "collector" -> {None}
                   [] source = "inCluster" -> Tokens
                   [] OTHER -> Tokens \cup {None, Empty}
    /\ client = None /\ current = Empty
    /\ event = (source = "secret" /\ token # None)
    /\ queue = "idle" /\ retry = FALSE
    /\ cycle = "idle" /\ used = None

----------------------------------------------------------------------------
(* The cluster.                                                            *)

UsageChanges ==
    /\ source = "collector" /\ ~steady /\ changes > 0
    /\ changes' = changes - 1
    /\ \/ \E n \in Nodes, u \in Usages : live' = [live EXCEPT ![n] = u] /\ UNCHANGED listed
       \/ \E s \in SUBSET Nodes : listed' = s /\ UNCHANGED live
    /\ UNCHANGED <<source, steady, token, collector, connection, work, cycle, used>>

\* The kubelet rotates the token, or somebody changes or deletes the secret.
TokenChanges ==
    /\ source # "collector" /\ ~steady /\ changes > 0
    /\ changes' = changes - 1
    /\ token' \in (IF source = "secret" THEN Tokens \cup {None, Empty} ELSE Tokens) \ {token}
    /\ event' = (source = "secret")
    /\ UNCHANGED <<source, steady, live, listed, collector, connection, queue, retry, cycle, used>>

Settle ==
    /\ ~steady /\ steady' = TRUE
    /\ UNCHANGED <<source, changes, live, listed, token, collector, connection, work, cycle, used>>

----------------------------------------------------------------------------
(* The metrics collector.                                                  *)

\* Seeded fault: the average is truncated, not rounded.
weightedAverageTruncated(prev, value) == {(9 * prev + value) \div 10}

\* 0.9 * prev + 0.1 * value, rounded; halves may go either way, as 1 - 0.9 is
\* not exactly 0.1.
weightedAverage(prev, value) ==
    LET x == 9 * prev + value
    IN  IF x % 10 = 5 THEN {x \div 10, (x \div 10) + 1} ELSE {(x + 5) \div 10}

\* Every five seconds.  A node that cannot be read keeps its average, nodes
\* that are gone keep it too; without the list of nodes nothing happens.
Collect ==
    /\ source = "collector"
    /\ \E read \in IF steady THEN {listed} ELSE SUBSET listed :
        LET next(n) == CASE n \notin read -> {averages[n]}
                         [] n \notin DOMAIN averages -> {live[n]}
                         [] OTHER -> weightedAverage(averages[n], live[n])
            known == DOMAIN averages \cup read
        IN  averages' \in {a \in [known -> UNION {next(n) : n \in known}] : \A n \in known : a[n] \in next(n)}
    /\ hasSynced' = TRUE
    /\ UNCHANGED <<world, connection, work, cycle, used>>

----------------------------------------------------------------------------
(* The two controllers of the Prometheus client.                           *)

clearConnection == client' = None /\ current' = Empty

\* A client for token t, which may fail before the cluster is steady.
CreateClient(t) ==
    \/ client' = t /\ current' = t
    \/ ~steady /\ clearConnection

\* Seeded fault: the token of the service account is read once.
reconcileInClusterSATokenOnce ==
    IF current = Empty THEN CreateClient(token) ELSE UNCHANGED connection

\* At the start of a cycle, which is given up if this fails.
reconcileInClusterSAToken ==
    IF current = token THEN UNCHANGED connection ELSE CreateClient(token)

AddToQueue == queue' = CASE queue = "working" -> "requeued" [] queue = "idle" -> "queued" [] OTHER -> queue

eventHandler ==
    /\ event /\ event' = FALSE
    /\ AddToQueue
    /\ UNCHANGED <<world, collector, connection, retry, cycle, used>>

AddRateLimited ==
    /\ retry /\ retry' = FALSE
    /\ AddToQueue
    /\ UNCHANGED <<world, collector, connection, event, cycle, used>>

GetWorkItem ==
    /\ queue = "queued" /\ queue' = "working"
    /\ UNCHANGED <<world, collector, connection, event, retry, cycle, used>>

\* Seeded fault: a sync that failed is not tried again.
NeedsRetryNever == FALSE

\* sync fails without a secret, without a token in it and without a client.
NeedsRetry == token \in {None, Empty} \/ client' # token

sync ==
    CASE token \in {None, Empty} -> clearConnection
      [] current = token -> UNCHANGED connection
      [] OTHER -> CreateClient(token)

processNextWorkItem ==
    /\ queue \in {"working", "requeued"}
    /\ sync
    /\ retry' = (retry \/ NeedsRetry)
    /\ queue' = IF queue = "requeued" THEN "queued" ELSE "idle"
    /\ UNCHANGED <<world, collector, event, cycle, used>>

----------------------------------------------------------------------------
(* The descheduling cycle, as far as it uses Prometheus.                   *)

StartCycle ==
    /\ source # "collector" /\ cycle = "idle"
    /\ IF source = "inCluster"
       THEN \/ /\ reconcileInClusterSAToken
               /\ cycle' = IF client' = None THEN "idle" ELSE "running"
            \/ \* the token cannot be read
               /\ ~steady /\ UNCHANGED <<connection, cycle>>
       ELSE cycle' = "running" /\ UNCHANGED connection
    /\ UNCHANGED <<world, collector, work, used>>

\* usageClientForMetrics asks whether there is a client ...
CheckClient ==
    /\ cycle = "running"
    /\ cycle' = IF client = None THEN "idle" ELSE "checked"
    /\ UNCHANGED <<world, collector, connection, work, used>>

\* ... and asks for the client again to use it.
TakeClient ==
    /\ cycle = "checked"
    /\ cycle' = "using" /\ used' = client
    /\ UNCHANGED <<world, collector, connection, work>>

EndCycle ==
    /\ cycle = "using"
    /\ cycle' = "idle" /\ used' = None
    /\ UNCHANGED <<world, collector, connection, work>>

Cycle == StartCycle \/ CheckClient \/ TakeClient \/ EndCycle
Worker == eventHandler \/ AddRateLimited \/ GetWorkItem \/ processNextWorkItem

Next == UsageChanges \/ TokenChanges \/ Settle \/ Collect \/ Worker \/ Cycle

\* Collect runs every five seconds, cycles every interval; informers deliver
\* their events and the worker of the queue runs, as does the queue's timer.
Spec ==
    /\ Init /\ [][Next]_vars
    /\ WF_vars(Collect) /\ WF_vars(Cycle)
    /\ WF_vars(eventHandler) /\ WF_vars(AddRateLimited) /\ WF_vars(GetWorkItem) /\ WF_vars(processNextWorkItem)

----------------------------------------------------------------------------
(* Properties.                                                             *)

Distance(a, b) == IF a > b THEN a - b ELSE b - a
Wanted == IF token \in Tokens THEN token ELSE None

\* With a steady usage the average of every node comes within five units of it
\* and stays there, whatever it was before ("The difference between the limit
\* and computed average stops within 5 units", weightedAverage).
Converges ==
    (steady /\ source = "collector")
        ~> [](\A n \in listed : n \in DOMAIN averages /\ Distance(averages[n], live[n]) <= 5)

\* A change of the secret is never lost: as long as the client is not the one
\* for the secret's token, an event, a queued item or a retry is on its way
\* (eventHandler, sync, processNextWorkItem).
StaleIsPending ==
    source = "secret" /\ client # Wanted => event \/ retry \/ queue # "idle"

\* The plugin picks up a rotated token: once the token does not change any
\* more, cycles use a client made with it ("so that a rotated prometheus SA
\* token is picked up without restarting the process", resetUsageClient).
RotationPickedUp ==
    (steady /\ source # "collector") ~> [](cycle = "using" => used = token)

\* The plugin never works with a client that is not there: usageClientForMetrics
\* checks for it and returns "prometheus client not initialized".
ClientInitialized == cycle = "using" => used # None
=============================================================================
