---------------------------- MODULE Descheduler ----------------------------
(***************************************************************************)
(* The life of a descheduler process (pkg/descheduler/descheduler.go,      *)
(* leaderelection.go, cmd/descheduler/app/server.go and the plugin loops   *)
(* of pkg/framework/profile/profile.go), for several replicas.             *)
(*                                                                         *)
(* A process has a main thread, which waits for the leader lease if it has *)
(* to and then renews it, and a worker, which bootstraps the descheduler   *)
(* and runs a descheduling loop every interval.  With leader election the  *)
(* worker is a goroutine of its own that is given the process's context,   *)
(* not the leader's.  A loop runs the plugins of all profiles one after    *)
(* the other; what a plugin does is the subject of other modules, here it  *)
(* evicts or not and fails or not.                                         *)
(***************************************************************************)
EXTENDS Integers, Sequences, FiniteSets, Functions

CONSTANTS
    Procs,           \* the replicas
    NoHolder,        \* the lease is free
    Profiles,        \* sequence of [deschedule, balance], sequences of plugins
    Configs,         \* the command lines and policies considered, see Config
    MaxEvictions,    \* evictions a cycle can make
    MaxFaults,       \* bound: bootstraps and loops that fail
    MaxLosses,       \* bound: leases lost
    MaxCrashes       \* bound: processes that die or are interrupted

\* The options the control flow depends on: an interval of 0 is a single run,
\* prometheus says that an in-cluster Prometheus token is reconciled.
Config == [leaderElect : BOOLEAN, dryRun : BOOLEAN, interval : {0, 1}, prometheus : BOOLEAN]

ASSUME DeschedulerAssumption ==
    /\ NoHolder \notin Procs
    /\ Configs \subseteq Config
    /\ {MaxEvictions, MaxFaults, MaxLosses, MaxCrashes} \subseteq Nat
    /\ Len(Profiles) > 0

VARIABLES
    config,      \* the configuration of the replicas
    lease,       \* the replica in the lease object
    main,        \* replica -> state of its main thread
    worker,      \* replica -> state of its worker
    pos,         \* replica -> extension point, profile and plugin to run next
    ran,         \* replica -> plugins run in this loop
    evicted,     \* replica -> the pod evictor's count
    budget

state == <<lease, main, worker, pos, ran, evicted, budget>>
vars == <<config, state>>
loopVars == <<pos, ran, evicted>>

Mains == {"start", "candidate", "leading", "released", "running", "exited"}
Workers == {"none", "bootstrap", "waiting", "profiles", "ending", "failed", "returned"}
Points == {"deschedule", "balance"}
NoPos == [ep |-> "none", profile |-> 0, plugin |-> 0]
FirstPos(ep) == [ep |-> ep, profile |-> 1, plugin |-> 1]

Spend(what) == budget[what] > 0 /\ budget' = [budget EXCEPT ![what] = @ - 1]
Set(f, p, v) == [f EXCEPT ![p] = v]

Init ==
    /\ config \in Configs
    /\ lease = NoHolder
    /\ main = [p \in Procs |-> "start"]
    /\ worker = [p \in Procs |-> "none"]
    /\ pos = [p \in Procs |-> NoPos]
    /\ ran = [p \in Procs |-> <<>>]
    /\ evicted = [p \in Procs |-> 0]
    /\ budget = [faults |-> MaxFaults, losses |-> MaxLosses, crashes |-> MaxCrashes]
-----------------------------------------------------------------------------
(***************************************************************************)
(* The main thread.                                                        *)
(***************************************************************************)
\* Run: clients, policy and eviction support (any of which may fail), then the
\* election, which dry-run mode leaves out, or the worker.
Run(p) ==
    /\ main[p] = "start"
    /\ \/ /\ Spend("faults")
          /\ main' = Set(main, p, "exited") /\ UNCHANGED worker
       \/ /\ config.leaderElect /\ config.interval = 0
          /\ main' = Set(main, p, "exited") /\ UNCHANGED <<worker, budget>>
       \/ /\ config.leaderElect /\ config.interval # 0 /\ ~config.dryRun
          /\ main' = Set(main, p, "candidate") /\ UNCHANGED <<worker, budget>>
       \/ /\ config.leaderElect => config.interval # 0 /\ config.dryRun
          /\ main' = Set(main, p, "running")
          /\ worker' = Set(worker, p, "bootstrap")
          /\ UNCHANGED budget
    /\ UNCHANGED <<lease, loopVars>>

\* OnStartedLeading starts the worker.
StartLeading(p) ==
    /\ main[p] = "candidate" /\ lease = NoHolder
    /\ lease' = p
    /\ main' = Set(main, p, "leading")
    /\ worker' = Set(worker, p, "bootstrap")
    /\ UNCHANGED <<loopVars, budget>>

\* The lease could not be renewed in time, or a signal came: ReleaseOnCancel
\* gives it up, if the API server can be reached, and RunOrDie returns.
LoseLease(p) ==
    /\ main[p] = "leading"
    /\ Spend("losses")
    /\ lease' \in {lease, NoHolder}
    /\ main' = Set(main, p, "released")
    /\ UNCHANGED <<worker, loopVars>>

\* The lease of a holder that does not renew it runs out.
Expire ==
    /\ lease # NoHolder /\ main[lease] # "leading"
    /\ lease' = NoHolder
    /\ UNCHANGED <<main, worker, loopVars, budget>>

Stop(p) ==
    /\ main' = Set(main, p, "exited")
    /\ worker' = Set(worker, p, "none")
    /\ pos' = Set(pos, p, NoPos)
    /\ ran' = Set(ran, p, <<>>)
    /\ evicted' = Set(evicted, p, 0)

\* Seeded fault: a replica that lost its lease does not exit.
ExitNotReleased(p) ==
    /\ main[p] = "running" /\ worker[p] \in {"failed", "returned"}
    /\ Stop(p)
    /\ UNCHANGED <<lease, budget>>

\* The main thread returns, and the process ends.
Exit(p) ==
    /\ \/ main[p] = "released"
       \/ main[p] = "running" /\ worker[p] \in {"failed", "returned"}
    /\ Stop(p)
    /\ UNCHANGED <<lease, budget>>

Crash(p) ==
    /\ main[p] # "exited"
    /\ Spend("crashes")
    /\ Stop(p)
    /\ UNCHANGED lease

\* A replica of a Deployment is started again.
Reboot(p) ==
    /\ main[p] = "exited" /\ config.interval # 0
    /\ main' = Set(main, p, "start")
    /\ UNCHANGED <<lease, worker, loopVars, budget>>
-----------------------------------------------------------------------------
(***************************************************************************)
(* The worker: RunDeschedulerStrategies.                                   *)
(***************************************************************************)
Goto(p, pc) == worker' = Set(worker, p, pc)

\* An error ends the worker; with leader election it is only logged.
BootstrapDescheduler(p) ==
    /\ worker[p] = "bootstrap"
    /\ \/ Goto(p, "waiting") /\ UNCHANGED budget
       \/ Goto(p, "failed") /\ Spend("faults")
    /\ UNCHANGED <<lease, main, loopVars>>

\* A signal cancels the context: no further loop begins.
Interrupted(p) ==
    /\ main[p] = "running" /\ worker[p] = "waiting"
    /\ Spend("crashes")
    /\ Goto(p, "returned")
    /\ UNCHANGED <<lease, main, loopVars>>


\* The token cannot be read and the iteration ends, or the counters are reset
\* and the profiles run, unless fewer than two nodes are ready.
BeginLoop(p) ==
    /\ worker[p] = "waiting"
    /\ \/ /\ config.prometheus /\ Spend("faults")
          /\ UNCHANGED <<worker, pos, ran, evicted>>
       \/ /\ \E e \in {"profiles", "ending"} :
               /\ Goto(p, e)
               /\ pos' = Set(pos, p, IF e = "profiles" THEN FirstPos("deschedule") ELSE NoPos)
          /\ evicted' = Set(evicted, p, 0)
          /\ ran' = Set(ran, p, <<>>)
          /\ UNCHANGED budget
    /\ UNCHANGED <<lease, main>>

Plugins(at) == Profiles[at.profile][at.ep]

\* RunDeschedulePlugins and RunBalancePlugins: an error of a plugin is kept for
\* the status, and the next one runs.
RunPlugin(p) ==
    LET at == pos[p] IN
    /\ worker[p] = "profiles" /\ at.plugin =< Len(Plugins(at))
    /\ ran' = Set(ran, p, Append(ran[p], at))
    /\ pos' = [pos EXCEPT ![p].plugin = @ + 1]
    /\ \E k \in evicted[p] .. MaxEvictions : evicted' = Set(evicted, p, k)
    /\ UNCHANGED <<lease, main, worker, budget>>

ProfileDone(p) == worker[p] = "profiles" /\ pos[p].plugin > Len(Plugins(pos[p]))

\* Seeded fault: each profile's balance plugins follow its deschedule plugins.
NextProfileBalanceEach(p) ==
    LET at == pos[p] IN
    /\ ProfileDone(p)
    /\ \/ /\ at.ep = "deschedule"
          /\ pos' = Set(pos, p, [at EXCEPT !.ep = "balance", !.plugin = 1])
          /\ UNCHANGED worker
       \/ /\ at.ep = "balance" /\ at.profile < Len(Profiles)
          /\ pos' = Set(pos, p, [ep |-> "deschedule", profile |-> at.profile + 1, plugin |-> 1])
          /\ UNCHANGED worker
       \/ /\ at.ep = "balance" /\ at.profile = Len(Profiles)
          /\ Goto(p, "ending") /\ UNCHANGED pos
    /\ UNCHANGED <<lease, main, ran, evicted, budget>>

\* runProfiles: a profile's error is logged, and the next profile runs; the
\* balance plugins of all profiles come after the deschedule plugins of all.
NextProfile(p) ==
    LET at == pos[p] IN
    /\ ProfileDone(p)
    /\ \/ /\ at.profile < Len(Profiles)
          /\ pos' = Set(pos, p, [at EXCEPT !.profile = @ + 1, !.plugin = 1])
          /\ UNCHANGED worker
       \/ /\ at.profile = Len(Profiles) /\ at.ep = "deschedule"
          /\ pos' = Set(pos, p, FirstPos("balance"))
          /\ UNCHANGED worker
       \/ /\ at.profile = Len(Profiles) /\ at.ep = "balance"
          /\ Goto(p, "ending") /\ UNCHANGED pos
    /\ UNCHANGED <<lease, main, ran, evicted, budget>>

\* Seeded fault: a single run goes on after a loop that succeeded.
EndLoopNeverCancels(p) ==
    /\ worker[p] = "ending"
    /\ Goto(p, "waiting")
    /\ UNCHANGED <<lease, main, loopVars, budget>>

\* The sandbox is restored in dry-run mode, which may fail; a loop that
\* succeeded ends a single run.
EndLoop(p) ==
    /\ worker[p] = "ending"
    /\ \/ config.dryRun /\ Spend("faults") /\ Goto(p, "waiting")
       \/ Goto(p, IF config.interval = 0 THEN "returned" ELSE "waiting") /\ UNCHANGED budget
    /\ UNCHANGED <<lease, main, loopVars>>
-----------------------------------------------------------------------------
WorkerStep(p) ==
    \/ BootstrapDescheduler(p) \/ Interrupted(p) \/ BeginLoop(p)
    \/ RunPlugin(p) \/ NextProfile(p) \/ EndLoop(p)

Next ==
    /\ UNCHANGED config
    /\ \/ \E p \in Procs :
            \/ Run(p) \/ StartLeading(p) \/ LoseLease(p)
            \/ Exit(p) \/ Crash(p) \/ Reboot(p)
            \/ WorkerStep(p)
       \/ Expire

Spec == Init /\ [][Next]_vars

\* Threads go on, leases run out, Deployments restart their replicas; a loop
\* finds two ready nodes again and again.
Fairness ==
    /\ WF_state(Expire)
    /\ \A p \in Procs :
         /\ WF_state(Run(p)) /\ WF_state(StartLeading(p)) /\ WF_state(Exit(p)) /\ WF_state(Reboot(p))
         /\ WF_state(WorkerStep(p))
         /\ SF_state(BeginLoop(p) /\ worker'[p] = "profiles")

FairSpec == Spec /\ Fairness
-----------------------------------------------------------------------------
Slots == UNION {{[ep |-> e, profile |-> i, plugin |-> j] : j \in 1 .. Len(Profiles[i][e]) + 1} :
                 e \in Points, i \in 1 .. Len(Profiles)}
Enabled == {x \in Slots : x.plugin =< Len(Plugins(x))}

TypeOK ==
    /\ config \in Configs
    /\ lease \in Procs \cup {NoHolder}
    /\ main \in [Procs -> Mains]
    /\ worker \in [Procs -> Workers]
    /\ \A p \in Procs : pos[p] \in Slots \cup {NoPos}
    /\ \A p \in Procs : ran[p] \in Seq(Enabled)
    /\ evicted \in [Procs -> 0 .. MaxEvictions]
    /\ budget \in [faults : Nat, losses : Nat, crashes : Nat]

\* A loop that runs the profiles at all runs every enabled plugin of every
\* profile once, whatever the plugins before it did, and every Deschedule
\* plugin before any Balance plugin, also of another profile (runProfiles,
\* RunDeschedulePlugins, RunBalancePlugins).
LoopRunsAll ==
    \A p \in Procs :
        /\ worker[p] = "ending" /\ pos[p] # NoPos
             => Range(ran[p]) = Enabled /\ Len(ran[p]) = Cardinality(Enabled)
        /\ \A i, j \in DOMAIN ran[p] :
             i < j => ~(ran[p][i].ep = "balance" /\ ran[p][j].ep = "deschedule")


\* A single run ends, however many loops fail before (RunDeschedulerStrategies).
SingleRunEnds == config.interval = 0 => \A p \in Procs : <>(main[p] = "exited")

Elected == config.leaderElect /\ config.interval # 0 /\ ~config.dryRun

\* Replicas take over from each other, after a crash or a lost lease: as long as
\* no leader's worker has ended with an error, again and again the plugins are
\* run by one that holds the lease (NewLeaderElection).
GoesOn ==
    Elected /\ [](\A p \in Procs : worker[p] # "failed")
        => []<>(\E p \in Procs : main[p] = "leading" /\ worker[p] = "profiles")

\* "we don't want to run descheduler pods simultaneously".
OneActive == Cardinality({p \in Procs : worker[p] = "profiles"}) =< 1
=============================================================================
