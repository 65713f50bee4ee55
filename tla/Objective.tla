------------------------------- MODULE Objective -------------------------------
(***************************************************************************)
(* One objective: a graph of build nodes and their integration, and        *)
(* whoever drives it.                                                      *)
(*                                                                         *)
(*   objective/orchestrator.mjs   runObjective, the run of one node, the   *)
(*                                integration, resumeObjectiveNodes, cancel*)
(*   objective/graph.mjs          what is ready, complete, deadlocked      *)
(*   objective/runner-lease.mjs   which process drives it                  *)
(*   hq/objective-reconciler.mjs  the sweep at boot and every ten minutes  *)
(*   founderControlPlane.mjs      the founder's retry and answers          *)
(*                                                                         *)
(* runObjective is a function: a Driver is one call of it, in the          *)
(* dashboard or in another process (the intent worker, a terminal).        *)
(* JavaScript runs a section without await to its end, so a driver in such *)
(* a section excludes the others of its process (Clear); other processes   *)
(* and a kill may come between any two transactions.                       *)
(*                                                                         *)
(* A node's task is TaskWorkflow seen from outside: what a run of it       *)
(* leaves behind (`yielded' is an active task a delegate still works on).  *)
(* Abstracted: contracts, branches and worktrees, metrics, events, the     *)
(* wakeups observed at the end of a run, an integration skipped by hand.   *)
(***************************************************************************)
EXTENDS Naturals, FiniteSets

CONSTANTS
  Node, DependsOn,      \* the build graph
  Driver, ProcessOf,    \* calls of runObjective, and the process of each
  MaxConcurrent,        \* nodes one run has in flight
  TaskOutcome,          \* what runs of a task leave behind here
  MaxStarts,            \* runs, retries, answers and cancels somebody asks for
  MaxRetries,           \* automatic retries per task
  MaxPeriodic,          \* maxPeriodicResumes, per process lifetime
  MaxKills,             \* process deaths, the dashboard's restarts among them
  MayFail               \* git, GitHub or the runner may throw

Dashboard == "dashboard"
Integ     == "integration"
Part      == Node \cup {Integ}

ASSUME ObjectiveAssumption ==
  /\ Integ \notin Node /\ Node # {}
  /\ DependsOn \in [Node -> SUBSET Node]
  /\ \E rank \in [Node -> 1 .. Cardinality(Node)] :
       \A n \in Node : \A m \in DependsOn[n] : rank[m] < rank[n]
  /\ MaxConcurrent \in Nat \ {0}
  /\ {MaxStarts, MaxRetries, MaxPeriodic, MaxKills} \subseteq Nat
  /\ TaskOutcome \subseteq {"yielded", "infra", "decision", "hard", "merge-ready"}
  /\ MayFail \in BOOLEAN

VARIABLES
  status,   \* status of the objective
  node,     \* status of each node and of the integration
  blocker,  \* the kind of its blocker: classifyObjectiveNodeBlocker
  linked,   \* the parts whose statePath is recorded
  runner,   \* the process that stamped the objective
  task,     \* part -> what its task state says
  stale,    \* parts whose task nobody wrote for 90 minutes
  pc,       \* driver -> where it is in runObjective
  flight,   \* driver -> node -> where its run is
  list,     \* driver -> the ready nodes it launches, or the runs it awaits
  saw,      \* driver -> it read that the objective was cancelled
  boot,     \* the dashboard comes up: it sweeps before it answers anybody
  swept,    \* the task the auto-retry sweep is running, if any
  visited,  \* the tasks this sweep has run
  count     \* starts, kills, periodic resumes, retries per task

graph == <<status, node, blocker, linked, runner>>
tasks == <<task, stale, swept, visited>>
calls == <<pc, flight, list, saw>>
vars  == <<graph, tasks, calls, boot, count>>

Init ==
  /\ status = "active" /\ runner = "none"
  /\ node = [n \in Part |-> "pending"] /\ blocker = [n \in Part |-> "none"]
  /\ linked = {} /\ task = [n \in Part |-> "absent"] /\ stale = {}
  /\ swept = {} /\ visited = {}
  /\ pc = [d \in Driver |-> "idle"]
  /\ flight = [d \in Driver |-> [n \in Node |-> "none"]]
  /\ list = [d \in Driver |-> {}] /\ saw = [d \in Driver |-> FALSE]
  /\ boot = FALSE
  /\ count = [starts |-> 0, kills |-> 0, periodic |-> 0, retries |-> [n \in Part |-> 0]]

-----------------------------------------------------------------------------
(* graph.mjs                                                               *)

Satisfied(n) == node[n] = "gate-satisfied"
Stopped(n)   == node[n] \in {"blocked", "failed"}

\* Mutant: a dependency that is not blocked will do.
ReadyNodes_Optimistic ==
  {n \in Node : node[n] = "pending" /\ \A m \in DependsOn[n] : ~Stopped(m) /\ node[m] # "pending"}

ReadyNodes == {n \in Node : node[n] = "pending" /\ \A m \in DependsOn[n] : Satisfied(m)}

Below[n \in Node] ==
  LET above == {m \in Node : n \in DependsOn[m]} IN above \cup UNION {Below[m] : m \in above}

BuildNodesComplete == \A n \in Node : Satisfied(n)

IsDeadlocked ==
  /\ \A n \in Node : node[n] # "running"
  /\ ReadyNodes = {} /\ ~BuildNodesComplete
  /\ \E n \in Node : Stopped(n) \/ node[n] = "blocked-by-dep"

\* A node is given a status; what depends on it and still waits is stopped.
StopBelow(nodes, n) ==
  [m \in Part |-> IF m \in Node /\ m \in Below[n] /\ nodes[m] = "pending"
                  THEN "blocked-by-dep" ELSE nodes[m]]

Block(n, to, why) ==
  /\ node' = StopBelow([node EXCEPT ![n] = to], n)
  /\ blocker' = [blocker EXCEPT ![n] = why]

\* Nodes that wait for a dependency which is no longer blocked or failed.
Unblocked(nodes) ==
  [n \in Part |-> IF n \in Node /\ nodes[n] = "blocked-by-dep"
                     /\ \A m \in DependsOn[n] : nodes[m] \notin {"blocked", "failed"}
                  THEN "pending" ELSE nodes[n]]

-----------------------------------------------------------------------------
(* Drivers and processes                                                   *)

Process == {ProcessOf[d] : d \in Driver} \cup {Dashboard}
InFlight(d) == {n \in Node : flight[d][n] # "none"}
Running(p)  == {d \in Driver : ProcessOf[d] = p /\ pc[d] # "idle"}

\* Places where a run awaits something; everywhere else it holds its process.
Awaiting(d) == /\ pc[d] \in {"idle", "await", "drain", "merge"}
               /\ \A n \in Node : flight[d][n] \in {"none", "work"}
MidSweep == visited # {} /\ swept = {}  \* between two tasks of the auto-retry sweep
Idle(p)  == \A d \in Driver : ProcessOf[d] = p => Awaiting(d)
Clear(p) == Idle(p) /\ ~(p = Dashboard /\ (MidSweep \/ boot))
Turn(d)  == /\ \A e \in Driver \ {d} : ProcessOf[e] = ProcessOf[d] => Awaiting(e)
            /\ ~(ProcessOf[d] = Dashboard /\ MidSweep)

Goto(d, to)    == pc' = [pc EXCEPT ![d] = to]
Fly(d, n, to)  == flight' = [flight EXCEPT ![d][n] = to]
At(d, here)    == pc[d] = here /\ Turn(d)

\* runObjective: a cancelled objective is not even stamped.
Begin(d, now) ==
  IF now = "cancelled" THEN UNCHANGED <<pc, runner>>
  ELSE Goto(d, "start") /\ runner' = ProcessOf[d]

-----------------------------------------------------------------------------
(* driveObjective                                                          *)

\* A node whose publication failed after its seven stages is published again.
Start(d) ==
  /\ At(d, "start")
  /\ LET due == {n \in Node : /\ node[n] = "blocked" /\ blocker[n] = "publish"
                              /\ n \in linked /\ task[n] = "merge-ready"}
     IN IF status = "cancelled" THEN Goto(d, "leave") /\ UNCHANGED <<node, blocker>>
        ELSE \E done \in SUBSET due :
               /\ MayFail \/ done = due
               /\ node' = [n \in Part |->
                    IF n \in done THEN "gate-satisfied"
                    ELSE IF node[n] = "pending" /\ \E m \in due \ done : n \in Node /\ n \in Below[m]
                         THEN "blocked-by-dep" ELSE node[n]]
               /\ blocker' = [n \in Part |-> IF n \in done THEN "none" ELSE blocker[n]]
               /\ Goto(d, "resume")
  /\ UNCHANGED <<status, linked, runner, tasks, flight, list, saw, boot, count>>

Active(n) == task[n] \in {"active", "yielded"}

\* One transaction: nodes whose task is active again, what waited for them, and
\* the objective is active, whatever it was.
Resume(d) ==
  /\ At(d, "resume")
  /\ LET back == {n \in Node : Stopped(n) /\ n \in linked /\ Active(n)}
     IN /\ node' = Unblocked([n \in Part |-> IF n \in back THEN "pending" ELSE node[n]])
        /\ blocker' = [n \in Part |-> IF n \in back THEN "none" ELSE blocker[n]]
  /\ status' = "active"
  /\ Goto(d, "loop")
  /\ UNCHANGED <<linked, runner, tasks, flight, list, saw, boot, count>>

\* The head of the loop: one read of the objective.
Loop(d) ==
  /\ At(d, "loop")
  /\ IF status = "cancelled" \/ BuildNodesComplete \/ (IsDeadlocked /\ InFlight(d) = {})
     THEN Goto(d, "drain") /\ UNCHANGED list
     ELSE Goto(d, "launch") /\ list' = [list EXCEPT ![d] = ReadyNodes \ InFlight(d)]
  /\ UNCHANGED <<graph, tasks, flight, saw, boot, count>>

MoreToLaunch(d) == list[d] # {} /\ Cardinality(InFlight(d)) < MaxConcurrent

Launch(d) ==
  /\ At(d, "launch") /\ MoreToLaunch(d)
  /\ \A n \in Node : flight[d][n] \in {"none", "work"}
  /\ \E n \in list[d] :
       /\ node' = [node EXCEPT ![n] = "running"]
       /\ Fly(d, n, "setup")
       /\ list' = [list EXCEPT ![d] = @ \ {n}]
  /\ UNCHANGED <<status, blocker, linked, runner, tasks, pc, saw, boot, count>>

\* Mutant: a node somebody runs is waited for.
Await_AnyRun(d) ==
  /\ At(d, "launch") /\ ~MoreToLaunch(d)
  /\ \A n \in Node : flight[d][n] \in {"none", "work"}
  /\ IF \A n \in Node : node[n] # "running" THEN Goto(d, "drain") ELSE Goto(d, "await")
  /\ list' = [list EXCEPT ![d] = InFlight(d)]
  /\ UNCHANGED <<graph, tasks, flight, saw, boot, count>>

Await(d) ==
  /\ At(d, "launch") /\ ~MoreToLaunch(d)
  /\ \A n \in Node : flight[d][n] \in {"none", "work"}
  /\ IF InFlight(d) = {} THEN Goto(d, "drain") ELSE Goto(d, "await")
  /\ list' = [list EXCEPT ![d] = InFlight(d)]
  /\ UNCHANGED <<graph, tasks, flight, saw, boot, count>>

\* Promise.race: one of the runs it awaits is over.
Wake(d) ==
  /\ At(d, "await") /\ Awaiting(d) /\ InFlight(d) # list[d]
  /\ Goto(d, "loop")
  /\ UNCHANGED <<graph, tasks, flight, list, saw, boot, count>>

\* Promise.allSettled, then one read.
Drain(d) ==
  /\ At(d, "drain") /\ InFlight(d) = {}
  /\ saw' = [saw EXCEPT ![d] = status = "cancelled"]
  /\ Goto(d, IF status # "cancelled" /\ BuildNodesComplete THEN "integrate" ELSE "final")
  /\ list' = [list EXCEPT ![d] = {}]
  /\ UNCHANGED <<graph, tasks, flight, boot, count>>

FinalStatus ==
  IF Satisfied(Integ) THEN "complete"
  ELSE IF BuildNodesComplete THEN "integration-blocked"
  ELSE IF IsDeadlocked THEN "blocked" ELSE "incomplete"

\* `cancelled' was read before the integration ran.
Final(d) ==
  /\ At(d, "final")
  /\ status' = IF saw[d] THEN status ELSE FinalStatus
  /\ Goto(d, "leave")
  /\ UNCHANGED <<node, blocker, linked, runner, tasks, flight, list, saw, boot, count>>

\* The last run of a process takes its own stamp away.
Leave(d) ==
  /\ At(d, "leave")
  /\ Goto(d, "idle")
  /\ saw' = [saw EXCEPT ![d] = FALSE]
  /\ runner' = IF Running(ProcessOf[d]) = {d} /\ runner = ProcessOf[d] THEN "none" ELSE runner
  /\ UNCHANGED <<status, node, blocker, linked, tasks, flight, list, boot, count>>

-----------------------------------------------------------------------------
(* runNode                                                                 *)

\* Anything that throws before or during the run; only a missing founder key
\* stops what depends on the node.
Throw(d, n) ==
  /\ Turn(d)
  /\ \/ flight[d][n] = "setup" /\ MayFail
     \/ flight[d][n] = "work" /\ Awaiting(d) /\ MayFail
     \/ flight[d][n] = "setup" /\ n \notin linked /\ task[n] # "absent"  \* "Task state already exists"
  /\ \/ Block(n, "blocked", "decision") /\ flight[d][n] = "setup" /\ task[n] = "absent"
     \/ node' = [node EXCEPT ![n] = "blocked"] /\ blocker' = [blocker EXCEPT ![n] = "decision"]
  /\ Fly(d, n, "none")
  /\ UNCHANGED <<status, linked, runner, tasks, pc, list, saw, boot, count>>

\* initializeTask, or the task the node already has.
Setup(d, n) ==
  /\ Turn(d) /\ flight[d][n] = "setup"
  /\ \/ n \in linked /\ Fly(d, n, "work") /\ UNCHANGED task
     \/ /\ n \notin linked /\ task[n] = "absent"
        /\ task' = [task EXCEPT ![n] = "active"]
        /\ Fly(d, n, "made")
  /\ stale' = stale \ {n}
  /\ UNCHANGED <<graph, swept, visited, pc, list, saw, boot, count>>

Link(d, n) ==
  /\ Turn(d) /\ flight[d][n] = "made"
  /\ linked' = linked \cup {n}
  /\ Fly(d, n, "work")
  /\ stale' = stale \ {n}
  /\ UNCHANGED <<status, node, blocker, runner, task, swept, visited, pc, list, saw, boot, count>>

\* runToTerminal returned.  An infrastructure blocker is restated as a decision
\* tagged `infra'; a merge-ready branch is published.
Settle(d, n) ==
  /\ Turn(d) /\ Awaiting(d) /\ flight[d][n] = "work"
  /\ CASE task[n] = "yielded"  -> /\ node' = [node EXCEPT ![n] = "running"]
                                  /\ blocker' = [blocker EXCEPT ![n] = "none"]
       [] task[n] = "infra"    -> Block(n, "blocked", "infra")
       [] task[n] = "decision" -> Block(n, "blocked", "decision")
       [] task[n] = "hard"     -> Block(n, "failed", "hard")
       [] task[n] = "merge-ready" ->
            \/ /\ node' = [node EXCEPT ![n] = "gate-satisfied"]
               /\ blocker' = [blocker EXCEPT ![n] = "none"]
            \/ MayFail /\ Block(n, "blocked", "publish")
       [] OTHER -> FALSE
  /\ Fly(d, n, "none")
  /\ UNCHANGED <<status, linked, runner, tasks, pc, list, saw, boot, count>>

-----------------------------------------------------------------------------
(* runIntegration                                                          *)

\* The task is made, or found; then the integration is patched.
Integrate(d) ==
  /\ At(d, "integrate")
  /\ \/ Integ \in linked /\ Goto(d, "patch") /\ UNCHANGED task
     \/ /\ Integ \notin linked /\ task[Integ] = "absent"
        /\ task' = [task EXCEPT ![Integ] = "active"] /\ Goto(d, "patch")
     \/ /\ Integ \notin linked /\ task[Integ] # "absent"  \* throws out of the run
        /\ Goto(d, "leave") /\ UNCHANGED task
  /\ UNCHANGED <<graph, stale, swept, visited, flight, list, saw, boot, count>>

StartIntegration(d) ==
  /\ At(d, "patch")
  /\ node' = [node EXCEPT ![Integ] = "running"]
  /\ linked' = linked \cup {Integ}
  /\ Goto(d, "merge")
  /\ stale' = stale \ {Integ}
  /\ UNCHANGED <<status, blocker, runner, task, swept, visited, flight, list, saw, boot, count>>

\* The runner parks the dispatch as a decision of the task (blockDispatch) and
\* throws on; the integration says the same.
MergeConflict(d) ==
  /\ At(d, "merge") /\ task[Integ] = "active" /\ MayFail
  /\ task' = [task EXCEPT ![Integ] = "decision"] /\ stale' = stale \ {Integ}
  /\ node' = [node EXCEPT ![Integ] = "blocked"]
  /\ blocker' = [blocker EXCEPT ![Integ] = "decision"]
  /\ Goto(d, "final")
  /\ UNCHANGED <<status, linked, runner, swept, visited, flight, list, saw, boot, count>>

\* Any other error leaves runObjective without a final status.
IntegrationThrows(d) ==
  /\ At(d, "merge") /\ MayFail
  /\ Goto(d, "leave")
  /\ UNCHANGED <<graph, tasks, flight, list, saw, boot, count>>

\* Mutant: blocked, for no stated reason.
SettleIntegration_NoReason(d) ==
  /\ At(d, "merge") /\ task[Integ] # "active"
  /\ node' = [node EXCEPT ![Integ] = CASE task[Integ] = "yielded" -> "running"
                                       [] task[Integ] = "merge-ready" -> "gate-satisfied"
                                       [] OTHER -> "blocked"]
  /\ blocker' = [blocker EXCEPT ![Integ] = IF task[Integ] = "decision" THEN "decision" ELSE "none"]
  /\ Goto(d, "final")
  /\ UNCHANGED <<status, linked, runner, tasks, flight, list, saw, boot, count>>

\* integrationOutcome.
SettleIntegration(d) ==
  /\ At(d, "merge") /\ task[Integ] # "active"
  /\ node' = [node EXCEPT ![Integ] = CASE task[Integ] = "yielded" -> "running"
                                       [] task[Integ] = "merge-ready" -> "gate-satisfied"
                                       [] OTHER -> "blocked"]
  /\ blocker' = [blocker EXCEPT ![Integ] =
                   IF task[Integ] \in {"yielded", "merge-ready"} THEN "none" ELSE task[Integ]]
  /\ Goto(d, "final")
  /\ UNCHANGED <<status, linked, runner, tasks, flight, list, saw, boot, count>>

-----------------------------------------------------------------------------
(* The tasks                                                               *)

\* Somebody runs the task: a driver or the auto-retry sweep.
Worked(n) ==
  \/ n \in swept
  \/ \E d \in Driver : IF n = Integ THEN pc[d] = "merge" ELSE flight[d][n] = "work"

\* A run of the task comes to its end; a delegate's result may have arrived.  What
\* the sweep then writes to the objective (reconcileObjectiveNode) goes to its JSON
\* export; everybody here reads the store.
TaskEnds(n) ==
  /\ Active(n) /\ Worked(n)
  /\ \E outcome \in TaskOutcome : task' = [task EXCEPT ![n] = outcome]
  /\ swept' = swept \ {n} /\ stale' = stale \ {n}
  /\ UNCHANGED <<graph, visited, calls, boot, count>>

\* Time passes over a task nobody runs.
Ages(n) ==
  /\ Active(n) /\ ~Worked(n) /\ n \notin stale
  /\ stale' = stale \cup {n}
  /\ UNCHANGED <<graph, task, swept, visited, calls, boot, count>>

\* The auto-retry sweep takes the tasks one after the other, each once, never a
\* delegate's; which objectives are cancelled it read before the first.
AutoRetry(n) ==
  /\ Idle(Dashboard) /\ ~boot /\ swept = {} /\ n \notin visited
  /\ status # "cancelled" \/ visited # {}
  /\ task[n] = "infra" \/ (task[n] = "active" /\ n \in stale)
  /\ count.retries[n] < MaxRetries
  /\ task' = [task EXCEPT ![n] = "active"]
  /\ swept' = {n} /\ visited' = visited \cup {n} /\ stale' = stale \ {n}
  /\ count' = [count EXCEPT !.retries[n] = @ + 1]
  /\ UNCHANGED <<graph, calls, boot>>

SweepEnds ==
  /\ MidSweep
  /\ visited' = {}
  /\ UNCHANGED <<graph, task, stale, swept, calls, boot, count>>

-----------------------------------------------------------------------------
(* resumeObjectiveNodes, and who calls it                                  *)

\* Never a decision, a hard failure, a delegate's task, or one whose runner may
\* be alive.
Resumable(parts, ownerGone) ==
  {n \in parts : /\ blocker[n] \in {"none", "infra"} /\ n \in linked
                 /\ task[n] = "infra" \/ (task[n] = "active" /\ (ownerGone \/ n \in stale))}

\* The dispatch is dropped, the stage re-armed, the node pending.
ResumeNodes(parts) ==
  /\ task' = [n \in Part |-> IF n \in parts THEN "active" ELSE task[n]]
  /\ stale' = stale \ parts
  /\ blocker' = [n \in Part |-> IF n \in parts THEN "none" ELSE blocker[n]]
  /\ LET pending == [n \in Part |-> IF n \in parts THEN "pending" ELSE node[n]]
     IN IF parts = {} THEN UNCHANGED <<node, status>>
        ELSE node' = Unblocked(pending) /\ status' = "active"
  /\ UNCHANGED <<linked, swept, visited>>

\* strandedNodes
Ready == ReadyNodes \cup (IF node[Integ] = "pending" /\ BuildNodesComplete THEN {Integ} ELSE {})
Abandoned == {n \in Part : node[n] = "running"}
Revivable == {n \in Part : Stopped(n) /\ n \in linked /\ Active(n)}

\* runnerStatus
OwnerGone == runner = "gone"
OwnerLive == runner \in Process

\* Mutant: the sweep does not ask who drives the objective.
Reconcile_IgnoresOwner(d) ==
  /\ ProcessOf[d] = Dashboard /\ Idle(Dashboard) /\ ~MidSweep /\ pc[d] = "idle"
  /\ status \notin {"cancelled", "complete"}
  /\ LET revived == Resumable(Abandoned, TRUE) IN
     /\ Ready \cup revived \cup Revivable # {}
     /\ count.periodic < MaxPeriodic /\ count' = [count EXCEPT !.periodic = @ + 1]
     /\ ResumeNodes(revived)
     /\ boot' = FALSE
  /\ Begin(d, status)
  /\ UNCHANGED <<flight, list, saw>>

\* Mutant: the sweep runs at boot only.
Reconcile_BootOnly(d) ==
  /\ ProcessOf[d] = Dashboard /\ Idle(Dashboard) /\ ~MidSweep /\ pc[d] = "idle"
  /\ status \notin {"cancelled", "complete"} /\ ~OwnerLive /\ boot
  /\ LET revived == Resumable(Abandoned, OwnerGone) IN
     /\ Ready \cup revived \cup Revivable # {}
     /\ ResumeNodes(revived)
     /\ boot' = FALSE
  /\ Begin(d, status)
  /\ UNCHANGED <<count, flight, list, saw>>

\* resumeStrandedObjectives at boot, or from the timer for an orphan.
Reconcile(d) ==
  /\ ProcessOf[d] = Dashboard /\ Idle(Dashboard) /\ ~MidSweep /\ pc[d] = "idle"
  /\ status \notin {"cancelled", "complete"} /\ ~OwnerLive
  /\ LET revived == Resumable(Abandoned, OwnerGone) IN
     /\ Ready \cup revived \cup Revivable # {}
     /\ \/ boot /\ UNCHANGED count
        \/ /\ ~boot /\ (OwnerGone \/ Abandoned # {}) /\ count.periodic < MaxPeriodic
           /\ count' = [count EXCEPT !.periodic = @ + 1]
     /\ ResumeNodes(revived)
     /\ boot' = FALSE
  /\ Begin(d, status)
  /\ UNCHANGED <<flight, list, saw>>

\* The sweep at boot found nothing to resume.
BootSweepEnds ==
  /\ boot
  /\ \/ status \in {"cancelled", "complete"} \/ OwnerLive
     \/ Ready \cup Resumable(Abandoned, OwnerGone) \cup Revivable = {}
  /\ boot' = FALSE
  /\ UNCHANGED <<graph, tasks, calls, count>>

Asked == count.starts < MaxStarts /\ count' = [count EXCEPT !.starts = @ + 1]

\* A run somebody asks for: the first one, a script, an approval.
Run(d) ==
  /\ Asked /\ Clear(ProcessOf[d]) /\ pc[d] = "idle"
  /\ Begin(d, status)
  /\ UNCHANGED <<status, node, blocker, linked, tasks, flight, list, saw, boot>>

\* handleObjectiveRetry.  Its recovery lock and job record are refused only for
\* minutes; what remains is that nothing of the objective runs.
LiveSibling == \E n \in Abandoned \cap linked :
                 task[n] = "yielded" \/ (task[n] = "active" /\ n \notin stale)
RecoveryPlan ==
  {n \in Part : \/ blocker[n] = "infra" /\ task[n] \in {"absent", "infra", "merge-ready"}
                \/ blocker[n] = "infra" /\ task[n] = "active" /\ n \in stale
                \/ blocker[n] = "none" /\ node[n] = "running" /\ n \in linked
                   /\ task[n] = "active" /\ n \in stale}

Retry(d) ==
  /\ Asked /\ Clear(ProcessOf[d]) /\ pc[d] = "idle"
  /\ status # "cancelled" /\ ~LiveSibling
  /\ LET resumed == Resumable(RecoveryPlan, FALSE) IN
     /\ resumed # {}
     /\ ResumeNodes(resumed)
  /\ Begin(d, status)
  /\ UNCHANGED <<flight, list, saw, boot>>

\* resolveFounderDecision, clearObjectiveNodeAfterDecision, then a run.
Answer(d, n) ==
  /\ Asked /\ Clear(ProcessOf[d]) /\ pc[d] = "idle"
  /\ task[n] = "decision"
  /\ task' = [task EXCEPT ![n] = "active"]
  /\ IF node[n] = "blocked" \/ blocker[n] # "none"
     THEN /\ node' = [node EXCEPT ![n] = "pending"]
          /\ blocker' = [blocker EXCEPT ![n] = "none"]
          /\ Begin(d, status)
     ELSE UNCHANGED <<node, blocker, pc, runner>>
  /\ UNCHANGED <<status, linked, stale, swept, visited, flight, list, saw, boot>>

\* cancelObjective
Cancel ==
  /\ Asked /\ status \notin {"cancelled", "complete"} /\ Clear(Dashboard)
  /\ status' = "cancelled"
  /\ UNCHANGED <<node, blocker, linked, runner, tasks, calls, boot>>

\* A process dies with everything it runs; the dashboard comes up again.
Dies(p) ==
  /\ count.kills < MaxKills
  /\ pc' = [d \in Driver |-> IF ProcessOf[d] = p THEN "idle" ELSE pc[d]]
  /\ flight' = [d \in Driver |-> IF ProcessOf[d] = p THEN [n \in Node |-> "none"] ELSE flight[d]]
  /\ list' = [d \in Driver |-> IF ProcessOf[d] = p THEN {} ELSE list[d]]
  /\ saw' = [d \in Driver |-> saw[d] /\ ProcessOf[d] # p]
  /\ runner' = IF runner = p THEN "gone" ELSE runner
  /\ boot' = (boot \/ p = Dashboard)
  /\ swept' = (IF p = Dashboard THEN {} ELSE swept) /\ visited' = (IF p = Dashboard THEN {} ELSE visited)
  /\ count' = [count EXCEPT !.kills = @ + 1, !.periodic = IF p = Dashboard THEN 0 ELSE @]
  /\ UNCHANGED linked

Kill(p) ==
  /\ Running(p) # {} \/ p = Dashboard
  /\ Dies(p)
  /\ UNCHANGED <<status, node, blocker, task, stale>>

\* resumeObjectiveNodes writes a part's task, then the part, one part after the other, and
\* then what waited and the objective; the process dies after one of these writes.
CutShort(p, parts) ==
  /\ Dies(p)
  /\ \E done \in SUBSET parts : \E half \in SUBSET (parts \ done) :
       /\ Cardinality(half) <= 1 /\ done \cup half # {}
       /\ task' = [n \in Part |-> IF n \in done \cup half THEN "active" ELSE task[n]]
       /\ stale' = stale \ (done \cup half)
       /\ blocker' = [n \in Part |-> IF n \in done THEN "none" ELSE blocker[n]]
       /\ LET pending == [n \in Part |-> IF n \in done THEN "pending" ELSE node[n]]
          IN \/ node' = pending /\ UNCHANGED status
             \/ done = parts /\ node' = Unblocked(pending) /\ status' = "active"

ReconcileCutShort(d) ==
  /\ ProcessOf[d] = Dashboard /\ Idle(Dashboard) /\ ~MidSweep /\ pc[d] = "idle"
  /\ status \notin {"cancelled", "complete"} /\ ~OwnerLive
  /\ boot \/ ((OwnerGone \/ Abandoned # {}) /\ count.periodic < MaxPeriodic)
  /\ CutShort(Dashboard, Resumable(Abandoned, OwnerGone))

RetryCutShort(d) ==
  /\ count.starts < MaxStarts /\ Clear(ProcessOf[d]) /\ pc[d] = "idle"
  /\ status # "cancelled" /\ ~LiveSibling
  /\ CutShort(ProcessOf[d], Resumable(RecoveryPlan, FALSE))

-----------------------------------------------------------------------------

DriverStep(d) ==
  \/ Start(d) \/ Resume(d) \/ Loop(d) \/ Launch(d) \/ Await(d) \/ Wake(d) \/ Drain(d)
  \/ Integrate(d) \/ StartIntegration(d) \/ SettleIntegration(d) \/ Final(d) \/ Leave(d)
  \/ \E n \in Node : Setup(d, n) \/ Link(d, n) \/ Settle(d, n) \/ Throw(d, n)

Mishap(d) == MergeConflict(d) \/ IntegrationThrows(d)

Sweep == BootSweepEnds \/ \E d \in Driver : Reconcile(d)

Founder == Cancel \/ \E d \in Driver : Run(d) \/ Retry(d) \/ \E n \in Part : Answer(d, n)

Next ==
  \/ \E d \in Driver : DriverStep(d) \/ Mishap(d)
  \/ \E n \in Part : TaskEnds(n) \/ Ages(n) \/ AutoRetry(n)
  \/ SweepEnds
  \/ Sweep \/ Founder
  \/ \E p \in Process : Kill(p)
  \/ \E d \in Driver : ReconcileCutShort(d) \/ RetryCutShort(d)

\* Processes run, tasks end (a call is cut off after an hour), time passes and
\* the reconciler comes round; nothing the founder does is owed.
Fairness ==
  /\ \A d \in Driver : WF_vars(DriverStep(d))
  /\ WF_vars(\E n \in Part : TaskEnds(n)) /\ WF_vars(\E n \in Part : Ages(n))
  /\ WF_vars(Sweep) /\ WF_vars(SweepEnds)

Spec == Init /\ [][Next]_vars /\ Fairness

-----------------------------------------------------------------------------
(* Properties                                                              *)

Status  == {"active", "cancelled", "complete", "integration-blocked", "blocked", "incomplete"}
Stage   == {"pending", "running", "gate-satisfied", "blocked", "failed", "blocked-by-dep"}
Place   == {"idle", "start", "resume", "loop", "launch", "await", "drain",
            "integrate", "patch", "merge", "final", "leave"}

TypeOK ==
  /\ status \in Status /\ runner \in Process \cup {"none", "gone"}
  /\ node \in [Part -> Stage]
  /\ blocker \in [Part -> {"none", "infra", "decision", "hard", "publish"}]
  /\ linked \subseteq Part /\ stale \subseteq Part
  /\ swept \subseteq visited /\ visited \subseteq Part
  /\ task \in [Part -> {"absent", "active", "yielded", "infra", "decision", "hard", "merge-ready"}]
  /\ pc \in [Driver -> Place] /\ saw \in [Driver -> BOOLEAN]
  /\ flight \in [Driver -> [Node -> {"none", "setup", "made", "work"}]]
  /\ list \in [Driver -> SUBSET Node] /\ boot \in BOOLEAN
  /\ count \in [starts : 0 .. MaxStarts, kills : 0 .. MaxKills, periodic : 0 .. MaxPeriodic,
                 retries : [Part -> 0 .. MaxRetries]]

\* Work is built on work that passed: a node runs or is done only when all it
\* depends on is done, the integration only when every node is, and the objective
\* is complete only when the integration is.
BuiltOnDone ==
  /\ \A n \in Node : node[n] \in {"running", "gate-satisfied"} => \A m \in DependsOn[n] : Satisfied(m)
  /\ node[Integ] # "pending" => BuildNodesComplete
  /\ status = "complete" => BuildNodesComplete

\* Never blocked without a reason (integrationOutcome's second rule, which the
\* nodes keep as well), and never a reason on a node that is not stopped: a retry
\* or an answer that re-arms a node takes the reason away in the same step.
StoppedHasCause ==
  /\ \A n \in Part : Stopped(n) => blocker[n] # "none"
  /\ \A n \in Node : blocker[n] # "none" => Stopped(n)

\* No two runs of runObjective in one process drive the task of one node,
\* whatever the founder, the sweep, restarts and the runs' own awaits interleave:
\* the ready list is read and launched from in one turn, and a stamp keeps the
\* reconciler away from an objective that is being driven.
OneRunPerNode ==
  \A d, e \in Driver, n \in Node : flight[d][n] = "work" /\ flight[e][n] = "work" => d = e

\* What reached its gate stays there: no late failure of an older run, retry or
\* answer takes back a node that is published and that others are built on.
DoneStaysDone == [][\A n \in Node : Satisfied(n) => Satisfied(n)']_vars

\* orchestrator.mjs:695 calls cancelling "A terminal status the founder writes by
\* hand", and "the work itself is over": no run that is still going undoes it.
CancelIsFinal == [][status = "cancelled" => status' = "cancelled"]_vars

\* Every call of runObjective returns, provided tasks end and nothing else, until
\* nobody drives the objective: no run waits for a node somebody else runs, or
\* loops over one that stopped.
Driven  == \E d \in Driver : pc[d] # "idle"
RunsEnd == Driven ~> ~Driven

\* Work a restart left behind is taken up again by the sweep: a part that reads
\* running with nobody driving the objective does not stay so for ever, unless
\* the sweep has spent its periodic resumes or the objective is over.
HasOrphan ==
  ~Driven /\ \E n \in linked :
    node[n] = "running" /\ task[n] \in {"active", "infra"} /\ blocker[n] \in {"none", "infra"}
OrphansAreTaken ==
  HasOrphan ~> \/ ~HasOrphan \/ count.periodic = MaxPeriodic
               \/ status \in {"cancelled", "complete"}

=============================================================================
