----------------------------- MODULE StageRunner -----------------------------
(***************************************************************************)
(* The processes that drive one task: factory/lib/openclaw-runner.mjs      *)
(* (runToTerminal, the review fan-out, runOneStage), the agents they start *)
(* and the result files those leave, and the callers that start a runner   *)
(* (CLI, founder retry, auto-retry sweep, objective recovery).             *)
(*                                                                         *)
(* TaskWorkflow says what one transaction does to the document; here each  *)
(* runner is a sequence of such transactions with file reads and 60 minute *)
(* calls between them, killed at any point.  A run of synchronous code     *)
(* that reads or writes shared state once is one step.                     *)
(*                                                                         *)
(* Abstracted: routes and sessions of agents, telemetry, handoff and       *)
(* report files, publishing.  A result file is removed from the model once *)
(* its dispatch is on the record: its id is never issued again.            *)
(***************************************************************************)
EXTENDS TaskWorkflow, Functions

CONSTANTS
  Runner,         \* processes that may run the task
  Group,          \* one of concurrentGroups: gate stages run at the same time
  AgentOutcomes,  \* model bound: the outcomes agents report
  MaxStarts,      \* model bound: runs started by anyone but the sweep
  MayYield        \* an agent call may return while its work goes on elsewhere

ASSUME RunnerAssumption ==
  /\ Group \in Seq(GATE_STAGES)
  /\ \A i, j \in DOMAIN Group : Group[i] = Group[j] => i = j
  /\ AgentOutcomes \subseteq Outcome
  /\ MayYield \in BOOLEAN /\ MaxStarts \in Nat

VARIABLES
  run,          \* runner -> where it is, the dispatch it works on, the fan-out
  results,      \* dispatch id -> the result file written for it
  agents,       \* dispatch ids some live agent works on
  yieldedIds,   \* ids whose yielded:<id> command is in the ledger
  starts,       \* runs started by anyone but the sweep
  yieldedGroup  \* task.yieldedGroup: the members of a yielded fan-out

workflow == <<task, head, started, built>>
yields == <<yieldedIds, yieldedGroup>>
runnerVars == <<run, results, agents, yieldedIds, yieldedGroup, starts>>
allVars == <<task, head, started, built, run, results, agents, yieldedIds, yieldedGroup, starts>>

\* members: of the fan-out, the one being applied and those after it;
\* called, yielded: members whose agent this runner called, whose call yielded.
Idle == [pc |-> "idle", id |-> NoId, members |-> <<>>, called |-> {}, yielded |-> {}]

RunnerInit ==
  /\ Init
  /\ run = [r \in Runner |-> Idle]
  /\ results = << >>
  /\ agents = {} /\ yieldedIds = {} /\ yieldedGroup = {} /\ starts = 0

-----------------------------------------------------------------------------
HasResult(id) == id \in DOMAIN results
Without(ids)  == [id \in DOMAIN results \ ids |-> results[id]]

\* The dispatch's delegate still owns it (currentDispatch.yieldedAt).  A
\* re-issued id stays "ready" and its yielded:<id> is only replayed.
Yielded == task.dispatch.status = "running" /\ task.dispatch.id \in yieldedIds

StageId(stage) == [phase |-> "stage", stage |-> stage,
                   n |-> Cardinality(StageDispatches(task, stage, End)) + 1, re |-> 1]

At(r, pc) == run[r].pc = pc
Goto(r, pc) == run' = [run EXCEPT ![r].pc = pc]
Stop(r) == run' = [run EXCEPT ![r] = Idle]

\* Members of a fan-out are applied through runOneStage, with an executor that
\* does nothing.
Applying(r) == run[r].members # <<>>

GroupIds == [i \in DOMAIN Group |-> StageId(Group[i])]
GroupReady == /\ Len(Group) >= 2
              /\ task.currentStage = Group[1]
              /\ \A i \in 2 .. Len(Group) : task.stages[Group[i]].status = "pending"

-----------------------------------------------------------------------------
(* runToTerminal and the review fan-out                                    *)

\* The loop ends when the task is not active; otherwise the fan-out is
\* considered first, and only on a task between dispatches.
EndRun(r) ==
  /\ At(r, "loop") /\ task.status # "active"
  /\ Stop(r)
  /\ UNCHANGED <<workflow, results, agents, yields, starts>>

BetweenDispatches == /\ task.status = "active"
                     /\ task.dispatch.status = "none"
                     /\ task.recovery.active.phase = "none"

\* Every member's agent is called at once; a member whose result file exists
\* already is not run again.
StartGroup(r) ==
  /\ At(r, "loop") /\ BetweenDispatches /\ GroupReady
  /\ \A id \in yieldedGroup : HasResult(id)
  /\ LET called == IF yieldedGroup # {} THEN {}
                   ELSE {id \in Range(GroupIds) : ~HasResult(id)}
     IN /\ run' = [run EXCEPT ![r] = [Idle EXCEPT !.pc = "fan", !.members = GroupIds,
                                                  !.called = called]]
        /\ agents' = agents \cup called
  /\ UNCHANGED <<workflow, results, yields, starts>>

\* A yielded group whose files are not all there, or that no longer applies.
WaitForGroup(r) ==
  /\ At(r, "loop") /\ BetweenDispatches /\ yieldedGroup # {}
  /\ ~GroupReady \/ \E id \in yieldedGroup : ~HasResult(id)
  /\ Stop(r)
  /\ UNCHANGED <<workflow, results, agents, yields, starts>>

SkipGroup(r) ==
  /\ At(r, "loop") /\ task.status = "active"
  /\ ~BetweenDispatches \/ (~GroupReady /\ yieldedGroup = {})
  /\ Goto(r, "prepare")
  /\ UNCHANGED <<workflow, results, agents, yields, starts>>

Members(r) == Range(run[r].members)

\* A member's call returned, its delegate works on: markYieldedGroup.
YieldMember(r) ==
  /\ At(r, "fan") /\ MayYield
  /\ \E id \in (run[r].called \cap agents) \ run[r].yielded :
       /\ ~HasResult(id)
       /\ run' = [run EXCEPT ![r].yielded = @ \cup {id}]
  /\ yieldedGroup' = Members(r)
  /\ UNCHANGED <<workflow, results, agents, yieldedIds, starts>>

\* Every call has returned and every wait ended.
CallsReturned(r) ==
  \A id \in run[r].called : HasResult(id) \/ id \notin agents \/ id \in run[r].yielded

\* The files once those of `ids' are written, over any that were there.
Written(ids, outcome) ==
  [id \in ids \cup DOMAIN results |->
     IF id \in ids THEN [outcome |-> outcome, commit |-> head] ELSE results[id]]

\* A member whose call failed gets a synthesised rejection, even over a result
\* it had written; one that yielded and has no file keeps the group waiting.
CollectGroup(r) ==
  /\ At(r, "fan") /\ CallsReturned(r)
  /\ \E rejected \in SUBSET (run[r].called \ run[r].yielded) :
       LET missing == {id \in Members(r) : ~HasResult(id)}
       IN /\ results' = Written(rejected \cup (missing \ run[r].yielded), "infra")
          /\ IF missing \cap run[r].yielded = {}
             THEN yieldedGroup' = {} /\ Goto(r, "prepare")
             ELSE UNCHANGED yieldedGroup /\ Stop(r)
  /\ UNCHANGED <<workflow, agents, yieldedIds, starts>>

\* Mutant: the files of members that were not applied stay.
DiscardRest_KeepsFiles(r) ==
  /\ At(r, "discard")
  /\ run' = [run EXCEPT ![r] = [Idle EXCEPT !.pc = "loop"]]
  /\ UNCHANGED <<workflow, results, agents, yields, starts>>

\* Unlink the results of the members that were not applied.
DiscardRest(r) ==
  /\ At(r, "discard")
  /\ results' = Without(Range(Tail(run[r].members)))
  /\ run' = [run EXCEPT ![r] = [Idle EXCEPT !.pc = "loop"]]
  /\ UNCHANGED <<workflow, agents, yields, starts>>

-----------------------------------------------------------------------------
(* runOneStage                                                             *)

\* What follows a runOneStage that returned: in a fan-out the next member, if
\* this one passed; else the loop.
Return(r) ==
  run' = [run EXCEPT ![r] =
    IF ~Applying(r) THEN [Idle EXCEPT !.pc = "loop"]
    ELSE IF task'.stages[Head(@.members).stage].status = "pass"
         THEN IF Len(@.members) = 1 THEN [Idle EXCEPT !.pc = "loop"]
              ELSE [@ EXCEPT !.pc = "prepare", !.members = Tail(run[r].members)]
         ELSE [@ EXCEPT !.pc = "discard"]]

\* A `waiting' response ends the loop.
ReturnWaiting(r) == IF Applying(r) THEN Return(r) ELSE Stop(r)

\* A throw nothing in the runner catches: the caller records the crash.
Throw(r) ==
  /\ run[r].pc \in {"loop", "fan", "prepare", "mark"}
  /\ \/ RunnerCrash
     \/ task.status # "active" /\ UNCHANGED workflow
  /\ Stop(r)
  /\ UNCHANGED <<results, agents, yields, starts>>

PrepareWaits(r) ==
  /\ At(r, "prepare")
  /\ \/ yieldedGroup # {}
     \/ task.status # "active"
     \/ task.dispatch.status = "running" /\ ~HasResult(task.dispatch.id)
  /\ UNCHANGED workflow
  /\ ReturnWaiting(r)
  /\ UNCHANGED <<results, agents, yields, starts>>

\* A fresh dispatch; a result file that is there already can only be a stale
\* one when the dispatch is a recovery phase, and is put away.
Prepare(r) ==
  /\ At(r, "prepare") /\ yieldedGroup = {}
  /\ PrepareDispatch
  /\ results' = IF task'.dispatch.id.phase = "stage" THEN results
                ELSE Without({task'.dispatch.id})
  /\ run' = [run EXCEPT ![r].pc = "mark", ![r].id = task'.dispatch.id]
  /\ UNCHANGED <<agents, yields, starts>>

\* A dispatch somebody prepared earlier and nobody marked running.
Adopt(r) ==
  /\ At(r, "prepare") /\ yieldedGroup = {}
  /\ task.status = "active" /\ task.dispatch.status = "ready"
  /\ run' = [run EXCEPT ![r].pc = "mark", ![r].id = task.dispatch.id]
  /\ UNCHANGED <<workflow, results, agents, yields, starts>>

\* Mutant: the dispatch this runner prepared is written back, whatever happened
\* since.
Mark_TrustsCaller(r) ==
  /\ At(r, "mark") /\ task.status = "active"
  /\ task' = [task EXCEPT !.dispatch.status = "running", !.dispatch.id = run[r].id]
  /\ started' = started \cup {run[r].id}
  /\ Goto(r, "call") /\ agents' = agents \cup {run[r].id}
  /\ UNCHANGED <<head, built, results, yields, starts>>

\* running:<id>, applied or replayed; then the agent, unless the result is
\* there or (in a fan-out) had its chance.  A dispatch that moved on is a Throw.
Mark(r) ==
  /\ At(r, "mark")
  /\ LET id == run[r].id IN
     /\ \/ MarkDispatchRunning /\ task.dispatch.id = id
        \/ id \in started /\ UNCHANGED workflow
     /\ IF HasResult(id) \/ Applying(r)
        THEN Goto(r, "consume") /\ UNCHANGED agents
        ELSE Goto(r, "call") /\ agents' = agents \cup {id}
  /\ UNCHANGED <<results, yields, starts>>

CallReturns(r) ==
  /\ At(r, "call")
  /\ HasResult(run[r].id) \/ run[r].id \notin agents
  /\ Goto(r, "consume")
  /\ UNCHANGED <<workflow, results, agents, yields, starts>>

\* The call returned, the delegate works on: markYielded, then a bounded wait.
CallYields(r) ==
  /\ At(r, "call") /\ MayYield
  /\ run[r].id \in agents /\ ~HasResult(run[r].id)
  /\ yieldedIds' = yieldedIds \cup {run[r].id}
  /\ Goto(r, "wait")
  /\ UNCHANGED <<workflow, results, agents, yieldedGroup, starts>>

\* The wait ends: the file came, the hour passed, or the heartbeat found that
\* the dispatch is no longer the current one.
WaitEnds(r) ==
  /\ At(r, "wait")
  /\ \/ HasResult(run[r].id) /\ Goto(r, "consume")
     \/ ~HasResult(run[r].id) /\ Stop(r)
     \/ task.dispatch.id # run[r].id /\ run' = [run EXCEPT ![r] = [Idle EXCEPT !.pc = "loop"]]
  /\ UNCHANGED <<workflow, results, agents, yields, starts>>

\* The dispatch moved on under the runner: nothing is written.
ConsumeStale(r) ==
  /\ At(r, "consume") /\ task.dispatch.id # run[r].id
  /\ UNCHANGED workflow
  /\ Return(r)
  /\ UNCHANGED <<results, agents, yields, starts>>

\* ingestResult on the file of the current dispatch.
Ingest(file) ==
  \/ file.outcome = "infra" /\ IngestInfraFailure
  \/ file.outcome \in Outcome /\ \E cause \in Cause : IngestVerdict(file.outcome, cause)
  \/ file.outcome \in Outcome /\ IngestRepair(file.outcome)

Forget(id) ==
  /\ results' = Without({id})
  /\ agents' = agents \ {id}

\* A verdict the engine refuses (no evidence, not releasable) fails the
\* dispatch, as no result at all does.
Consume(r) ==
  /\ At(r, "consume") /\ task.dispatch.id = run[r].id
  /\ \/ HasResult(run[r].id) /\ Ingest(results[run[r].id])
     \/ FailDispatch
  /\ Return(r)
  /\ Forget(run[r].id)
  /\ UNCHANGED <<yields, starts>>

\* A running dispatch whose result arrived is ingested by whoever comes; here a
\* refused result is a throw.
TakeOver(r) ==
  /\ At(r, "prepare") /\ yieldedGroup = {}
  /\ task.status = "active" /\ task.dispatch.status = "running"
  /\ HasResult(task.dispatch.id)
  /\ Ingest(results[task.dispatch.id])
  /\ Return(r)
  /\ Forget(task.dispatch.id)
  /\ UNCHANGED <<yields, starts>>

\* A control-flow failure: blocked, and thrown on.
ConsumeBlocks(r) ==
  /\ At(r, "consume") /\ task.dispatch.id = run[r].id
  /\ ~Applying(r) /\ ~HasResult(run[r].id)
  /\ BlockDispatch
  /\ Stop(r)
  /\ Forget(run[r].id)
  /\ UNCHANGED <<yields, starts>>

-----------------------------------------------------------------------------
(* Agents, deaths and starts                                               *)

AgentWrites ==
  /\ \E id \in agents, outcome \in AgentOutcomes :
       /\ results' = Written({id}, outcome)
       /\ agents' = agents \ {id}
  /\ UNCHANGED <<workflow, run, yields, starts>>

AgentDies ==
  /\ \E id \in agents : agents' = agents \ {id}
  /\ UNCHANGED <<workflow, run, results, yields, starts>>

\* The process dies with a host or dashboard restart; its agents may live on.
Kill(r) ==
  /\ run[r].pc # "idle"
  /\ Stop(r)
  /\ UNCHANGED <<workflow, results, agents, yields, starts>>

Enters(r) == At(r, "idle") /\ Goto(r, "loop") /\ UNCHANGED <<results, agents, yields>>
Starts(r) == Enters(r) /\ starts < MaxStarts /\ starts' = starts + 1

\* openclaw-factory run, or an objective reaching this node.
StartRun(r) == Starts(r) /\ task.status = "active" /\ UNCHANGED workflow

FounderRetry(r) == Starts(r) /\ (FounderResume \/ ResolveFounderDecision)

DelegateOwns == Yielded \/ yieldedGroup # {}
NobodyRuns == \A r \in Runner : At(r, "idle")

\* Mutant: a task that has a dispatch is presumed to have a runner.
SweepRun_SparesDispatch(r) ==
  /\ Enters(r) /\ UNCHANGED starts /\ ~DelegateOwns
  /\ SweepBlocked \/ (NobodyRuns /\ agents = {} /\ task.dispatch.status = "none" /\ SweepOrphan)

\* A delegated task is skipped whatever its age; otherwise 90 minutes without
\* a write mean that neither a runner nor a call of at most 60 is left.
SweepRun(r) ==
  /\ Enters(r) /\ UNCHANGED starts /\ ~DelegateOwns
  /\ SweepBlocked \/ (NobodyRuns /\ agents = {} /\ SweepOrphan)

\* An objective whose recorded runner is dead recovers its nodes at once.
ObjectiveRecovers(r) == Starts(r) /\ ~DelegateOwns /\ NobodyRuns /\ RecoverOrphanNode

OtherCommits == NewCommit /\ UNCHANGED runnerVars

StageStep(r) ==
  \/ EndRun(r) \/ StartGroup(r) \/ WaitForGroup(r) \/ SkipGroup(r) \/ YieldMember(r)
  \/ CollectGroup(r) \/ DiscardRest(r) \/ PrepareWaits(r) \/ Prepare(r) \/ Adopt(r)
  \/ TakeOver(r) \/ Mark(r) \/ CallReturns(r) \/ CallYields(r) \/ WaitEnds(r)
  \/ ConsumeStale(r) \/ Consume(r) \/ ConsumeBlocks(r)
RunnerStep(r) == StageStep(r) \/ Throw(r)
Starter(r) == StartRun(r) \/ FounderRetry(r) \/ SweepRun(r) \/ ObjectiveRecovers(r)

RunnerNext ==
  \/ \E r \in Runner : RunnerStep(r) \/ Starter(r) \/ Kill(r)
  \/ AgentWrites \/ AgentDies \/ OtherCommits

RunnerSpec == RunnerInit /\ [][RunnerNext]_allVars

\* Runners that neither die nor throw.
SteadyNext ==
  \/ \E r \in Runner : StageStep(r) \/ Starter(r)
  \/ AgentWrites \/ AgentDies \/ OtherCommits
SteadySpec == RunnerInit /\ [][SteadyNext]_allVars

\* Nobody but the sweep starts a runner.
UnattendedNext ==
  \/ \E r \in Runner : RunnerStep(r) \/ SweepRun(r) \/ Kill(r)
  \/ AgentWrites \/ AgentDies \/ OtherCommits

\* Runners take their steps, the sweep runs every three minutes, and no agent
\* outlives its hour.
UnattendedSpec ==
  /\ RunnerInit /\ [][UnattendedNext]_allVars
  /\ \A r \in Runner : WF_allVars(RunnerStep(r)) /\ WF_allVars(SweepRun(r))
  /\ WF_allVars(AgentWrites \/ AgentDies)

-----------------------------------------------------------------------------
(* Properties                                                              *)

\* Every step of every process, in any order, is a step of the workflow or
\* leaves the durable document alone: what TaskWorkflow proves of the document
\* holds however many runners, sweeps and founders work on it at once.
ImplementsWorkflow == Spec

\* The fan-out judges what the builder last left: the pass a gate records comes
\* from an agent that finished after the builder's own pass, never from a
\* result file or a worker left over from an earlier round.
PassOf(stage) == /\ task.stages[stage].status # "pass"
                 /\ task'.stages[stage].status = "pass"
\* openclaw-runner.mjs:661: the files of members that were not applied are
\* discarded "so a later attempt of those stages regenerates them cleanly".
VerdictsAreFresh ==
  [][\A stage \in Stage \cap GATE_STAGES :
       PassOf(stage) => results[task.dispatch.id].commit >= built]_allVars

\* A task nobody founder-side touches ends: merge-ready, blocked for somebody,
\* or out of automatic retries, whatever processes and agents die on the way.
UnattendedEnds ==
  task.status = "active" ~> (task.status # "active" \/ task.autoRetries >= MaxRetries)

=============================================================================
