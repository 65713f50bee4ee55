---------------------------- MODULE TaskWorkflow ----------------------------
(***************************************************************************)
(* The seven-stage task engine: factory/lib/task-workflow.mjs (pure state  *)
(* transitions) under factory/lib/openclaw-protocol.mjs (one transaction   *)
(* per command: prepare, ingest, fail, block) and the callers that revive  *)
(* a task (founder resume and approval, auto-retry sweep, runner crash).   *)
(*                                                                         *)
(* `task' is the durable document.  Every command is one transaction of    *)
(* the store, hence one action.  Which process calls it is left open here; *)
(* StageRunner adds the processes.                                         *)
(*                                                                         *)
(* Abstracted: who the actors are, prose, evidence files (a stage result   *)
(* keeps only its verdict and the commit its manifest is bound to), the    *)
(* event log, timestamps.  Failure text is abstracted to the classes the   *)
(* engine's regular expressions tell apart (Cause).  Tasks are the ones    *)
(* the factory runs, on a git checkout: evidencePolicy = "strong".         *)
(***************************************************************************)
EXTENDS Integers, Sequences, FiniteSets

CONSTANTS
  STAGES,        \* the pipeline, in order
  HighRisk,      \* task.risk = "high"
  MaxVerdicts,   \* maxAttemptsPerStage
  MaxInfra,      \* maxInfraAttemptsPerStage
  GateMaxInfra,  \* GATE_MAX_INFRA_ATTEMPTS
  MaxRecovery,   \* recovery.maxAttempts, per incident
  MaxSeatPauses, \* maxConsecutivePauses
  MaxRetries,    \* `max' of the auto-retry sweep
  HeadReadable,  \* FALSE: `git rev-parse HEAD' may fail or time out
  MaxCommits,    \* model bound: commits the worktree may receive
  MaxDispatches  \* model bound: dispatches a task may be given

Stage  == {STAGES[i] : i \in DOMAIN STAGES}
Commits == 0 .. MaxCommits
NoCommit == -1
NoStage  == "none"

\* REVIEW_STAGES and ROUTABLE_STAGES hold the same four names.
REVIEW_STAGES  == {"reviewer", "qa", "security", "release"}
GATE_STAGES    == {"reviewer", "qa", "security"}
PROVING_STAGES == {"reviewer", "qa", "security"}

\* Reduced pipelines keep the order that matters: the builder is entered from an
\* earlier stage, and everything that judges its work comes after it.
ASSUME StagesAssumption ==
  /\ STAGES \in Seq({"product", "architect", "builder", "reviewer", "qa",
                     "security", "release"})
  /\ \A i, j \in DOMAIN STAGES : STAGES[i] = STAGES[j] => i = j
  /\ "builder" \in Stage
  /\ STAGES[1] # "builder"
  /\ STAGES[Len(STAGES)] = "release"
  /\ \A i, j \in DOMAIN STAGES :
       STAGES[i] = "builder" /\ STAGES[j] \in REVIEW_STAGES => i < j

ASSUME BudgetAssumption ==
  /\ MaxVerdicts \in Nat \ {0} /\ MaxInfra \in Nat \ {0}
  /\ GateMaxInfra \in Nat \ {0}
  /\ MaxRecovery \in Nat \ {0} /\ MaxSeatPauses \in Nat \ {0}
  /\ MaxRetries \in Nat /\ MaxCommits \in Nat /\ MaxDispatches \in Nat

ASSUME FlagAssumption == HighRisk \in BOOLEAN /\ HeadReadable \in BOOLEAN

\* What the failure text says: a transport or seat fault, words about the
\* factory itself, a merge conflict (deterministic, never infrastructure), or
\* anything else.
Cause == {"infra", "factory", "conflict", "other"}

\* How a dispatch left the record: its agent's outcome; "infra" for a fail
\* the review fan-out synthesised (infraFailure); "lost" when it was closed
\* without an outcome; "seat" when it was parked on an exhausted seat.
Outcome == {"pass", "fail", "decision-required", "decision-deferred"}
End     == Outcome \cup {"infra", "lost", "seat"}
SUCCESS_OUTCOMES == {"pass", "succeeded"}

NoId       == [phase |-> "none", stage |-> NoStage, n |-> 0, re |-> 0]
NoDispatch == [id |-> NoId, stage |-> NoStage, status |-> "none"]
NoBlocker  == [stage |-> NoStage, outcome |-> "none", cause |-> "other",
               founderAction |-> FALSE]
NoRecovery == [phase |-> "none", failedStage |-> NoStage, ordinal |-> 0]
Pending    == [status |-> "pending", commit |-> NoCommit]

Index(stage) == CHOOSE i \in DOMAIN STAGES : STAGES[i] = stage
Blocker(stage, outcome, cause, founder) ==
  [stage |-> stage, outcome |-> outcome, cause |-> cause, founderAction |-> founder]

-----------------------------------------------------------------------------
(* Budgets                                                                 *)

\* The stage dispatches of `stage' whose end is one of `ends'.
StageDispatches(s, stage, ends) ==
  {i \in DOMAIN s.dispatches : /\ s.dispatches[i].id.phase = "stage"
                               /\ s.dispatches[i].stage = stage
                               /\ s.dispatches[i].end \in ends}

\* countStageAttempts: a seat pause is free, no outcome (or infraFailure) is
\* infrastructure, a success is a pass, and every other outcome a verdict.
InfraCount(s, stage)   == Cardinality(StageDispatches(s, stage, {"lost", "infra"}))
VerdictCount(s, stage) ==
  Cardinality(StageDispatches(s, stage, Outcome \ SUCCESS_OUTCOMES))

StageInfraLimit(stage) ==
  IF stage \in GATE_STAGES /\ GateMaxInfra < MaxInfra THEN GateMaxInfra ELSE MaxInfra

\* Mutant: only rejections are bounded.
StageBudgetExceeded_VerdictsOnly(s, stage) == VerdictCount(s, stage) >= MaxVerdicts

StageBudgetExceeded(s, stage) ==
  \/ VerdictCount(s, stage) >= MaxVerdicts
  \/ InfraCount(s, stage) >= StageInfraLimit(stage)

\* Paused dispatches at the end of the record.
ConsecutiveSeatPauses(dispatches) ==
  Cardinality({i \in DOMAIN dispatches :
                 \A j \in i .. Len(dispatches) : dispatches[j].end = "seat"})

-----------------------------------------------------------------------------
(* Recovery incidents                                                      *)

OpenIncidentAttempts(s) ==
  {i \in DOMAIN s.recovery.attempts :
     s.recovery.attempts[i].incident = s.recovery.incident}

RepairTarget(cause, source) ==
  IF cause = "conflict" \/ (cause = "other" /\ source = "project")
  THEN "project" ELSE "factory"

\* A new attempt of the open incident, in its diagnose phase.
OpenAttempt(s, failedStage, target) ==
  [s EXCEPT
    !.recovery.attempts =
        Append(@, [incident |-> s.recovery.incident, failedStage |-> failedStage,
                   target |-> target, status |-> "diagnosing"]),
    !.recovery.active = [phase |-> "diagnose", failedStage |-> failedStage,
                         ordinal |-> Len(s.recovery.attempts) + 1]]

\* Mutant: the active attempt survives the incident it belonged to.
CloseRecoveryIncident_KeepsActive(s) ==
  [s EXCEPT !.recovery.incident = IF OpenIncidentAttempts(s) = {} THEN @ ELSE @ + 1]

CloseRecoveryIncident(s) ==
  [s EXCEPT
    !.recovery.incident = IF OpenIncidentAttempts(s) = {} THEN @ ELSE @ + 1,
    !.recovery.active = NoRecovery]

EscalateRecovery(s, failedStage) ==
  [s EXCEPT !.recovery.active = NoRecovery,
            !.status = "blocked",
            !.blocker = Blocker(failedStage, "decision-required", "other", TRUE)]

\* Mutant: no task-wide ceiling.
RecoveryBudgetLeft_PerIncident(s) == Cardinality(OpenIncidentAttempts(s)) < MaxRecovery

RecoveryBudgetLeft(s) ==
  /\ Cardinality(OpenIncidentAttempts(s)) < MaxRecovery
  /\ Len(s.recovery.attempts) < 3 * MaxRecovery

StartRecovery(s, failedStage, cause, source) ==
  IF RecoveryBudgetLeft(s)
  THEN [OpenAttempt(s, failedStage, RepairTarget(cause, source)) EXCEPT
          !.status = "active", !.currentStage = failedStage, !.blocker = NoBlocker]
  ELSE EscalateRecovery(s, failedStage)

LastAttempt(s) == s.recovery.attempts[Len(s.recovery.attempts)]

SettleAttempt(s, status) ==
  [s EXCEPT !.recovery.attempts[Len(s.recovery.attempts)].status = status]

FinishRecoveryFailure(s, outcome) ==
  LET failed == SettleAttempt(s, "failed")
      stage  == s.recovery.active.failedStage
  IN IF outcome # "decision-required" /\ RecoveryBudgetLeft(s)
     THEN OpenAttempt(failed, stage, LastAttempt(s).target)
     ELSE EscalateRecovery(failed, stage)

\* Mutant: verdicts downstream of the re-opened stage stand.
ReopenFrom_KeepsDownstream(s, stage) ==
  [s EXCEPT !.stages[stage] = Pending, !.status = "active", !.currentStage = stage,
            !.blocker = NoBlocker]

\* Mutant: the stage table is rebuilt from the re-opened stages only.
ReopenFrom_DropsEarlier(s, stage) ==
  [s EXCEPT !.stages = [t \in {u \in Stage : Index(u) >= Index(stage)} |-> Pending],
            !.status = "active", !.currentStage = stage, !.blocker = NoBlocker]

\* Every stage from `stage' on is pending again, and the pipeline is there.
ReopenFrom(s, stage) ==
  [s EXCEPT !.stages = [t \in Stage |-> IF Index(t) >= Index(stage) THEN Pending
                                        ELSE s.stages[t]],
            !.status = "active",
            !.currentStage = stage,
            !.blocker = NoBlocker]

\* A verified project repair rewrote the code the gates judged: back to the
\* builder.  A factory repair retries the failed stage in place.
ResumeAt(s) ==
  LET stage == s.recovery.active.failedStage
  IN IF stage \in REVIEW_STAGES /\ LastAttempt(s).target = "project"
     THEN "builder" ELSE stage

RecordRecoveryResult(s, outcome) ==
  CASE outcome # "pass" -> FinishRecoveryFailure(s, outcome)
    [] outcome = "pass" /\ s.recovery.active.phase = "diagnose" ->
         [s EXCEPT !.recovery.active.phase = "verify"]
    [] OTHER ->
         LET verified == SettleAttempt(s, "verified")
         IN IF StageBudgetExceeded(s, ResumeAt(s))
            THEN EscalateRecovery(verified, ResumeAt(s))
            ELSE ReopenFrom(CloseRecoveryIncident(verified), ResumeAt(s))

-----------------------------------------------------------------------------
(* Stage transitions                                                       *)

\* hasValidFounderApproval / founderApprovalStatus.
Authorized(s) == ~HighRisk \/ s.approved

\* Mutant: the gate compares only values frozen when the builder finished.
ReleaseReady_TrustsFrozenCommit(s, head) ==
  /\ \A t \in Stage : s.stages[t].status = "pass"
  /\ Authorized(s)
  /\ s.verifiedCommit # NoCommit
  /\ \A t \in Stage \cap PROVING_STAGES : s.stages[t].commit = s.verifiedCommit

\* assertReleaseReady: `head' is what the gate reads, NoCommit if unreadable.
ReleaseReady(s, head) ==
  /\ \A t \in Stage : s.stages[t].status = "pass"
  /\ Authorized(s)
  /\ s.verifiedCommit # NoCommit
  /\ head \in {NoCommit, s.verifiedCommit}
  /\ \A t \in Stage \cap PROVING_STAGES : s.stages[t].commit = s.verifiedCommit

\* verifiedCommitFor: the commit the stage's manifest is bound to.
VerifiedCommitFor(s, stage) ==
  IF stage \in PROVING_STAGES \cup {"release"} THEN s.verifiedCommit ELSE NoCommit

CompleteStage(s, stage, outcome, cause) ==
  LET recorded == [s EXCEPT !.stages[stage] =
                     [status |-> outcome,
                      commit |-> IF outcome = "pass" THEN VerifiedCommitFor(s, stage)
                                 ELSE NoCommit]]
      passed == [recorded EXCEPT !.autoRetries = 0]
      next   == STAGES[Index(stage) + 1]
  IN CASE outcome # "pass" ->
            [recorded EXCEPT !.status = "blocked",
                             !.blocker = Blocker(stage, outcome, cause, FALSE)]
       [] outcome = "pass" /\ Index(stage) = Len(STAGES) ->
            [passed EXCEPT !.status = "merge-ready", !.currentStage = NoStage]
       [] OTHER ->
            IF next = "builder" /\ ~Authorized(s)
            THEN [passed EXCEPT !.currentStage = next, !.status = "blocked",
                                !.blocker = Blocker("builder", "decision-required",
                                                    "other", FALSE)]
            ELSE [passed EXCEPT !.currentStage = next]

\* Freeze the tree under review; verdicts on an older tree are re-opened.
RecordVerifiedCommit(s, sha) ==
  LET stale == {t \in Stage \cap PROVING_STAGES : s.stages[t].status # "pending"}
      first == CHOOSE t \in stale : \A u \in stale : Index(t) <= Index(u)
      frozen == [s EXCEPT !.verifiedCommit = sha]
  IN IF s.verifiedCommit \in {NoCommit, sha} \/ stale = {} THEN frozen
     ELSE [frozen EXCEPT
             !.stages = [t \in Stage |-> IF t \in stale THEN Pending ELSE s.stages[t]],
             !.currentStage = first, !.status = "active", !.blocker = NoBlocker]

\* A real rejection by a review stage goes back to the builder; the same stage
\* is retried in place when its failure was infrastructural.  A release merge
\* conflict is a rejection (its cause is never "infra").
FailureTarget(s, failedStage) ==
  IF failedStage \in REVIEW_STAGES /\ s.blocker.cause # "infra"
  THEN "builder" ELSE failedStage

\* Mutant: nobody takes over when the workflow's own loop declines.
RouteOrRecover_NoRecovery(s, failedStage, target, source) ==
  IF failedStage \in REVIEW_STAGES /\ ~StageBudgetExceeded(s, failedStage)
  THEN ReopenFrom(s, target) ELSE s

\* The workflow's own loop first (routeStageFailure); recovery when it declines.
RouteOrRecover(s, failedStage, target, source) ==
  IF failedStage \in REVIEW_STAGES /\ ~StageBudgetExceeded(s, failedStage)
  THEN ReopenFrom(s, target)
  ELSE StartRecovery(s, failedStage, s.blocker.cause, source)

\* Move the current dispatch to the record.
CloseDispatch(s, end) ==
  [s EXCEPT !.dispatches = Append(@, [id |-> s.dispatch.id, stage |-> s.dispatch.stage,
                                      end |-> end]),
            !.dispatch = NoDispatch]

RecordSeatPause(s) ==
  LET closed == CloseDispatch(s, "seat")
      spent  == ConsecutiveSeatPauses(closed.dispatches) >= MaxSeatPauses
  IN [closed EXCEPT !.status = "blocked",
                    !.blocker = IF spent
                                THEN Blocker(s.dispatch.stage, "decision-required", "infra", TRUE)
                                ELSE Blocker(s.dispatch.stage, "paused-credits", "infra", FALSE)]

\* Mutant: a seat pause throws its recovery attempt away.
ResumeState_AlwaysCloses(s) ==
  [CloseRecoveryIncident(s) EXCEPT !.status = "active", !.blocker = NoBlocker,
                                   !.stages[s.currentStage] = Pending]

\* resumeState; a seat pause interrupted an attempt, so its incident stays open.
ResumeState(s) ==
  LET kept == IF s.blocker.outcome = "paused-credits" THEN s ELSE CloseRecoveryIncident(s)
  IN [kept EXCEPT !.status = "active", !.blocker = NoBlocker,
                  !.stages[s.currentStage] = Pending]

\* Mutant: resuming past the high-risk gate needs no approval.
CanResume_IgnoresApproval(s) == s.status = "blocked"

CanResume(s) ==
  /\ s.status = "blocked"
  /\ s.blocker.stage = "builder" => Authorized(s)

-----------------------------------------------------------------------------
(* Dispatch identity                                                       *)

DispatchStage(s) ==
  IF s.recovery.active.phase = "none" THEN s.currentStage ELSE s.recovery.active.failedStage

\* Earlier dispatches that used this id.
UsesOf(s, id) == {i \in DOMAIN s.dispatches : s.dispatches[i].id = id}
Interrupted(s, id) ==
  \A i \in UsesOf(s, id) : s.dispatches[i].end \in {"lost", "seat"}

\* Mutant: a re-armed recovery phase takes its old id again.
DispatchId_NoSuffix(s) ==
  LET a == s.recovery.active
  IN IF a.phase = "none"
     THEN [phase |-> "stage", stage |-> s.currentStage,
           n |-> Cardinality(StageDispatches(s, s.currentStage, End)) + 1, re |-> 1]
     ELSE [phase |-> a.phase, stage |-> NoStage, n |-> a.ordinal, re |-> 1]

\* computeDispatchPaths: a stage id counts the stage's dispatches; a recovery
\* id names the attempt's ordinal and phase, with a suffix -r<n> when every
\* earlier use of the id ended without an outcome.
DispatchId(s) ==
  LET a == s.recovery.active
      Re(n) == [phase |-> a.phase, stage |-> NoStage, n |-> a.ordinal, re |-> n]
      Free(n) == UsesOf(s, Re(n)) = {} \/ ~Interrupted(s, Re(n))
  IN IF a.phase = "none"
     THEN [phase |-> "stage", stage |-> s.currentStage,
           n |-> Cardinality(StageDispatches(s, s.currentStage, End)) + 1, re |-> 1]
     ELSE Re(CHOOSE n \in 1 .. Len(s.dispatches) + 1 :
               Free(n) /\ \A m \in 1 .. n - 1 : ~Free(m))

-----------------------------------------------------------------------------
VARIABLES
  task,     \* the durable task document
  head,     \* the commit at the worktree's HEAD
  started,  \* dispatch ids whose running:<id> command is in the store's ledger
  built     \* history: HEAD when the builder last passed

vars == <<task, head, started, built>>

Init ==
  /\ task = [status |-> "active", currentStage |-> STAGES[1],
             stages |-> [t \in Stage |-> Pending],
             blocker |-> NoBlocker, dispatch |-> NoDispatch, dispatches |-> <<>>,
             recovery |-> [incident |-> 1, attempts |-> <<>>, active |-> NoRecovery],
             verifiedCommit |-> NoCommit, approved |-> FALSE, autoRetries |-> 0]
  /\ head = 0
  /\ started = {}
  /\ built = NoCommit

HeadReads == IF HeadReadable THEN {head} ELSE {head, NoCommit}

\* The refusal of a spent id is a throw: the caller's RunnerCrash.
PrepareDispatch ==
  /\ task.status = "active"
  /\ task.dispatch.status = "none"
  /\ Len(task.dispatches) < MaxDispatches
  /\ UsesOf(task, DispatchId(task)) = {}
  /\ task' = [task EXCEPT !.dispatch = [id |-> DispatchId(task),
                                        stage |-> DispatchStage(task),
                                        status |-> "ready"]]
  /\ UNCHANGED <<head, started, built>>

\* A repeated running:<id> is answered from the ledger and changes nothing.
MarkDispatchRunning ==
  /\ task.dispatch.status = "ready"
  /\ task.dispatch.id \notin started
  /\ task' = [task EXCEPT !.dispatch.status = "running"]
  /\ started' = started \cup {task.dispatch.id}
  /\ UNCHANGED <<head, built>>

\* The runner ingests or fails a dispatch only after its running:<id> command
\* returned, applied or replayed; the commands themselves check only the id.
Outstanding == task.dispatch.status # "none" /\ task.dispatch.id \in started

AsPass(outcome) == IF outcome = "decision-deferred" THEN "pass" ELSE outcome

\* The agent of a stage dispatch returned a verdict.  HEAD is read twice, by
\* the freeze after the builder and by the release gate.
IngestVerdict(outcome, cause) ==
  /\ Outstanding
  /\ task.dispatch.id.phase = "stage"
  /\ outcome # "fail" => cause = "other"
  /\ \E sha \in HeadReads :
       LET stage     == task.dispatch.stage
           completed == CompleteStage(task, stage, AsPass(outcome), cause)
           frozen    == IF /\ stage = "builder" /\ completed.status = "active"
                           /\ sha # NoCommit
                        THEN RecordVerifiedCommit(completed, sha) ELSE completed
           finished  == CloseDispatch(frozen, outcome)
       IN /\ completed.status = "merge-ready" => ReleaseReady(completed, sha)
          /\ task' = IF outcome = "fail"
                     THEN RouteOrRecover(finished, stage,
                                         FailureTarget(finished, stage), "project")
                     ELSE finished
          /\ built' = IF stage = "builder" /\ completed.status = "active"
                      THEN head ELSE built
  /\ UNCHANGED <<head, started>>

IngestStage == \E outcome \in Outcome, cause \in Cause : IngestVerdict(outcome, cause)

\* The review fan-out wrote a fail for a member whose agent never ran.
IngestInfraFailure ==
  /\ Outstanding
  /\ task.dispatch.id.phase = "stage"
  /\ task.dispatch.stage \in GATE_STAGES
  /\ \/ task' = RecordSeatPause(task)
     \/ \E cause \in {"infra", "other"} :
          LET stage    == task.dispatch.stage
              finished == CloseDispatch(CompleteStage(task, stage, "fail", cause), "infra")
          IN task' = RouteOrRecover(finished, stage, FailureTarget(finished, stage), "project")
  /\ UNCHANGED <<head, started, built>>

IngestRepair(outcome) ==
  /\ Outstanding
  /\ task.dispatch.id.phase # "stage"
  /\ task' = CloseDispatch(RecordRecoveryResult(task, AsPass(outcome)), outcome)
  /\ UNCHANGED <<head, started, built>>

IngestRecovery == \E outcome \in Outcome : IngestRepair(outcome)

\* The agent left no usable result, or its result was refused.
FailDispatch ==
  /\ Outstanding
  /\ \/ task' = RecordSeatPause(task)
     \/ /\ task.dispatch.id.phase # "stage"
        /\ task' = CloseDispatch(RecordRecoveryResult(task, "fail"), "lost")
     \/ /\ task.dispatch.id.phase = "stage"
        /\ \E cause \in Cause :
             LET stage   == task.dispatch.stage
                 blocked == [CloseDispatch(task, "lost") EXCEPT
                               !.status = "blocked",
                               !.blocker = Blocker(stage, "fail", cause, FALSE)]
             IN task' = RouteOrRecover(blocked, stage, stage, "harness")
  /\ UNCHANGED <<head, started, built>>

\* A deterministic control-flow failure is parked for the founder; an active
\* recovery attempt stays active.
BlockDispatch ==
  /\ Outstanding
  /\ task' = [CloseDispatch(task, "lost") EXCEPT
                !.status = "blocked",
                !.blocker = Blocker(task.dispatch.stage, "decision-required", "other", TRUE)]
  /\ UNCHANGED <<head, started, built>>

\* Mutant: the crashed runner's dispatch is left in place.
RunnerCrash_KeepsDispatch ==
  /\ task.status = "active"
  /\ task' = [task EXCEPT !.status = "blocked",
                !.blocker = Blocker(DispatchStage(task), "fail", "other", TRUE)]
  /\ UNCHANGED <<head, started, built>>

\* recordRunnerCrash: any throw out of the runner; the dispatch is dropped.
RunnerCrash ==
  /\ task.status = "active"
  /\ task' = [task EXCEPT !.status = "blocked", !.dispatch = NoDispatch,
                !.blocker = Blocker(DispatchStage(task), "fail", "other", TRUE)]
  /\ UNCHANGED <<head, started, built>>

-----------------------------------------------------------------------------
(* The founder and the sweep                                               *)

FounderResume ==
  /\ CanResume(task)
  /\ task' = ResumeState(task)
  /\ UNCHANGED <<head, started, built>>

\* resolveFounderDecision: answers the question and resumes; a high-risk build
\* must go through the signed approval instead.
ResolveFounderDecision ==
  /\ CanResume(task)
  /\ task.blocker.outcome = "decision-required"
  /\ ~(HighRisk /\ task.blocker.stage = "builder")
  /\ task' = ResumeState(task)
  /\ UNCHANGED <<head, started, built>>

RecordFounderApproval ==
  /\ HighRisk
  /\ LET approved == [task EXCEPT !.approved = TRUE]
     IN task' = IF task.status = "blocked" /\ task.blocker.stage = "builder"
                THEN [approved EXCEPT !.status = "active", !.blocker = NoBlocker]
                ELSE approved
  /\ UNCHANGED <<head, started, built>>

ClassifyBlocker(b) ==
  CASE b.outcome = "decision-required" \/ b.founderAction -> "decision"
    [] b.outcome = "paused-credits" -> "infra"
    [] OTHER -> IF b.cause = "infra" THEN "infra" ELSE "hard"

\* A blocked task the system may resume on its own; a seat pause costs nothing.
SweepBlocked ==
  /\ CanResume(task)
  /\ ClassifyBlocker(task.blocker) = "infra"
  /\ LET seatPause == task.blocker.outcome = "paused-credits"
     IN /\ seatPause \/ task.autoRetries < MaxRetries
        /\ task' = [ResumeState(task) EXCEPT !.autoRetries = IF seatPause THEN @ ELSE @ + 1]
  /\ UNCHANGED <<head, started, built>>

\* A stuck dispatch goes on the record and the current stage is armed again.
DropOrphan(s) ==
  LET dropped == IF s.dispatch.status = "none" THEN s ELSE CloseDispatch(s, "lost")
  IN [dropped EXCEPT !.stages[s.currentStage] = Pending]

\* An active task nobody has touched for staleActiveMs: its runner is gone.
SweepOrphan ==
  /\ task.status = "active"
  /\ task.autoRetries < MaxRetries
  /\ task' = [DropOrphan(task) EXCEPT !.autoRetries = @ + 1]
  /\ UNCHANGED <<head, started, built>>

\* The same for a node of an objective whose recorded runner is gone: recovering
\* an objective does not spend the task's retries.
RecoverOrphanNode ==
  /\ task.status = "active"
  /\ task' = DropOrphan(task)
  /\ UNCHANGED <<head, started, built>>

\* Somebody commits to the worktree: an agent at work, or anyone else.
NewCommit ==
  /\ head < MaxCommits
  /\ head' = head + 1
  /\ UNCHANGED <<task, started, built>>

\* The factory on its own, with no founder and no sweep.
Engine == PrepareDispatch \/ MarkDispatchRunning \/ IngestStage \/ IngestInfraFailure
            \/ IngestRecovery \/ FailDispatch \/ BlockDispatch
Sweep  == SweepBlocked \/ SweepOrphan \/ RecoverOrphanNode
Founder == FounderResume \/ ResolveFounderDecision \/ RecordFounderApproval

\* A runner that nobody interrupts.
EngineSpec == Init /\ [][Engine \/ NewCommit]_vars

Next == Engine \/ RunnerCrash \/ Sweep \/ Founder \/ NewCommit
Spec == Init /\ [][Next]_vars

-----------------------------------------------------------------------------
(* Properties                                                              *)

Id == [phase : {"none", "stage", "diagnose", "verify"}, stage : Stage \cup {NoStage},
       n : Nat, re : Nat]
Attempt == [incident : Nat, failedStage : Stage, target : {"project", "factory"},
            status : {"diagnosing", "failed", "verified"}]

DispatchRecord == [id : Id, stage : Stage, end : End]
Dispatch == [id : Id, stage : Stage \cup {NoStage}, status : {"none", "ready", "running"}]
StageResult == [status : {"pending", "pass", "fail", "decision-required"},
                commit : Commits \cup {NoCommit}]
BlockerRecord == [stage : Stage \cup {NoStage},
                  outcome : {"none", "fail", "decision-required", "paused-credits"},
                  cause : Cause, founderAction : BOOLEAN]
ActiveRecovery == [phase : {"none", "diagnose", "verify"},
                   failedStage : Stage \cup {NoStage}, ordinal : Nat]
Recovery == [incident : Nat, attempts : Seq(Attempt), active : ActiveRecovery]
Task ==
  [status : {"active", "blocked", "merge-ready"},
   currentStage : Stage \cup {NoStage},
   stages : [Stage -> StageResult],
   blocker : BlockerRecord,
   dispatch : Dispatch,
   dispatches : Seq(DispatchRecord),
   recovery : Recovery,
   verifiedCommit : Commits \cup {NoCommit},
   approved : BOOLEAN,
   autoRetries : Nat]

\* The shape of the durable task document and of the worktree.
TypeOK ==
  /\ task \in Task
  /\ head \in Commits
  /\ built \in Commits \cup {NoCommit}

\* The outstanding dispatch always belongs to the work the engine is on: its
\* stage is the current one, its kind is the phase of the open recovery attempt
\* (or a plain stage), and only an active task owns one.  A result is applied
\* to whatever the state says is current, so a dispatch that outlived a stage
\* change would be recorded against the wrong stage (ingestResult).
DispatchMatchesEngine ==
  LET a == task.recovery.active IN
  /\ task.status = "merge-ready" <=> task.currentStage = NoStage
  /\ a.phase # "none" => a.failedStage = task.currentStage
  /\ task.dispatch.status # "none" =>
       /\ task.status = "active"
       /\ task.dispatch.stage = task.currentStage
       /\ task.dispatch.id.phase = IF a.phase = "none" THEN "stage" ELSE a.phase

\* The pipeline is worked strictly in order: every stage before the current one
\* has passed, every later one is pending, whatever was routed back, repaired,
\* resumed or swept; so no verdict on superseded work survives downstream.
PipelineInOrder ==
  \A t \in Stage :
    IF task.currentStage = NoStage THEN task.stages[t].status = "pass"
    ELSE /\ Index(t) < Index(task.currentStage) => task.stages[t].status = "pass"
         /\ Index(t) > Index(task.currentStage) => task.stages[t] = Pending

\* recordRecoveryResult writes to attempts.at(-1), not to the attempt the active
\* phase names: they are the same attempt, still being diagnosed, and of the
\* open incident.
RecoveryAnchored ==
  LET r == task.recovery IN
    r.active.phase # "none" =>
      /\ r.active.ordinal = Len(r.attempts)
      /\ Len(r.attempts) > 0
      /\ LastAttempt(task).status = "diagnosing"
      /\ LastAttempt(task).incident = r.incident
      /\ LastAttempt(task).failedStage = r.active.failedStage

\* Automated repair is bounded: per incident, and over the whole task however
\* many incidents resumes and verified repairs close.
RecoveryBounded ==
  /\ Len(task.recovery.attempts) <= 3 * MaxRecovery
  /\ \A k \in 1 .. task.recovery.incident :
       Cardinality({i \in DOMAIN task.recovery.attempts :
                      task.recovery.attempts[i].incident = k}) <= MaxRecovery

\* prepareDispatch refuses a spent id, and the refusal kills the runner.  It is
\* never reached: the id an active task computes next is not on its record,
\* and the record itself holds no answered id twice.
NextIdIsFresh ==
  /\ task.status = "active" /\ task.dispatch.status = "none" =>
       UsesOf(task, DispatchId(task)) = {}
  /\ \A i, j \in DOMAIN task.dispatches :
       task.dispatches[i].id = task.dispatches[j].id => i = j

\* High-risk work: no builder dispatch, and no builder verdict, without the
\* founder's approval, on any route to the builder.
BuildIsAuthorized ==
  HighRisk /\ ~task.approved =>
    /\ task.dispatch.stage # "builder"
    /\ task.stages["builder"].status = "pending"
    /\ task.currentStage = "builder" => task.status = "blocked"

\* A blocked task has an owner: the founder is asked, or it is a seat pause the
\* sweep resumes.  A plain "fail" left behind would wait for nobody.
BlockHasOwner ==
  task.status = "blocked" =>
    ClassifyBlocker(task.blocker) = "decision" \/ task.blocker.outcome = "paused-credits"

\* The task becomes merge-ready only on the tree the builder last left, and
\* every gate's manifest names that tree.
ReleasesReviewedTree ==
  [][task'.status = "merge-ready" /\ task.status # "merge-ready" =>
       /\ head = built
       /\ task'.verifiedCommit = built
       /\ \A t \in Stage \cap PROVING_STAGES : task'.stages[t].commit = built]_vars

\* "Nothing is charged": entering a seat pause, and the sweep's resume out of
\* it, leave the recovery attempt, both stage budgets and the retry allowance
\* as they were.
SeatPauseIsFree ==
  [][(task.blocker.outcome = "paused-credits") # (task'.blocker.outcome = "paused-credits") =>
       \/ task'.blocker.founderAction
       \/ /\ task'.recovery.attempts = task.recovery.attempts
          /\ task'.recovery.active = task.recovery.active
          /\ task'.autoRetries = task.autoRetries
          /\ \A t \in Stage : /\ VerdictCount(task', t) = VerdictCount(task, t)
                              /\ InfraCount(task', t) = InfraCount(task, t)]_vars

\* The model's bound on dispatches is never met: budgets and ceilings alone
\* end an uninterrupted run.
SpendIsBounded == Len(task.dispatches) < MaxDispatches

=============================================================================
