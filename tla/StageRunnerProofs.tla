--------------------------- MODULE StageRunnerProofs --------------------------
(***************************************************************************)
(* Machine-checked proofs about the processes that run a task (StageRunner).*)
(*                                                                         *)
(* Every behaviour of any number of runners, agents, sweeps and founders   *)
(* is a behaviour of TaskWorkflow, so what is proved of it holds of the    *)
(* document they share.  A factory left alone spends a bounded number of   *)
(* dispatches, and the fan-out of a runner that nothing interrupts judges  *)
(* the tree the builder last left.                                         *)
(***************************************************************************)
EXTENDS StageRunner, TaskWorkflowProofs

-----------------------------------------------------------------------------
(* The processes implement the workflow                                    *)

\* Starts and sweeps of a runner: a workflow step of the founder or the sweep,
\* or no change of the document.
LEMMA StarterStep ==
  ASSUME NEW r \in Runner, Starter(r)
  PROVE  [Next]_vars
<1>1. CASE StartRun(r)
  BY <1>1 DEF StartRun, workflow, vars
<1>2. CASE FounderRetry(r)
  BY <1>2 DEF FounderRetry, Next, Founder
<1>3. CASE SweepRun(r)
  BY <1>3 DEF SweepRun, Next, Sweep
<1>4. CASE ObjectiveRecovers(r)
  BY <1>4 DEF ObjectiveRecovers, Next, Sweep
<1>5. QED
  BY <1>1, <1>2, <1>3, <1>4 DEF Starter

\* The file of the current dispatch is applied by one of the engine's ingests.
LEMMA IngestStep ==
  ASSUME NEW file, Ingest(file)
  PROVE  Engine
<1>1. CASE file.outcome = "infra" /\ IngestInfraFailure
  BY <1>1 DEF Engine
<1>2. CASE file.outcome \in Outcome /\ \E cause \in Cause : IngestVerdict(file.outcome, cause)
  BY <1>2 DEF Engine, IngestStage
<1>3. CASE file.outcome \in Outcome /\ IngestRepair(file.outcome)
  BY <1>3 DEF Engine, IngestRecovery
<1>4. QED
  BY <1>1, <1>2, <1>3 DEF Ingest

\* The steps of a runner that write the document are the engine's commands, or record
\* its crash.
LEMMA WritingStep ==
  ASSUME NEW r \in Runner,
         Throw(r) \/ Prepare(r) \/ TakeOver(r) \/ Mark(r) \/ Consume(r) \/ ConsumeBlocks(r)
  PROVE  Engine \/ RunnerCrash \/ UNCHANGED vars
<1>1. CASE Throw(r)
  BY <1>1 DEF Throw, workflow, vars
<1>2. CASE Prepare(r)
  BY <1>2 DEF Prepare, Engine
<1>3. CASE TakeOver(r)
  BY <1>3, IngestStep DEF TakeOver
<1>4. CASE Mark(r)
  BY <1>4 DEF Mark, Engine, workflow, vars
<1>5. CASE Consume(r)
  <2>1. CASE HasResult(run[r].id) /\ Ingest(results[run[r].id])
    BY <2>1, IngestStep
  <2>2. CASE FailDispatch
    BY <2>2 DEF Engine
  <2>3. QED
    BY <1>5, <2>1, <2>2 DEF Consume
<1>6. CASE ConsumeBlocks(r)
  BY <1>6 DEF ConsumeBlocks, Engine
<1>7. QED
  BY <1>1, <1>2, <1>3, <1>4, <1>5, <1>6

\* The other steps of a runner leave the document alone.
LEMMA ReadingStep ==
  ASSUME NEW r \in Runner,
         \/ EndRun(r) \/ StartGroup(r) \/ WaitForGroup(r) \/ SkipGroup(r) \/ YieldMember(r)
         \/ CollectGroup(r) \/ DiscardRest(r) \/ PrepareWaits(r) \/ Adopt(r) \/ CallReturns(r)
         \/ CallYields(r) \/ WaitEnds(r) \/ ConsumeStale(r) \/ Kill(r)
  PROVE  UNCHANGED vars
<1>1. UNCHANGED workflow
  BY DEF EndRun, StartGroup, WaitForGroup, SkipGroup, YieldMember, CollectGroup, DiscardRest,
         PrepareWaits, Adopt, CallReturns, CallYields, WaitEnds, ConsumeStale, Kill
<1>2. QED
  BY <1>1 DEF workflow, vars

\* However many processes run a task, and however they are killed, yield, race
\* or are restarted, the document only takes the steps of the engine, the sweep
\* and the founder (openclaw-runner.mjs writes it through openclaw-protocol.mjs).
THEOREM RunnerImplementsWorkflow == RunnerSpec => ImplementsWorkflow
<1>1. RunnerInit => Init
  BY DEF RunnerInit
<1>2. ASSUME [RunnerNext]_allVars
      PROVE  [Next]_vars
  <2>1. CASE UNCHANGED allVars
    BY <2>1 DEF allVars, vars
  <2>2. ASSUME NEW r \in Runner, RunnerStep(r) \/ Starter(r) \/ Kill(r)
        PROVE  [Next]_vars
    BY <2>2, StarterStep, WritingStep, ReadingStep DEF RunnerStep, StageStep, Next
  <2>3. CASE AgentWrites \/ AgentDies
    BY <2>3 DEF AgentWrites, AgentDies, workflow, vars
  <2>4. CASE OtherCommits
    BY <2>4 DEF OtherCommits, Next
  <2>5. QED
    BY <1>2, <2>1, <2>2, <2>3, <2>4 DEF RunnerNext
<1>3. QED
  BY <1>1, <1>2, PTL DEF RunnerSpec, ImplementsWorkflow, Spec

\* So the outstanding dispatch belongs to the work the engine is on even when
\* several runners, a sweep and the founder work on the task at once.
THEOREM RunnersKeepDispatchMatched == RunnerSpec => []DispatchMatchesEngine
BY RunnerImplementsWorkflow, DispatchAlwaysMatches, PTL DEF ImplementsWorkflow

\* And no gate verdict on superseded work stays downstream of the current stage.
THEOREM RunnersKeepPipelineInOrder == RunnerSpec => []PipelineInOrder
BY RunnerImplementsWorkflow, PipelineAlwaysInOrder, PTL DEF ImplementsWorkflow

\* Nor do the processes together get more repairs, spend an id twice, build without
\* approval, leave a stopped task to nobody or charge a seat pause.
THEOREM RunnersKeepEnginePromises ==
  RunnerSpec => /\ [](RecoveryBounded /\ NextIdIsFresh /\ BuildIsAuthorized)
                /\ [](RecoveryAnchored /\ StoppedIsSomebodys)
                /\ SeatPauseIsFree
<1>1. Spec => /\ [](RecoveryBounded /\ NextIdIsFresh /\ BuildIsAuthorized)
              /\ [](RecoveryAnchored /\ StoppedIsSomebodys)
              /\ SeatPauseIsFree
  BY RepairIsBounded, IdsAreFresh, BuildAlwaysAuthorized, RecoveryAlwaysAnchored,
     AlwaysSomebodys, SeatPausesAreFree, PTL
<1>2. QED
  BY <1>1, RunnerImplementsWorkflow DEF ImplementsWorkflow

-----------------------------------------------------------------------------
(* What a task left alone can cost                                         *)
(*                                                                         *)
(* Every dispatch that is closed makes one of the engine's budgets smaller, *)
(* and only a budget of less weight larger.  Cost weighs what is left.     *)

\* The engine, the crashes of its runners and the sweep; the founder stays away.
SelfNext == Engine \/ RunnerCrash \/ SweepBlocked \/ SweepOrphan \/ NewCommit

Slack(limit, used) == IF used < limit THEN limit - used ELSE 0

\* `a' first, then `b', which is at most `w'.
Weigh(w, a, b) == (w + 1) * a + b

\* A task nobody but the founder, or a merge, takes further.
Ended(s) ==
  \/ s.status = "merge-ready"
  \/ s.status = "blocked" /\ s.blocker.outcome # "paused-credits"

\* Rejections and faults of a review stage that are not its last.
Trials(s, stage) == Slack(MaxVerdicts - 1, VerdictCount(s, stage))
                      + Slack(StageInfraLimit(stage) - 1, InfraCount(s, stage))
AllTrials(s) == Trials(s, "reviewer") + Trials(s, "qa")
                  + Trials(s, "security") + Trials(s, "release")

\* Repair attempts not opened yet, and the steps of the one under way.
Steps(phase) == IF phase = "diagnose" THEN 2 ELSE IF phase = "verify" THEN 1 ELSE 0
Repairs(s) == 3 * Slack(3 * MaxRecovery, Len(s.recovery.attempts))
                + Steps(s.recovery.active.phase)

Tries(s) == AllTrials(s) + Repairs(s) + (IF Ended(s) THEN 0 ELSE 1)

Away(s) == IF s.currentStage = NoStage THEN 0 ELSE Len(STAGES) - Index(s.currentStage)

SeatSlack(s) == Slack(MaxSeatPauses, ConsecutiveSeatPauses(s.dispatches))

Progress(s) == Weigh(Len(STAGES) - 1, Tries(s), Away(s))
Retried(s)  == Weigh(MaxRetries, Progress(s), Slack(MaxRetries, s.autoRetries))
Cost(s)     == Weigh(MaxSeatPauses, Retried(s), SeatSlack(s))

LEMMA SlackTyped ==
  ASSUME NEW limit \in Nat, NEW used \in Nat
  PROVE  Slack(limit, used) \in Nat /\ Slack(limit, used) <= limit
BY DEF Slack

LEMMA SlackShrinks ==
  ASSUME NEW limit \in Nat, NEW used \in Nat, NEW more \in Nat, used <= more
  PROVE  /\ Slack(limit, more) <= Slack(limit, used)
         /\ used < more /\ used < limit => Slack(limit, more) < Slack(limit, used)
BY DEF Slack

LEMMA WeighTyped ==
  ASSUME NEW w \in Nat, NEW a \in Nat, NEW b \in Nat
  PROVE  Weigh(w, a, b) \in Nat
<1>1. (w + 1) * a \in Nat
  OBVIOUS
<1>2. QED
  BY <1>1 DEF Weigh

LEMMA WeighLess ==
  ASSUME NEW w \in Nat, NEW a \in Nat, NEW b \in Nat, NEW c \in Nat, NEW d \in Nat
  PROVE  /\ c < a /\ d <= w => Weigh(w, c, d) < Weigh(w, a, b)
         /\ c <= a /\ d <= b => Weigh(w, c, d) <= Weigh(w, a, b)
         /\ c <= a /\ d < b => Weigh(w, c, d) < Weigh(w, a, b)
<1>1. ASSUME c <= a PROVE (w + 1) * c <= (w + 1) * a
  <2>1. PICK e \in Nat : a = c + e
    <3>1. a - c \in Nat /\ a = c + (a - c)
      BY <1>1
    <3>2. QED
      BY <3>1
  <2>2. (w + 1) * a = (w + 1) * c + (w + 1) * e
    BY <2>1
  <2>3. (w + 1) * e \in Nat /\ (w + 1) * c \in Nat
    BY <2>1
  <2>4. QED
    BY <2>2, <2>3
<1>2. ASSUME c < a PROVE (w + 1) * c + (w + 1) <= (w + 1) * a
  <2>1. PICK e \in Nat : a = c + 1 + e
    <3>1. a - c - 1 \in Nat /\ a = c + 1 + (a - c - 1)
      BY <1>2
    <3>2. QED
      BY <3>1
  <2>2. (w + 1) * a = (w + 1) * c + (w + 1) + (w + 1) * e
    BY <2>1
  <2>3. (w + 1) * e \in Nat /\ (w + 1) * c \in Nat
    BY <2>1
  <2>4. QED
    BY <2>2, <2>3
<1>3. (w + 1) * c \in Nat /\ (w + 1) * a \in Nat
  OBVIOUS
<1>4. QED
  BY <1>1, <1>2, <1>3 DEF Weigh

LEMMA LimitsTyped ==
  /\ MaxVerdicts - 1 \in Nat /\ 3 * MaxRecovery \in Nat /\ Len(STAGES) - 1 \in Nat
  /\ MaxRetries \in Nat /\ MaxSeatPauses \in Nat
  /\ \A stage : StageInfraLimit(stage) - 1 \in Nat
BY BudgetAssumption, StagesFacts DEF StageInfraLimit

LEMMA StageCountsTyped ==
  ASSUME NEW s, s \in Task, NEW stage
  PROVE  /\ VerdictCount(s, stage) \in Nat /\ InfraCount(s, stage) \in Nat
         /\ Trials(s, stage) \in Nat
<1>1. VerdictCount(s, stage) \in Nat /\ InfraCount(s, stage) \in Nat
  BY CountTyped DEF VerdictCount, InfraCount
<1>2. PICK m \in Nat, n \in Nat : m = MaxVerdicts - 1 /\ n = StageInfraLimit(stage) - 1
  BY LimitsTyped
<1>3. PICK v, i : v = VerdictCount(s, stage) /\ i = InfraCount(s, stage)
  OBVIOUS
<1>4. Trials(s, stage) = Slack(m, v) + Slack(n, i)
  BY <1>2, <1>3 DEF Trials
<1>5. Slack(m, v) \in Nat /\ Slack(n, i) \in Nat
  BY <1>1, <1>3, SlackTyped
<1>6. QED
  BY <1>1, <1>4, <1>5

LEMMA CostTyped ==
  ASSUME NEW s, s \in Task
  PROVE  /\ AllTrials(s) \in Nat /\ Repairs(s) \in Nat /\ Tries(s) \in Nat
         /\ Away(s) \in Nat /\ Away(s) <= Len(STAGES) - 1
         /\ Slack(MaxRetries, s.autoRetries) \in Nat
         /\ Slack(MaxRetries, s.autoRetries) <= MaxRetries
         /\ SeatSlack(s) \in Nat /\ SeatSlack(s) <= MaxSeatPauses
         /\ Progress(s) \in Nat /\ Retried(s) \in Nat /\ Cost(s) \in Nat
<1>1. AllTrials(s) \in Nat
  BY StageCountsTyped DEF AllTrials
<1>2. Repairs(s) \in Nat
  <2>1. Slack(3 * MaxRecovery, Len(s.recovery.attempts)) \in Nat
    BY RecoveryTyped, LimitsTyped, SlackTyped
  <2>2. QED
    BY <2>1 DEF Repairs, Steps
<1>3. Tries(s) \in Nat
  BY <1>1, <1>2 DEF Tries
<1>4. Away(s) \in Nat /\ Away(s) <= Len(STAGES) - 1
  <2>1. s.currentStage \in Stage \cup {NoStage}
    BY DEF Task
  <2>2. CASE s.currentStage = NoStage
    BY <2>2, StagesFacts DEF Away
  <2>3. CASE s.currentStage \in Stage
    <3>1. /\ Index(s.currentStage) \in Int /\ 1 <= Index(s.currentStage)
          /\ Index(s.currentStage) <= Len(STAGES)
      BY <2>3, IndexTyped
    <3>2. Away(s) = Len(STAGES) - Index(s.currentStage)
      BY <2>3, StagesFacts DEF Away
    <3>3. QED
      BY <3>1, <3>2, StagesFacts
  <2>4. QED
    BY <2>1, <2>2, <2>3
<1>5. /\ Slack(MaxRetries, s.autoRetries) \in Nat
      /\ Slack(MaxRetries, s.autoRetries) <= MaxRetries
  BY LimitsTyped, SlackTyped DEF Task
<1>6. SeatSlack(s) \in Nat /\ SeatSlack(s) <= MaxSeatPauses
  BY PausesTyped, LimitsTyped, SlackTyped DEF SeatSlack
<1>7. Progress(s) \in Nat
  BY <1>3, <1>4, LimitsTyped, WeighTyped DEF Progress
<1>8. Retried(s) \in Nat
  BY <1>5, <1>7, LimitsTyped, WeighTyped DEF Retried
<1>9. Cost(s) \in Nat
  BY <1>6, <1>8, LimitsTyped, WeighTyped DEF Cost
<1>10. QED
  BY <1>1, <1>2, <1>3, <1>4, <1>5, <1>6, <1>7, <1>8, <1>9

\* No record gives a trial back, and a stage that fails with trials left uses one up.
LEMMA TrialsAppend ==
  ASSUME NEW s, s \in Task, NEW r, r \in Task, NEW d, r.dispatches = Append(s.dispatches, d),
         NEW stage
  PROVE  /\ Trials(r, stage) <= Trials(s, stage)
         /\ /\ d.id.phase = "stage" /\ d.stage = stage /\ d.end \in {"fail", "infra", "lost"}
            /\ ~StageBudgetExceeded(r, stage)
            => Trials(r, stage) < Trials(s, stage)
<1> DEFINE v == VerdictCount(s, stage)   w == VerdictCount(r, stage)
           i == InfraCount(s, stage)     j == InfraCount(r, stage)
           vs == Slack(MaxVerdicts - 1, v)   ws == Slack(MaxVerdicts - 1, w)
           is == Slack(StageInfraLimit(stage) - 1, i)
           js == Slack(StageInfraLimit(stage) - 1, j)
<1>1. v \in Nat /\ w \in Nat /\ i \in Nat /\ j \in Nat
  BY StageCountsTyped
<1>2. /\ w = v + (IF d.id.phase = "stage" /\ d.stage = stage
                     /\ d.end \in Outcome \ SUCCESS_OUTCOMES THEN 1 ELSE 0)
      /\ j = i + (IF d.id.phase = "stage" /\ d.stage = stage
                     /\ d.end \in {"lost", "infra"} THEN 1 ELSE 0)
  BY DispatchesAppend DEF VerdictCount, InfraCount
<1>3. /\ "fail" \in Outcome \ SUCCESS_OUTCOMES
      /\ MaxVerdicts - 1 \in Nat /\ StageInfraLimit(stage) - 1 \in Nat
  BY LimitsTyped DEF Outcome, SUCCESS_OUTCOMES
<1>4. ~StageBudgetExceeded(r, stage) => w <= MaxVerdicts - 1 /\ j <= StageInfraLimit(stage) - 1
  <2>1. MaxVerdicts \in Int /\ StageInfraLimit(stage) \in Int
    BY BudgetAssumption DEF StageInfraLimit
  <2>2. QED
    BY <1>1, <2>1 DEF StageBudgetExceeded
<1>5. Trials(s, stage) = vs + is /\ Trials(r, stage) = ws + js
  BY DEF Trials
<1> HIDE DEF v, w, i, j
<1>6. /\ vs \in Nat /\ ws \in Nat /\ is \in Nat /\ js \in Nat
      /\ ws <= vs /\ js <= is
      /\ v < w /\ v < MaxVerdicts - 1 => ws < vs
      /\ i < j /\ i < StageInfraLimit(stage) - 1 => js < is
  <2>1. PICK m \in Nat, n \in Nat : m = MaxVerdicts - 1 /\ n = StageInfraLimit(stage) - 1
    BY <1>3
  <2>2. /\ vs = Slack(m, v) /\ ws = Slack(m, w) /\ is = Slack(n, i) /\ js = Slack(n, j)
    BY <2>1
  <2>3. v <= w /\ i <= j
    BY <1>1, <1>2
  <2> HIDE DEF vs, ws, is, js
  <2>4. QED
    BY <1>1, <2>1, <2>2, <2>3, SlackTyped, SlackShrinks
<1> HIDE DEF vs, ws, is, js
<1>7. QED
  BY <1>1, <1>2, <1>3, <1>4, <1>5, <1>6

LEMMA AllTrialsAppend ==
  ASSUME NEW s, s \in Task, NEW r, r \in Task, NEW d, r.dispatches = Append(s.dispatches, d)
  PROVE  /\ AllTrials(r) <= AllTrials(s)
         /\ /\ d.id.phase = "stage" /\ d.stage \in REVIEW_STAGES
            /\ d.end \in {"fail", "infra", "lost"} /\ ~StageBudgetExceeded(r, d.stage)
            => AllTrials(r) < AllTrials(s)
<1>1. \A t \in REVIEW_STAGES : /\ Trials(s, t) \in Nat /\ Trials(r, t) \in Nat
                               /\ Trials(r, t) <= Trials(s, t)
  BY StageCountsTyped, TrialsAppend
<1>2. ASSUME d.id.phase = "stage", d.end \in {"fail", "infra", "lost"},
             ~StageBudgetExceeded(r, d.stage)
      PROVE  Trials(r, d.stage) < Trials(s, d.stage)
  BY <1>2, TrialsAppend
<1>3. PICK a \in Nat, b \in Nat, c \in Nat, e \in Nat :
        /\ a = Trials(s, "reviewer") /\ b = Trials(s, "qa")
        /\ c = Trials(s, "security") /\ e = Trials(s, "release")
  BY <1>1 DEF REVIEW_STAGES
<1>4. PICK i \in Nat, j \in Nat, k \in Nat, l \in Nat :
        /\ i = Trials(r, "reviewer") /\ j = Trials(r, "qa")
        /\ k = Trials(r, "security") /\ l = Trials(r, "release")
  BY <1>1 DEF REVIEW_STAGES
<1>5. AllTrials(s) = a + b + c + e /\ AllTrials(r) = i + j + k + l
  BY <1>3, <1>4 DEF AllTrials
<1>6. i <= a /\ j <= b /\ k <= c /\ l <= e
  BY <1>1, <1>3, <1>4 DEF REVIEW_STAGES
<1>7. AllTrials(r) <= AllTrials(s)
  BY <1>5, <1>6
<1>8. ASSUME NEW t \in REVIEW_STAGES, Trials(r, t) < Trials(s, t)
      PROVE  AllTrials(r) < AllTrials(s)
  <2>1. i < a \/ j < b \/ k < c \/ l < e
    BY <1>3, <1>4, <1>8 DEF REVIEW_STAGES
  <2>2. QED
    BY <1>5, <1>6, <2>1
<1>9. QED
  BY <1>2, <1>7, <1>8

\* A pause at the end of the record is one more in a row.
LEMMA PauseGrows ==
  ASSUME NEW s, s \in Task, NEW r, NEW d, r.dispatches = Append(s.dispatches, d),
         d.end = "seat"
  PROVE  ConsecutiveSeatPauses(r.dispatches) = ConsecutiveSeatPauses(s.dispatches) + 1
<1> DEFINE L == Len(s.dispatches)
           A == {i \in DOMAIN s.dispatches :
                   \A j \in i .. Len(s.dispatches) : s.dispatches[j].end = "seat"}
           B == {i \in DOMAIN r.dispatches :
                   \A j \in i .. Len(r.dispatches) : r.dispatches[j].end = "seat"}
<1>1. /\ DOMAIN s.dispatches = 1 .. L /\ L \in Nat
      /\ DOMAIN r.dispatches = 1 .. L + 1 /\ Len(r.dispatches) = L + 1
      /\ r.dispatches[L + 1] = d
      /\ \A i \in 1 .. L : r.dispatches[i] = s.dispatches[i]
  <2>1. s.dispatches \in Seq(DispatchRecord)
    BY DEF Task
  <2>2. QED
    BY <2>1
<1>2. A \in SUBSET (1 .. L) /\ L + 1 \notin A
  BY <1>1
<1>3. IsFiniteSet(A)
  <2>1. IsFiniteSet(1 .. L)
    BY <1>1, FS_Interval
  <2> HIDE DEF A, L
  <2>2. QED
    BY <1>2, <2>1, FS_Subset
<1>4. B = A \cup {L + 1}
  <2> HIDE DEF L
  <2>1. ASSUME NEW i \in 1 .. L
        PROVE  i \in B <=> i \in A
    BY <1>1
  <2>2. L + 1 \in B
    BY <1>1
  <2>3. QED
    BY <1>1, <1>2, <2>1, <2>2
<1>5. Cardinality(A \cup {L + 1}) = Cardinality(A) + 1
  <2> HIDE DEF A, L
  <2>1. QED
    BY <1>2, <1>3, FS_AddElement
<1>6. QED
  BY <1>4, <1>5 DEF ConsecutiveSeatPauses

\* What is left after a dispatch was closed: fewer tries, or a shorter way with as many,
\* or one more pause where the task stood.
LEMMA ClosedTries ==
  ASSUME NEW s, NEW r, NEW end \in End, Core(s), Owned(s), Core(r), Closes(s, r, end),
         Settles(s, r, end)
  PROVE  \/ Tries(r) < Tries(s)
         \/ Tries(r) <= Tries(s) /\ Away(r) < Away(s)
         \/ /\ Tries(r) <= Tries(s) /\ Away(r) = Away(s) /\ r.autoRetries = s.autoRetries
            /\ end = "seat" /\ ConsecutiveSeatPauses(r.dispatches) < MaxSeatPauses
<1> DEFINE d == [id |-> s.dispatch.id, stage |-> s.dispatch.stage, end |-> end]
           a == Len(s.recovery.attempts)   b == Len(r.recovery.attempts)
<1>1. /\ s \in Task /\ r \in Task /\ r.dispatches = Append(s.dispatches, d)
      /\ s.status = "active" /\ ~Ended(s)
  BY DEF Core, Owned, Closes, Ended
<1>2. d.id = s.dispatch.id /\ d.stage = s.dispatch.stage /\ d.end = end
  OBVIOUS
<1> HIDE DEF d
<1>3. /\ AllTrials(r) <= AllTrials(s)
      /\ Retries(s, r, end) => AllTrials(r) < AllTrials(s)
  BY <1>1, <1>2, AllTrialsAppend DEF Retries
<1>4. /\ AllTrials(s) \in Nat /\ AllTrials(r) \in Nat /\ Repairs(s) \in Nat
      /\ Repairs(r) \in Nat
  BY <1>1, CostTyped
<1>5. r.recovery = s.recovery => Repairs(r) = Repairs(s)
  BY DEF Repairs
<1>6. /\ a \in Nat /\ b \in Nat /\ 3 * MaxRecovery \in Nat
      /\ s.recovery.active.phase \in {"none", "diagnose", "verify"}
      /\ r.recovery.active.phase \in {"none", "diagnose", "verify"}
  BY <1>1, RecoveryTyped, LimitsTyped DEF ActiveRecovery
<1>7. /\ Repairs(s) = 3 * Slack(3 * MaxRecovery, a) + Steps(s.recovery.active.phase)
      /\ Repairs(r) = 3 * Slack(3 * MaxRecovery, b) + Steps(r.recovery.active.phase)
  BY DEF Repairs
<1>8. RecoveryBudgetLeft(s) /\ Opens(s, r) => Repairs(r) < Repairs(s)
  <2>1. RecoveryBudgetLeft(s) /\ Opens(s, r) => a < 3 * MaxRecovery /\ b = a + 1
    BY DEF RecoveryBudgetLeft, Opens
  <2> HIDE DEF a, b
  <2>2. QED
    BY <1>6, <1>7, <2>1 DEF Slack, Steps
<1>9. Rests(s, r) => /\ Repairs(r) <= Repairs(s)
                     /\ s.recovery.active.phase # "none" => Repairs(r) < Repairs(s)
  <2>1. Rests(s, r) => b = a /\ r.recovery.active.phase = "none"
    BY DEF Rests
  <2>2. PICK x : x = Slack(3 * MaxRecovery, a)
    OBVIOUS
  <2>3. x \in Nat
    BY <1>6, <2>2, SlackTyped
  <2> HIDE DEF a, b
  <2>4. QED
    BY <1>6, <1>7, <2>1, <2>2, <2>3 DEF Steps
<1>10. Proceeds(s, r) => Repairs(r) < Repairs(s)
  <2>1. Proceeds(s, r) => /\ b = a /\ r.recovery.active.phase = "verify"
                          /\ s.recovery.active.phase = "diagnose"
    BY DEF Proceeds
  <2>2. PICK x : x = Slack(3 * MaxRecovery, a)
    OBVIOUS
  <2>3. x \in Nat
    BY <1>6, <2>2, SlackTyped
  <2> HIDE DEF a, b
  <2>4. QED
    BY <1>6, <1>7, <2>1, <2>2, <2>3 DEF Steps
<1>11. /\ Tries(s) = AllTrials(s) + Repairs(s) + 1
       /\ Tries(r) = AllTrials(r) + Repairs(r) + (IF Ended(r) THEN 0 ELSE 1)
  BY <1>1 DEF Tries
<1>12. Asks(r) \/ r.status = "merge-ready" => Ended(r)
  BY DEF Asks, Ended
<1> HIDE DEF a, b
<1>13. CASE Advances(s, r)
  <2>1. r.recovery = s.recovery
    BY <1>13 DEF Advances
  <2>2. CASE Ended(r)
    BY <1>3, <1>4, <1>5, <1>11, <2>1, <2>2
  <2>3. CASE ~Ended(r)
    <3>1. /\ s.currentStage \in Stage /\ Index(s.currentStage) # Len(STAGES)
          /\ r.currentStage = STAGES[Index(s.currentStage) + 1]
      BY <1>1, <1>12, <1>13, <2>3 DEF Advances, Core, Task
    <3>2. /\ r.currentStage \in Stage /\ Index(r.currentStage) = Index(s.currentStage) + 1
          /\ Index(s.currentStage) \in Int
      BY <3>1, Successor, IndexTyped
    <3>3. Away(r) < Away(s)
      BY <3>1, <3>2, StagesFacts DEF Away
    <3>4. QED
      BY <1>3, <1>4, <1>5, <1>11, <2>1, <2>3, <3>3
  <2>4. QED
    BY <2>2, <2>3
<1>14. CASE Asks(r) /\ (r.recovery = s.recovery \/ Rests(s, r))
  BY <1>3, <1>4, <1>5, <1>9, <1>11, <1>12, <1>14
<1>15. CASE Retries(s, r, end)
  BY <1>3, <1>4, <1>5, <1>11, <1>15 DEF Retries
<1>16. CASE RecoveryBudgetLeft(s) /\ Opens(s, r)
  BY <1>3, <1>4, <1>8, <1>11, <1>16
<1>17. CASE s.recovery.active.phase # "none" /\ (Rests(s, r) \/ Proceeds(s, r))
  BY <1>3, <1>4, <1>9, <1>10, <1>11, <1>17
<1>18. CASE end = "seat" /\ Pauses(s, r) /\ r.autoRetries = s.autoRetries
  BY <1>3, <1>4, <1>5, <1>11, <1>18 DEF Pauses, Away
<1>19. QED
  BY <1>13, <1>14, <1>15, <1>16, <1>17, <1>18 DEF Settles

\* Closing a dispatch costs something.
LEMMA ClosingCosts ==
  ASSUME NEW s, NEW r, NEW end \in End, Core(s), Owned(s), Core(r), Closes(s, r, end),
         Settles(s, r, end)
  PROVE  Cost(r) < Cost(s) /\ Len(r.dispatches) = Len(s.dispatches) + 1
<1> DEFINE d == [id |-> s.dispatch.id, stage |-> s.dispatch.stage, end |-> end]
<1>1. s \in Task /\ r \in Task /\ r.dispatches = Append(s.dispatches, d) /\ d.end = end
  BY DEF Core, Closes
<1> HIDE DEF d
<1>2. Len(r.dispatches) = Len(s.dispatches) + 1
  <2>1. s.dispatches \in Seq(DispatchRecord)
    BY <1>1 DEF Task
  <2>2. QED
    BY <1>1, <2>1
<1>3. Progress(r) < Progress(s) => Cost(r) < Cost(s)
  <2>1. Progress(r) < Progress(s) => Retried(r) < Retried(s)
    BY <1>1, CostTyped, LimitsTyped, WeighLess DEF Retried
  <2>2. Retried(r) < Retried(s) => Cost(r) < Cost(s)
    BY <1>1, CostTyped, LimitsTyped, WeighLess DEF Cost
  <2>3. QED
    BY <2>1, <2>2
<1>4. CASE Tries(r) < Tries(s)
  <2>1. Progress(r) < Progress(s)
    BY <1>1, <1>4, CostTyped, LimitsTyped, WeighLess DEF Progress
  <2>2. QED
    BY <1>2, <1>3, <2>1
<1>5. CASE Tries(r) <= Tries(s) /\ Away(r) < Away(s)
  <2>1. Progress(r) < Progress(s)
    BY <1>1, <1>5, CostTyped, LimitsTyped, WeighLess DEF Progress
  <2>2. QED
    BY <1>2, <1>3, <2>1
<1>6. CASE /\ Tries(r) <= Tries(s) /\ Away(r) = Away(s) /\ r.autoRetries = s.autoRetries
           /\ end = "seat" /\ ConsecutiveSeatPauses(r.dispatches) < MaxSeatPauses
  <2>1. Away(r) <= Away(s)
    BY <1>1, <1>6, CostTyped
  <2>2. Progress(r) <= Progress(s)
    BY <1>1, <1>6, <2>1, CostTyped, LimitsTyped, WeighLess DEF Progress
  <2>3. Retried(r) <= Retried(s)
    <3>1. Slack(MaxRetries, r.autoRetries) <= Slack(MaxRetries, s.autoRetries)
      BY <1>1, <1>6, CostTyped
    <3>2. QED
      BY <1>1, <2>2, <3>1, CostTyped, LimitsTyped, WeighLess DEF Retried
  <2>4. SeatSlack(r) < SeatSlack(s)
    <3>1. ConsecutiveSeatPauses(r.dispatches) = ConsecutiveSeatPauses(s.dispatches) + 1
      BY <1>1, <1>6, PauseGrows
    <3>2. ConsecutiveSeatPauses(s.dispatches) \in Nat
      BY <1>1, PausesTyped
    <3>3. QED
      BY <1>6, <3>1, <3>2, LimitsTyped DEF SeatSlack, Slack
  <2>5. QED
    BY <1>1, <1>2, <2>3, <2>4, CostTyped, LimitsTyped, WeighLess DEF Cost
<1>7. QED
  BY <1>4, <1>5, <1>6, ClosedTries

\* The sweep's retry of an orphan, with or without a dispatch to put on the record.
LEMMA OrphanCosts ==
  ASSUME NEW s, NEW r, s \in Task, r \in Task, s.status = "active", r.status = "active",
         r.recovery = s.recovery, r.currentStage = s.currentStage,
         s.autoRetries < MaxRetries, r.autoRetries = s.autoRetries + 1,
         \/ r.dispatches = s.dispatches
         \/ r.dispatches = Append(s.dispatches, [id |-> s.dispatch.id,
                                                 stage |-> s.dispatch.stage, end |-> "lost"])
  PROVE  Cost(r) < Cost(s) /\ Len(r.dispatches) <= Len(s.dispatches) + 1
<1> DEFINE d == [id |-> s.dispatch.id, stage |-> s.dispatch.stage, end |-> "lost"]
<1>1. r.dispatches = s.dispatches \/ r.dispatches = Append(s.dispatches, d)
  OBVIOUS
<1> HIDE DEF d
<1>2. Len(r.dispatches) <= Len(s.dispatches) + 1
  <2>1. s.dispatches \in Seq(DispatchRecord)
    BY DEF Task
  <2>2. QED
    BY <1>1, <2>1
<1>3. AllTrials(r) <= AllTrials(s)
  <2>1. CASE r.dispatches = s.dispatches
    <3>1. AllTrials(r) = AllTrials(s)
      BY <2>1 DEF AllTrials, Trials, VerdictCount, InfraCount, StageDispatches
    <3>2. QED
      BY <3>1, CostTyped
  <2>2. CASE r.dispatches = Append(s.dispatches, d)
    BY <2>2, AllTrialsAppend
  <2>3. QED
    BY <1>1, <2>1, <2>2
<1>4. Tries(r) <= Tries(s) /\ Away(r) = Away(s)
  <2>1. Repairs(r) = Repairs(s) /\ ~Ended(r) /\ ~Ended(s) /\ Away(r) = Away(s)
    BY DEF Repairs, Ended, Away
  <2>2. /\ Tries(s) = AllTrials(s) + Repairs(s) + 1
        /\ Tries(r) = AllTrials(r) + Repairs(s) + 1
    BY <2>1 DEF Tries
  <2>3. /\ AllTrials(s) \in Nat /\ AllTrials(r) \in Nat /\ Repairs(s) \in Nat
    BY CostTyped
  <2>4. QED
    BY <1>3, <2>1, <2>2, <2>3
<1>5. Progress(r) <= Progress(s)
  <2>1. Away(r) <= Away(s)
    BY <1>4, CostTyped
  <2>2. QED
    BY <1>4, <2>1, CostTyped, LimitsTyped, WeighLess DEF Progress
<1>6. Slack(MaxRetries, r.autoRetries) < Slack(MaxRetries, s.autoRetries)
  <2>1. s.autoRetries \in Nat
    BY DEF Task
  <2>2. QED
    BY <2>1, LimitsTyped DEF Slack
<1>7. Retried(r) < Retried(s)
  BY <1>5, <1>6, CostTyped, LimitsTyped, WeighLess DEF Retried
<1>8. QED
  BY <1>2, <1>7, CostTyped, LimitsTyped, WeighLess DEF Cost

\* What neither answers a dispatch nor retries costs nothing.
LEMMA StillCosts ==
  ASSUME NEW s, NEW r, s \in Task, r \in Task, r.dispatches = s.dispatches,
         r.recovery = s.recovery, r.currentStage = s.currentStage,
         r.autoRetries = s.autoRetries, Ended(s) => Ended(r)
  PROVE  Cost(r) <= Cost(s)
<1>1. /\ AllTrials(r) = AllTrials(s) /\ Repairs(r) = Repairs(s) /\ Away(r) = Away(s)
      /\ SeatSlack(r) = SeatSlack(s)
  BY DEF AllTrials, Trials, VerdictCount, InfraCount, StageDispatches, Repairs, Away, SeatSlack
<1>2. Tries(r) <= Tries(s)
  BY <1>1, CostTyped DEF Tries
<1>3. /\ Away(r) <= Away(s) /\ SeatSlack(r) <= SeatSlack(s)
      /\ Slack(MaxRetries, r.autoRetries) <= Slack(MaxRetries, s.autoRetries)
  BY <1>1, CostTyped
<1>4. Progress(r) <= Progress(s)
  BY <1>2, <1>3, CostTyped, LimitsTyped, WeighLess DEF Progress
<1>5. Retried(r) <= Retried(s)
  BY <1>3, <1>4, CostTyped, LimitsTyped, WeighLess DEF Retried
<1>6. QED
  BY <1>3, <1>5, CostTyped, LimitsTyped, WeighLess DEF Cost

\* What the limits allow in all, from the first stage on.
SpendBudget ==
  LET trials   == 4 * (MaxVerdicts - 1)
                    + (StageInfraLimit("reviewer") - 1) + (StageInfraLimit("qa") - 1)
                    + (StageInfraLimit("security") - 1) + (StageInfraLimit("release") - 1)
      tries    == trials + 9 * MaxRecovery + 1
      progress == Len(STAGES) * tries + (Len(STAGES) - 1)
      retried  == (MaxRetries + 1) * progress + MaxRetries
  IN (MaxSeatPauses + 1) * retried + MaxSeatPauses

LEMMA BudgetTyped == SpendBudget \in Nat
<1> DEFINE trials == 4 * (MaxVerdicts - 1)
                    + (StageInfraLimit("reviewer") - 1) + (StageInfraLimit("qa") - 1)
                    + (StageInfraLimit("security") - 1) + (StageInfraLimit("release") - 1)
           tries == trials + 9 * MaxRecovery + 1
           progress == Len(STAGES) * tries + (Len(STAGES) - 1)
           retried == (MaxRetries + 1) * progress + MaxRetries
<1>1. trials \in Nat
  BY LimitsTyped
<1> HIDE DEF trials
<1>2. tries \in Nat
  BY <1>1, BudgetAssumption
<1> HIDE DEF tries
<1>3. progress \in Nat
  BY <1>2, StagesFacts
<1> HIDE DEF progress
<1>4. retried \in Nat
  BY <1>3, BudgetAssumption
<1> HIDE DEF retried
<1>5. (MaxSeatPauses + 1) * retried + MaxSeatPauses \in Nat
  BY <1>4, BudgetAssumption
<1>6. QED
  BY <1>5 DEF SpendBudget, retried, progress, tries, trials

SpendInv == CalmInv /\ Len(task.dispatches) + Cost(task) <= SpendBudget

LEMMA InitSpends == Init => SpendInv
<1> SUFFICES ASSUME Init PROVE Len(task.dispatches) + Cost(task) <= SpendBudget
  BY InitCalm DEF SpendInv
<1>1. /\ task.dispatches = <<>> /\ task.status = "active" /\ task.autoRetries = 0
      /\ task.currentStage = STAGES[1]
      /\ task.recovery = [incident |-> 1, attempts |-> <<>>, active |-> NoRecovery]
  BY DEF Init
<1>2. \A limit \in Nat : Slack(limit, 0) = limit
  BY DEF Slack
<1>3. \A t : VerdictCount(task, t) = 0 /\ InfraCount(task, t) = 0
  <2>1. \A t, ends : StageDispatches(task, t, ends) = {}
    BY <1>1 DEF StageDispatches
  <2>2. QED
    BY <2>1, FS_EmptySet DEF VerdictCount, InfraCount
<1>4. \A t : Trials(task, t) = (MaxVerdicts - 1) + (StageInfraLimit(t) - 1)
  BY <1>2, <1>3, LimitsTyped DEF Trials
<1>5. Repairs(task) = 9 * MaxRecovery
  BY <1>1, <1>2, LimitsTyped, BudgetAssumption DEF Repairs, Steps, NoRecovery
<1>6. Away(task) = Len(STAGES) - 1
  BY <1>1, IndexOfEntry, StagesFacts DEF Away
<1>7. SeatSlack(task) = MaxSeatPauses
  <2>1. ConsecutiveSeatPauses(task.dispatches) = 0
    BY <1>1, FS_EmptySet DEF ConsecutiveSeatPauses
  <2>2. QED
    BY <1>2, <2>1, LimitsTyped DEF SeatSlack
<1>8. Slack(MaxRetries, task.autoRetries) = MaxRetries
  BY <1>1, <1>2, LimitsTyped
<1>9. Cost(task) = SpendBudget
  <2>1. Tries(task) = 4 * (MaxVerdicts - 1)
                    + (StageInfraLimit("reviewer") - 1) + (StageInfraLimit("qa") - 1)
                    + (StageInfraLimit("security") - 1) + (StageInfraLimit("release") - 1)
                    + 9 * MaxRecovery + 1
    BY <1>1, <1>4, <1>5, LimitsTyped, BudgetAssumption DEF Tries, AllTrials, Ended
  <2>2. Len(STAGES) - 1 + 1 = Len(STAGES)
    BY StagesFacts
  <2>3. QED
    BY <1>6, <1>7, <1>8, <2>1, <2>2 DEF Cost, Retried, Progress, Weigh, SpendBudget
<1>10. QED
  <2>1. Len(task.dispatches) = 0 /\ task \in Task
    BY <1>1, InitEstablishes DEF IInv, Core
  <2>2. QED
    BY <1>9, <2>1, CostTyped

\* The sweep only resumes a seat pause, and that changes nothing that is counted.
LEMMA ResumeCosts ==
  ASSUME CalmInv, SweepBlocked, task' \in Task
  PROVE  Cost(task') <= Cost(task) /\ task'.dispatches = task.dispatches
<1> DEFINE r == ResumeState(task)
<1>1. /\ Core(task) /\ CanResume(task) /\ task.status = "blocked"
      /\ ClassifyBlocker(task.blocker) = "infra"
  BY DEF CalmInv, IInv, SweepBlocked, CanResume
<1>2. task.blocker.outcome = "paused-credits"
  BY <1>1 DEF Core, Waits, ClassifyBlocker
<1>3. /\ r \in Task /\ r.status = "active" /\ r.dispatches = task.dispatches
      /\ r.autoRetries = task.autoRetries /\ r.currentStage = task.currentStage
      /\ r.recovery = task.recovery
  BY <1>1, <1>2, ResumeFields DEF Placed
<1>4. task' = [r EXCEPT !.autoRetries = r.autoRetries]
  BY <1>2 DEF SweepBlocked
<1> HIDE DEF r
<1>5. /\ task'.dispatches = task.dispatches /\ task'.autoRetries = task.autoRetries
      /\ task'.currentStage = task.currentStage /\ task'.recovery = task.recovery
  BY <1>3, <1>4 DEF Task
<1>6. ~Ended(task) /\ task \in Task
  BY <1>1, <1>2 DEF Ended, Core
<1>7. PICK s, n : s = task /\ n = task'
  OBVIOUS
<1>8. Cost(n) <= Cost(s)
  BY <1>5, <1>6, <1>7, StillCosts
<1>9. QED
  BY <1>5, <1>7, <1>8

LEMMA StepSpends == SpendInv /\ [SelfNext]_vars => SpendInv'
<1> SUFFICES ASSUME SpendInv, [SelfNext]_vars PROVE SpendInv'
  OBVIOUS
<1>1. [Next]_vars
  BY DEF SelfNext, Next, Sweep
<1>2. CalmInv'
  BY <1>1, StepCalm DEF SpendInv
<1>3. /\ CalmInv /\ Core(task) /\ Owned(task) /\ Core(task') /\ task \in Task /\ task' \in Task
      /\ IInv /\ Calm(task)
  BY <1>2 DEF SpendInv, CalmInv, IInv, Core
<1>4. PICK s, r : s = task /\ r = task'
  OBVIOUS
<1>5. /\ Core(s) /\ Owned(s) /\ Core(r) /\ s \in Task /\ r \in Task
  BY <1>3, <1>4
<1> DEFINE Costs == Cost(r) < Cost(s) /\ Len(r.dispatches) <= Len(s.dispatches) + 1
           Saves == Cost(r) <= Cost(s) /\ r.dispatches = s.dispatches
<1>6. Len(s.dispatches) \in Nat /\ Len(r.dispatches) \in Nat
  BY <1>5 DEF Task
<1>7. ASSUME Costs \/ Saves PROVE SpendInv'
  <2>1. Cost(s) \in Nat /\ Cost(r) \in Nat
    BY <1>5, CostTyped
  <2>2. Len(r.dispatches) + Cost(r) <= Len(s.dispatches) + Cost(s)
    BY <1>6, <1>7, <2>1
  <2>3. Len(s.dispatches) + Cost(s) <= SpendBudget
    BY <1>4 DEF SpendInv
  <2>4. Len(r.dispatches) + Cost(r) <= SpendBudget
    <3>1. PICK b : b = SpendBudget
      OBVIOUS
    <3>2. b \in Int
      BY <3>1, BudgetTyped
    <3>3. QED
      BY <1>6, <2>1, <2>2, <2>3, <3>1, <3>2
  <2>5. QED
    BY <1>2, <1>4, <2>4 DEF SpendInv
<1>8. CASE PrepareDispatch \/ MarkDispatchRunning
  <2>1. /\ r.dispatches = s.dispatches /\ r.recovery = s.recovery
        /\ r.currentStage = s.currentStage /\ r.autoRetries = s.autoRetries
        /\ r.status = s.status /\ r.blocker = s.blocker
    BY <1>3, <1>4, <1>8 DEF PrepareDispatch, MarkDispatchRunning, Task
  <2>2. Saves
    BY <1>5, <2>1, StillCosts DEF Ended
  <2>3. QED
    BY <1>7, <2>2
<1>9. CASE IngestStage \/ IngestInfraFailure \/ IngestRecovery \/ FailDispatch \/ BlockDispatch
  <2>1. PICK end \in End : Closes(task, task', end) /\ Settles(task, task', end)
    BY <1>3, <1>9, EngineCloses
  <2>2. Closes(s, r, end) /\ Settles(s, r, end)
    BY <1>4, <2>1
  <2>3. Costs
    BY <1>5, <1>6, <2>2, ClosingCosts
  <2>4. QED
    BY <1>7, <2>3
<1>10. CASE RunnerCrash
  <2>1. /\ r.dispatches = s.dispatches /\ r.recovery = s.recovery
        /\ r.currentStage = s.currentStage /\ r.autoRetries = s.autoRetries
        /\ r.status = "blocked" /\ r.blocker.outcome = "fail"
    BY <1>3, <1>4, <1>10 DEF RunnerCrash, Task, Blocker
  <2>2. Saves
    BY <1>5, <2>1, StillCosts DEF Ended
  <2>3. QED
    BY <1>7, <2>2
<1>11. CASE SweepBlocked
  <2>1. Saves
    BY <1>3, <1>4, <1>11, ResumeCosts
  <2>2. QED
    BY <1>7, <2>1
<1>12. CASE SweepOrphan
  <2> DEFINE o == DropOrphan(task)
  <2>1. /\ o \in Task /\ o.status = "active" /\ o.recovery = s.recovery
        /\ o.currentStage = s.currentStage /\ o.autoRetries = s.autoRetries
        /\ o.dispatches = (IF s.dispatch.status = "none" THEN s.dispatches
                           ELSE Append(s.dispatches, [id |-> s.dispatch.id,
                                                      stage |-> s.dispatch.stage,
                                                      end |-> "lost"]))
        /\ s.status = "active" /\ s.autoRetries < MaxRetries
    BY <1>3, <1>4, <1>12, DropOrphanFields DEF SweepOrphan, Placed
  <2>2. r = [o EXCEPT !.autoRetries = o.autoRetries + 1]
    BY <1>4, <1>12 DEF SweepOrphan
  <2> HIDE DEF o
  <2>3. /\ r.status = "active" /\ r.recovery = s.recovery
        /\ r.currentStage = s.currentStage /\ r.autoRetries = s.autoRetries + 1
        /\ r.dispatches = o.dispatches
    BY <2>1, <2>2 DEF Task
  <2>4. Costs
    BY <1>5, <2>1, <2>3, OrphanCosts
  <2>5. QED
    BY <1>7, <2>4
<1>13. CASE NewCommit \/ UNCHANGED vars
  <2>1. r = s
    BY <1>4, <1>13 DEF NewCommit, vars
  <2>2. Saves
    BY <1>5, <2>1, StillCosts
  <2>3. QED
    BY <1>7, <2>2
<1>14. QED
  BY <1>8, <1>9, <1>10, <1>11, <1>12, <1>13 DEF SelfNext, Engine

\* Runners, agents, crashes, deaths and sweeps: nobody else writes the document.
LEMMA UnattendedStep == [UnattendedNext]_allVars => [SelfNext]_vars
<1> SUFFICES ASSUME [UnattendedNext]_allVars PROVE [SelfNext]_vars
  OBVIOUS
<1>1. CASE UNCHANGED allVars
  BY <1>1 DEF allVars, vars
<1>2. ASSUME NEW r \in Runner, RunnerStep(r) \/ Kill(r)
      PROVE  [SelfNext]_vars
  BY <1>2, WritingStep, ReadingStep DEF RunnerStep, StageStep, SelfNext
<1>3. ASSUME NEW r \in Runner, SweepRun(r)
      PROVE  [SelfNext]_vars
  BY <1>3 DEF SweepRun, SelfNext
<1>4. CASE AgentWrites \/ AgentDies
  BY <1>4 DEF AgentWrites, AgentDies, workflow, vars
<1>5. CASE OtherCommits
  BY <1>5 DEF OtherCommits, SelfNext
<1>6. QED
  BY <1>1, <1>2, <1>3, <1>4, <1>5 DEF UnattendedNext

\* A task the founder does not touch gets a bounded number of dispatches, whatever dies,
\* yields, fails, pauses or is swept on the way: the budgets per stage, the ceiling of
\* recovery attempts, the pauses in a row and the sweep's retries bound it together,
\* although the retries start afresh at every pass of a stage, the pauses at every end
\* that is none, and a rejection sends the task back to the builder.
THEOREM LeftAloneSpendsAtMost == UnattendedSpec => [](Len(task.dispatches) <= SpendBudget)
<1>1. RunnerInit => SpendInv
  BY InitSpends DEF RunnerInit
<1>2. SpendInv => Len(task.dispatches) <= SpendBudget
  <2> SUFFICES ASSUME SpendInv PROVE Len(task.dispatches) <= SpendBudget
    OBVIOUS
  <2>1. PICK n, c, b : n = Len(task.dispatches) /\ c = Cost(task) /\ b = SpendBudget
    OBVIOUS
  <2>2. n \in Nat /\ c \in Nat /\ b \in Int
    BY <2>1, CostTyped, BudgetTyped DEF SpendInv, CalmInv, IInv, Core, Task
  <2>3. n + c <= b
    BY <2>1 DEF SpendInv
  <2>4. QED
    BY <2>1, <2>2, <2>3
<1>3. QED
  BY <1>1, <1>2, StepSpends, UnattendedStep, PTL DEF UnattendedSpec

\* So the bound on dispatches that keeps the runs finite is never met once it is above
\* what the limits allow.
THEOREM SpendAlwaysBounded ==
  ASSUME MaxDispatches > SpendBudget
  PROVE  UnattendedSpec => []SpendIsBounded
<1>1. Len(task.dispatches) <= SpendBudget => SpendIsBounded
  <2> SUFFICES ASSUME Len(task.dispatches) <= SpendBudget PROVE SpendIsBounded
    OBVIOUS
  <2>1. QED
    BY BudgetTyped, BudgetAssumption DEF SpendIsBounded
<1>2. QED
  BY <1>1, LeftAloneSpendsAtMost, PTL

-----------------------------------------------------------------------------
(* What the fan-out of an undisturbed runner judges                        *)
(*                                                                         *)
(* A gate's result file, or an agent that may still write one, is only     *)
(* dangerous while its dispatch id may still be issued or is out: `Live'.  *)
(* An id that is on the record is spent for good.                          *)

Live(s, id) == id.phase = "stage" /\ id.stage \in GATE_STAGES /\ UsesOf(s, id) = {}

\* Ids that are spent stay spent.
Ages(s, r) == \A id : Live(r, id) => Live(s, id)

DocInv == IdsInv /\ Unpassed(task)

LEMMA RecordAges ==
  ASSUME NEW s, s \in Task, NEW r,
         r.dispatches = s.dispatches \/ \E d : r.dispatches = Append(s.dispatches, d)
  PROVE  Ages(s, r)
<1> SUFFICES ASSUME NEW id, Live(r, id) PROVE UsesOf(s, id) = {}
  BY DEF Ages, Live
<1>1. s.dispatches \in Seq(DispatchRecord)
  BY DEF Task
<1>2. ASSUME NEW i \in DOMAIN s.dispatches
      PROVE  i \in DOMAIN r.dispatches /\ r.dispatches[i] = s.dispatches[i]
  BY <1>1
<1>3. QED
  BY <1>2 DEF Live, UsesOf

LEMMA ShapedAges ==
  ASSUME NEW s, s \in Task, NEW r, Shaped(s, r)
  PROVE  Ages(s, r)
BY RecordAges DEF Shaped, Prepares, Marks, Closes, Revives

LEMMA ClosedIsSpent ==
  ASSUME NEW s, s \in Task, NEW r, NEW end, Closes(s, r, end)
  PROVE  ~Live(r, s.dispatch.id) /\ r.dispatch = NoDispatch
<1> DEFINE d == [id |-> s.dispatch.id, stage |-> s.dispatch.stage, end |-> end]
           n == Len(s.dispatches) + 1
<1>1. r.dispatches = Append(s.dispatches, d) /\ d.id = s.dispatch.id
  BY DEF Closes
<1> HIDE DEF d
<1>2. s.dispatches \in Seq(DispatchRecord)
  BY DEF Task
<1>3. n \in DOMAIN r.dispatches /\ r.dispatches[n] = d
  BY <1>1, <1>2
<1>4. n \in UsesOf(r, s.dispatch.id)
  BY <1>1, <1>3 DEF UsesOf
<1>5. QED
  BY <1>4 DEF Live, Closes

\* The stage that is current has not passed: it is pending, failed, or waits.
LEMMA SettledUnpassed ==
  ASSUME NEW s, NEW r, NEW end, Core(s), Core(r), Unpassed(s), Settles(s, r, end),
         s.currentStage \in Stage
  PROVE  Unpassed(r)
<1>1. CASE Advances(s, r)
  <2> SUFFICES ASSUME r.currentStage \in Stage PROVE r.stages[r.currentStage].status # "pass"
    BY DEF Unpassed
  <2>1. r.status # "merge-ready"
    BY StagesFacts DEF Core
  <2>2. /\ Index(s.currentStage) # Len(STAGES)
        /\ r.currentStage = STAGES[Index(s.currentStage) + 1]
    BY <1>1, <2>1 DEF Advances
  <2>3. Index(r.currentStage) = Index(s.currentStage) + 1
    BY <2>2, Successor
  <2>4. Index(r.currentStage) > Index(s.currentStage) /\ r.currentStage # s.currentStage
    BY <2>3, IndexTyped
  <2>5. s.stages[r.currentStage] = Pending
    BY <2>4, StagesFacts DEF Core, InOrder
  <2>6. r.stages[r.currentStage] = Pending
    BY <1>1, <2>4, <2>5 DEF Advances
  <2>7. QED
    BY <2>6 DEF Pending
<1>2. CASE Stands(s, r)
  BY <1>2 DEF Stands, Fades, Unpassed
<1>3. QED
  BY <1>1, <1>2 DEF Settles

LEMMA StepUnpassed ==
  ASSUME CalmInv, Unpassed(task), [Next]_vars
  PROVE  Unpassed(task')
<1>1. CalmInv' /\ task \in Task /\ task' \in Task /\ Core(task) /\ Owned(task) /\ Core(task')
  BY StepCalm DEF CalmInv, IInv, Core
<1>2. CASE PrepareDispatch \/ MarkDispatchRunning \/ RunnerCrash
  <2>1. task'.stages = task.stages /\ task'.currentStage = task.currentStage
    BY <1>1, <1>2 DEF PrepareDispatch, MarkDispatchRunning, RunnerCrash, Task
  <2>2. QED
    BY <2>1 DEF Unpassed
<1>3. CASE IngestStage \/ IngestInfraFailure \/ IngestRecovery \/ FailDispatch \/ BlockDispatch
  <2>1. PICK end \in End : Settles(task, task', end)
    BY <1>3, EngineCloses DEF CalmInv
  <2>2. Outstanding
    BY <1>3 DEF IngestStage, IngestVerdict, IngestInfraFailure, IngestRecovery, IngestRepair,
                FailDispatch, BlockDispatch
  <2>3. task.currentStage \in Stage
    BY <2>2, OutstandingFacts DEF CalmInv
  <2>4. PICK s, r : s = task /\ r = task'
    OBVIOUS
  <2>5. Unpassed(r)
    BY <1>1, <2>1, <2>3, <2>4, SettledUnpassed
  <2>6. QED
    BY <2>4, <2>5
<1>4. ASSUME NEW r, r \in Task, task'.stages = r.stages, task'.currentStage = r.currentStage,
             r.currentStage = task.currentStage,
             \A t \in Stage :
               r.stages[t] = IF t = task.currentStage THEN Pending ELSE task.stages[t]
      PROVE  Unpassed(task')
  BY <1>4 DEF Unpassed, Pending
<1>5. CASE FounderResume \/ ResolveFounderDecision \/ SweepBlocked
  <2> DEFINE r == ResumeState(task)
  <2>1. /\ r \in Task /\ r.currentStage = task.currentStage
        /\ \A t \in Stage :
             r.stages[t] = IF t = task.currentStage THEN Pending ELSE task.stages[t]
    BY <1>1, <1>5, ResumeFields DEF FounderResume, ResolveFounderDecision, SweepBlocked, Placed
  <2>2. \/ task' = r
        \/ \E n : task' = [r EXCEPT !.autoRetries = n]
    BY <1>5 DEF FounderResume, ResolveFounderDecision, SweepBlocked
  <2> HIDE DEF r
  <2>3. task'.stages = r.stages /\ task'.currentStage = r.currentStage
    BY <2>1, <2>2 DEF Task
  <2>4. QED
    BY <1>4, <2>1, <2>3
<1>6. CASE SweepOrphan \/ RecoverOrphanNode
  <2> DEFINE r == DropOrphan(task)
  <2>1. /\ r \in Task /\ r.currentStage = task.currentStage
        /\ \A t \in Stage :
             r.stages[t] = IF t = task.currentStage THEN Pending ELSE task.stages[t]
    BY <1>1, <1>6, DropOrphanFields DEF SweepOrphan, RecoverOrphanNode, Placed
  <2>2. \/ task' = r
        \/ \E n : task' = [r EXCEPT !.autoRetries = n]
    BY <1>6 DEF SweepOrphan, RecoverOrphanNode
  <2> HIDE DEF r
  <2>3. task'.stages = r.stages /\ task'.currentStage = r.currentStage
    BY <2>1, <2>2 DEF Task
  <2>4. QED
    BY <1>4, <2>1, <2>3
<1>7. CASE RecordFounderApproval
  <2>1. task'.stages = task.stages /\ task'.currentStage = task.currentStage
    BY <1>1, <1>7 DEF RecordFounderApproval, Task
  <2>2. QED
    BY <2>1 DEF Unpassed
<1>8. CASE NewCommit \/ UNCHANGED vars
  BY <1>8 DEF NewCommit, vars
<1>9. QED
  BY <1>2, <1>3, <1>5, <1>6, <1>7, <1>8 DEF Next, Engine, Sweep, Founder

LEMMA StepDoc == DocInv /\ [Next]_vars => DocInv' /\ Ages(task, task')
<1> SUFFICES ASSUME DocInv, [Next]_vars PROVE DocInv' /\ Ages(task, task')
  OBVIOUS
<1>1. IdsInv' /\ Unpassed(task')
  BY StepIds, StepUnpassed DEF DocInv, IdsInv
<1>2. task \in Task /\ Shaped(task, task')
  BY StepShaped DEF DocInv, IdsInv, CalmInv, IInv, Core
<1>3. Ages(task, task')
  BY <1>2, ShapedAges
<1>4. QED
  BY <1>1, <1>3 DEF DocInv

\* The gates of the group follow each other in the pipeline, as those of
\* DEFAULT_CONCURRENT_GROUPS (openclaw-runner.mjs:44) and of factory.config.json:45 do.
GroupInOrder ==
  \A i \in DOMAIN Group :
    Group[i] \in Stage /\ Index(Group[i]) = Index(Group[1]) + i - 1

RunRecord == [pc : {"idle", "loop", "fan", "discard", "prepare", "mark", "call", "wait",
                    "consume"},
              id : Id, members : Seq(Id), called : SUBSET Id, yielded : SUBSET Id]
RunTyped == run \in [Runner -> RunRecord]

OutId == IF task.dispatch.status = "none" THEN {} ELSE {task.dispatch.id}
Filed(ids) == \A id \in ids : HasResult(id)

\* Only these ids may still have a live file or a live agent.
Within(ids) == \A id \in agents \cup DOMAIN results : Live(task, id) => id \in ids

\* No agent works on an id that has its file, and the live files of gates are no older
\* than the build they judge.
FileInv ==
  /\ agents \cap DOMAIN results = {}
  /\ built <= head
  /\ \A id \in DOMAIN results :
       Live(task, id) => results[id].commit \in Int /\ results[id].commit >= built

\* A yielded fan-out is the one that would be started now.
GroupInv ==
  yieldedGroup # {} => /\ BetweenDispatches /\ GroupReady
                       /\ yieldedGroup = Range(GroupIds)

\* Where the runner is.  On its own: what is live is out or was yielded.
Free(m) ==
  /\ m.pc \in {"idle", "loop", "prepare"} /\ m.members = <<>>
  /\ Within(OutId \cup yieldedGroup)
\* At its dispatch.
Works(m) ==
  /\ m.pc \in {"mark", "call", "wait", "consume"} /\ m.members = <<>>
  /\ task.dispatch.status # "none" /\ task.dispatch.id = m.id
  /\ Within(OutId) /\ yieldedGroup = {}
\* Waiting for the agents of a fan-out.
Fanned(m) ==
  /\ m.pc = "fan"
  /\ BetweenDispatches /\ GroupReady /\ m.members = GroupIds
  /\ Within(Range(m.members)) /\ Filed(Range(m.members) \ m.called)
  /\ m.called \subseteq Range(m.members)
  /\ yieldedGroup \in {{}, Range(m.members)}
  /\ m.yielded # {} => yieldedGroup = Range(m.members)
\* The members that are left are the stages from the current one on.
InTurn(members) ==
  \A i \in DOMAIN members :
    /\ members[i].stage \in Stage \cap GATE_STAGES
    /\ members[i] = StageId(members[i].stage)
    /\ Index(members[i].stage) = Index(task.currentStage) + i - 1
\* Applying the members of a fan-out, all of which have their files.
Applies(m) ==
  /\ m.pc \in {"prepare", "mark", "consume"} /\ m.members # <<>>
  /\ Within(Range(m.members)) /\ Filed(Range(m.members)) /\ yieldedGroup = {}
  /\ task.status = "active" /\ task.recovery.active.phase = "none"
  /\ task.currentStage = m.members[1].stage
  /\ InTurn(m.members)
  /\ IF m.pc = "prepare" THEN task.dispatch.status = "none"
     ELSE /\ task.dispatch.status # "none" /\ task.dispatch.id = m.id
          /\ m.id = m.members[1]
\* Putting away the files of the members that were not applied.
Discards(m) ==
  /\ m.pc = "discard" /\ m.members # <<>> /\ yieldedGroup = {}
  /\ Within(Range(Tail(m.members))) /\ Filed(Range(Tail(m.members)))

PlaceInv(m) == Free(m) \/ Works(m) \/ Fanned(m) \/ Applies(m) \/ Discards(m)

FreshInv(R) ==
  /\ Runner = {R} /\ GroupInOrder
  /\ RunTyped /\ DocInv /\ FileInv /\ GroupInv
  /\ PlaceInv(run[R])

-----------------------------------------------------------------------------
(* Steps that leave the document alone                                     *)

LEMMA StillDoc ==
  ASSUME DocInv, UNCHANGED workflow
  PROVE  /\ DocInv' /\ task' = task /\ head' = head /\ built' = built
         /\ \A id : Live(task', id) <=> Live(task, id)
<1>1. UNCHANGED vars
  BY DEF workflow, vars
<1>2. DocInv'
  BY <1>1, StepDoc
<1>3. task' = task /\ head' = head /\ built' = built
  BY <1>1 DEF vars
<1>4. QED
  BY <1>2, <1>3

\* Files are kept, put away, or written at the current HEAD.
LEMMA FilesStep ==
  ASSUME FileInv, DocInv, Ages(task, task'), head' \in Int, head' >= head,
         \/ built' = built
         \/ built' = head /\ \A id \in DOMAIN results' : ~Live(task', id),
         agents' \cap DOMAIN results' = {},
         \A id \in DOMAIN results' :
           \/ results'[id].commit = head
           \/ id \in DOMAIN results /\ results'[id] = results[id]
  PROVE  FileInv'
<1>1. head \in Int /\ built \in Int /\ built <= head
  BY BudgetAssumption DEF DocInv, IdsInv, CalmInv, IInv, FileInv, Commits, NoCommit
<1>2. built' \in Int /\ built' <= head'
  BY <1>1
<1>3. ASSUME NEW id \in DOMAIN results', Live(task', id)
      PROVE  results'[id].commit \in Int /\ results'[id].commit >= built'
  <2>1. Live(task, id) /\ built' = built
    BY <1>3 DEF Ages
  <2>2. QED
    BY <1>1, <2>1 DEF FileInv
<1>4. QED
  BY <1>2, <1>3 DEF FileInv

LEMMA GroupStill ==
  ASSUME GroupInv, task' = task, yieldedGroup' = yieldedGroup
  PROVE  GroupInv'
BY DEF GroupInv, BetweenDispatches, GroupReady, GroupIds, StageId

\* What the runner is at stays so when only fewer ids are live and no file is lost.
LEMMA PlaceStill ==
  ASSUME NEW m, PlaceInv(m), task' = task, yieldedGroup' = yieldedGroup,
         agents' \cup DOMAIN results' \subseteq agents \cup DOMAIN results,
         DOMAIN results \subseteq DOMAIN results'
  PROVE  PlaceInv(m)'
<1>1. ASSUME NEW ids, Within(ids) PROVE Within(ids)'
  BY <1>1 DEF Within
<1>2. ASSUME NEW ids, Filed(ids) PROVE Filed(ids)'
  BY <1>2 DEF Filed, HasResult
<1>3. /\ OutId' = OutId /\ BetweenDispatches' = BetweenDispatches /\ GroupReady' = GroupReady
      /\ \A t : StageId(t)' = StageId(t)
  BY DEF OutId, BetweenDispatches, GroupReady, StageId
<1>4. GroupIds' = GroupIds
  BY <1>3 DEF GroupIds
<1>5. CASE Free(m)
  <2>1. PICK ids : ids = OutId \cup yieldedGroup
    OBVIOUS
  <2>2. Within(ids)'
    BY <1>1, <1>5, <2>1 DEF Free
  <2>3. Free(m)'
    BY <1>3, <1>5, <2>1, <2>2 DEF Free
  <2>4. QED
    BY <2>3 DEF PlaceInv
<1>6. CASE Works(m)
  <2>1. PICK ids : ids = OutId
    OBVIOUS
  <2>2. Within(ids)'
    BY <1>1, <1>6, <2>1 DEF Works
  <2>3. Works(m)'
    BY <1>3, <1>6, <2>1, <2>2 DEF Works
  <2>4. QED
    BY <2>3 DEF PlaceInv
<1>7. CASE Fanned(m)
  BY <1>1, <1>2, <1>3, <1>4, <1>7 DEF PlaceInv, Fanned
<1>8. CASE Applies(m)
  BY <1>1, <1>2, <1>3, <1>8 DEF PlaceInv, Applies, InTurn
<1>9. CASE Discards(m)
  BY <1>1, <1>2, <1>9 DEF PlaceInv, Discards
<1>10. QED
  BY <1>5, <1>6, <1>7, <1>8, <1>9 DEF PlaceInv

LEMMA Lands ==
  ASSUME NEW R, FreshInv(R), NEW n \in RunRecord, run' = [run EXCEPT ![R] = n],
         DocInv', FileInv', GroupInv', PlaceInv(n)'
  PROVE  FreshInv(R)'
<1>1. R \in Runner /\ run'[R] = n /\ run' \in [Runner -> RunRecord]
  BY DEF FreshInv, RunTyped
<1>2. PlaceInv(run[R])'
  BY <1>1
<1>3. QED
  BY <1>1, <1>2 DEF FreshInv, RunTyped, GroupInOrder

\* The runner goes on to a place that is open to it, and touches nothing.
LEMMA Shifts ==
  ASSUME NEW R, FreshInv(R), NEW n \in RunRecord, run' = [run EXCEPT ![R] = n], PlaceInv(n),
         UNCHANGED <<workflow, results, agents, yieldedGroup>>
  PROVE  FreshInv(R)'
<1>1. /\ DocInv' /\ task' = task /\ head' = head /\ built' = built
      /\ \A id : Live(task', id) <=> Live(task, id)
  BY StillDoc DEF FreshInv
<1>2. FileInv'
  BY <1>1 DEF FreshInv, FileInv
<1>3. GroupInv'
  BY <1>1, GroupStill DEF FreshInv
<1>4. PlaceInv(n)'
  BY <1>1, PlaceStill
<1>5. QED
  BY <1>1, <1>2, <1>3, <1>4, Lands

LEMMA IdleTyped ==
  \A pc \in {"idle", "loop"} :
    /\ [Idle EXCEPT !.pc = pc] \in RunRecord
    /\ [Idle EXCEPT !.pc = pc].pc = pc /\ [Idle EXCEPT !.pc = pc].members = <<>>
    /\ Idle = [Idle EXCEPT !.pc = "idle"]
<1>1. NoId \in Id
  BY DEF NoId, Id
<1>2. <<>> \in Seq(Id)
  OBVIOUS
<1>3. Idle \in RunRecord /\ Idle.members = <<>> /\ Idle.pc = "idle"
  BY <1>1, <1>2 DEF Idle, RunRecord
<1>4. QED
  BY <1>3 DEF RunRecord

\* The runner's record, and what going to a place makes of it.
LEMMA RunFacts ==
  ASSUME NEW R, FreshInv(R)
  PROVE  /\ run[R] \in RunRecord /\ PlaceInv(run[R])
         /\ task \in Task /\ head \in Int /\ task.dispatch.id \in Id
         /\ Stop(R) => \E n \in RunRecord : /\ run' = [run EXCEPT ![R] = n]
                                            /\ n.pc = "idle" /\ n.members = <<>>
<1>1. R \in Runner /\ run \in [Runner -> RunRecord]
  BY DEF FreshInv, RunTyped
<1>2. task \in Task /\ head \in Int
  BY DEF FreshInv, DocInv, IdsInv, CalmInv, IInv, Core, Commits
<1>3. task.dispatch.id \in Id
  BY <1>2 DEF Task, Dispatch
<1>4. Idle \in RunRecord /\ Idle.pc = "idle" /\ Idle.members = <<>>
  BY IdleTyped
<1>5. QED
  BY <1>1, <1>2, <1>3, <1>4 DEF FreshInv, Stop

LEMMA GoesTo ==
  ASSUME NEW R, FreshInv(R), NEW pc \in {"loop", "prepare", "mark", "call", "wait", "consume"},
         Goto(R, pc)
  PROVE  \E n \in RunRecord : /\ run' = [run EXCEPT ![R] = n] /\ n.pc = pc
                              /\ n.id = run[R].id /\ n.members = run[R].members
<1>1. PICK m \in RunRecord : m = run[R]
  BY RunFacts
<1>2. PICK n : n = [m EXCEPT !.pc = pc]
  OBVIOUS
<1>3. n \in RunRecord /\ n.pc = pc /\ n.id = m.id /\ n.members = m.members
  BY <1>2 DEF RunRecord
<1>4. run' = [run EXCEPT ![R] = n]
  BY <1>1, <1>2 DEF Goto
<1>5. QED
  BY <1>1, <1>3, <1>4

LEMMA QuietStep ==
  ASSUME NEW R, FreshInv(R),
         \/ EndRun(R) \/ WaitForGroup(R) \/ SkipGroup(R) \/ PrepareWaits(R) \/ Adopt(R)
         \/ CallReturns(R) \/ CallYields(R) \/ WaitEnds(R) \/ ConsumeStale(R) \/ StartRun(R)
  PROVE  FreshInv(R)'
<1>1. PICK m \in RunRecord : m = run[R] /\ PlaceInv(m)
  BY RunFacts
<1>2. UNCHANGED <<workflow, results, agents, yieldedGroup>>
  BY DEF EndRun, WaitForGroup, SkipGroup, PrepareWaits, Adopt, CallReturns, CallYields,
         WaitEnds, ConsumeStale, StartRun, Starts, Enters, yields
<1>3. SUFFICES \E n \in RunRecord : run' = [run EXCEPT ![R] = n] /\ PlaceInv(n)
  BY <1>2, Shifts
<1>4. ASSUME NEW n, n.pc \in {"idle", "loop", "prepare"}, n.members = <<>>,
             Free(m) \/ Works(m)
      PROVE  PlaceInv(n)
  BY <1>4 DEF PlaceInv, Free, Works, Within
<1>5. ASSUME NEW n, n.pc \in {"mark", "call", "wait", "consume"}, n.members = <<>>,
             n.id = task.dispatch.id, task.dispatch.status # "none", yieldedGroup = {},
             Free(m) \/ Works(m)
      PROVE  PlaceInv(n)
  BY <1>5 DEF PlaceInv, Free, Works, Within
<1>6. CASE EndRun(R) \/ WaitForGroup(R)
  <2>1. Free(m) /\ Stop(R)
    BY <1>1, <1>6 DEF EndRun, WaitForGroup, At, PlaceInv, Works, Fanned, Applies, Discards
  <2>2. QED
    BY <1>4, <2>1, RunFacts
<1>7. CASE SkipGroup(R)
  <2>1. Free(m) /\ Goto(R, "prepare")
    BY <1>1, <1>7 DEF SkipGroup, At, PlaceInv, Works, Fanned, Applies, Discards
  <2>2. QED
    BY <1>1, <1>4, <2>1, GoesTo DEF Free
<1>8. CASE PrepareWaits(R)
  <2>1. Free(m)
    BY <1>1, <1>8 DEF PrepareWaits, At, PlaceInv, Works, Fanned, Applies, Discards
  <2>2. Stop(R)
    BY <1>1, <1>8, <2>1 DEF PrepareWaits, ReturnWaiting, Applying, Free
  <2>3. QED
    BY <1>4, <2>1, <2>2, RunFacts
<1>9. CASE Adopt(R)
  <2>1. Free(m) /\ yieldedGroup = {} /\ task.dispatch.status # "none"
    BY <1>1, <1>9 DEF Adopt, At, PlaceInv, Works, Fanned, Applies, Discards
  <2>2. PICK id \in Id : id = task.dispatch.id
    BY RunFacts
  <2>3. PICK n : n = [m EXCEPT !.pc = "mark", !.id = id]
    OBVIOUS
  <2>4. run' = [run EXCEPT ![R] = n]
    BY <1>1, <1>9, <2>2, <2>3 DEF Adopt
  <2>5. n \in RunRecord /\ n.pc = "mark" /\ n.id = id /\ n.members = m.members
    BY <2>3 DEF RunRecord
  <2>6. n.pc = "mark" /\ n.members = <<>> /\ n.id = task.dispatch.id
    BY <2>1, <2>2, <2>5 DEF Free
  <2>7. PlaceInv(n)
    BY <1>5, <2>1, <2>6
  <2>8. QED
    BY <2>4, <2>5, <2>7
<1>10. CASE CallReturns(R) \/ CallYields(R)
  <2>1. Works(m) /\ (Goto(R, "consume") \/ Goto(R, "wait"))
    BY <1>1, <1>10
    DEF CallReturns, CallYields, At, PlaceInv, Free, Fanned, Applies, Discards
  <2>2. QED
    BY <1>1, <1>5, <2>1, GoesTo DEF Works
<1>11. CASE WaitEnds(R)
  <2>1. Works(m)
    BY <1>1, <1>11 DEF WaitEnds, At, PlaceInv, Free, Fanned, Applies, Discards
  <2>2. Goto(R, "consume") \/ Stop(R)
    BY <1>1, <1>11, <2>1 DEF WaitEnds, Works
  <2>3. CASE Goto(R, "consume")
    BY <1>1, <1>5, <2>1, <2>3, GoesTo DEF Works
  <2>4. CASE Stop(R)
    BY <1>4, <2>1, <2>4, RunFacts
  <2>5. QED
    BY <2>2, <2>3, <2>4
<1>12. CASE ConsumeStale(R)
  BY <1>1, <1>12
  DEF ConsumeStale, At, PlaceInv, Works, Free, Fanned, Applies, Discards
<1>13. CASE StartRun(R)
  <2>1. Free(m) /\ Goto(R, "loop")
    BY <1>1, <1>13
    DEF StartRun, Starts, Enters, At, PlaceInv, Works, Fanned, Applies, Discards
  <2>2. QED
    BY <1>1, <1>4, <2>1, GoesTo DEF Free
<1>14. QED
  BY <1>6, <1>7, <1>8, <1>9, <1>10, <1>11, <1>12, <1>13

LEMMA RunUntouched ==
  ASSUME NEW R, FreshInv(R), run' = run, DocInv', FileInv', GroupInv',
         \A m : PlaceInv(m) => PlaceInv(m)'
  PROVE  FreshInv(R)'
<1>1. PICK m : m = run[R] /\ PlaceInv(m)
  BY DEF FreshInv
<1>2. PlaceInv(m)' /\ run'[R] = m
  BY <1>1
<1>3. PlaceInv(run[R])'
  BY <1>2
<1>4. QED
  BY <1>3 DEF FreshInv, RunTyped, GroupInOrder

\* Agents write their files, or die; others commit.
LEMMA OutsideStep ==
  ASSUME NEW R, FreshInv(R), AgentWrites \/ AgentDies \/ OtherCommits \/ UNCHANGED allVars
  PROVE  FreshInv(R)'
<1>1. DocInv /\ FileInv /\ GroupInv /\ head \in Int
  BY RunFacts DEF FreshInv
<1>2. /\ run' = run /\ task' = task /\ built' = built /\ yieldedGroup' = yieldedGroup
      /\ head' \in {head, head + 1}
  BY DEF AgentWrites, AgentDies, OtherCommits, NewCommit, workflow, yields, runnerVars, allVars
<1>3. DocInv' /\ Ages(task, task')
  <2>1. [Next]_vars
    BY DEF AgentWrites, AgentDies, OtherCommits, workflow, allVars, vars, Next
  <2>2. QED
    BY <1>1, <2>1, StepDoc
<1>4. /\ agents' \cup DOMAIN results' \subseteq agents \cup DOMAIN results
      /\ DOMAIN results \subseteq DOMAIN results'
      /\ agents' \cap DOMAIN results' = {}
      /\ \A id \in DOMAIN results' :
           \/ results'[id].commit = head
           \/ id \in DOMAIN results /\ results'[id] = results[id]
  <2>1. CASE AgentWrites
    <3>1. PICK id \in agents, outcome \in AgentOutcomes :
            results' = Written({id}, outcome) /\ agents' = agents \ {id}
      BY <2>1 DEF AgentWrites
    <3>2. /\ DOMAIN results' = {id} \cup DOMAIN results
          /\ results'[id].commit = head
          /\ \A i \in DOMAIN results : i # id => results'[i] = results[i]
      BY <3>1 DEF Written
    <3>3. QED
      BY <1>1, <3>1, <3>2 DEF FileInv
  <2>2. CASE AgentDies
    BY <1>1, <2>2 DEF AgentDies, FileInv
  <2>3. CASE OtherCommits \/ UNCHANGED allVars
    BY <1>1, <2>3 DEF OtherCommits, runnerVars, allVars, FileInv
  <2>4. QED
    BY <2>1, <2>2, <2>3
<1>5. FileInv'
  BY <1>1, <1>2, <1>3, <1>4, FilesStep
<1>6. GroupInv'
  BY <1>1, <1>2, GroupStill
<1>7. ASSUME NEW m, PlaceInv(m) PROVE PlaceInv(m)'
  BY <1>2, <1>4, <1>7, PlaceStill
<1>8. QED
  BY <1>2, <1>3, <1>5, <1>6, <1>7, RunUntouched

LEMMA GroupIdsTyped ==
  ASSUME GroupInOrder, task \in Task
  PROVE  /\ GroupIds \in Seq(Id) /\ Len(GroupIds) = Len(Group)
         /\ \A i \in DOMAIN Group :
              /\ GroupIds[i] = StageId(Group[i]) /\ GroupIds[i].stage = Group[i]
              /\ Group[i] \in Stage \cap GATE_STAGES
<1>1. Group \in Seq(GATE_STAGES)
  BY RunnerAssumption
<1>2. ASSUME NEW stage \in Stage
      PROVE  StageId(stage) \in Id /\ StageId(stage).stage = stage
  <2>1. PICK k \in Nat : k = Cardinality(StageDispatches(task, stage, End))
    BY CountTyped
  <2>2. StageId(stage) = [phase |-> "stage", stage |-> stage, n |-> k + 1, re |-> 1]
    BY <2>1 DEF StageId
  <2>3. QED
    BY <2>2 DEF Id
<1>3. \A i \in DOMAIN Group :
        /\ GroupIds[i] = StageId(Group[i]) /\ GroupIds[i].stage = Group[i]
        /\ GroupIds[i] \in Id /\ Group[i] \in Stage \cap GATE_STAGES
  BY <1>1, <1>2 DEF GroupIds, GroupInOrder
<1>4. DOMAIN GroupIds = 1 .. Len(Group) /\ Len(Group) \in Nat
  BY <1>1 DEF GroupIds
<1>5. GroupIds \in Seq(Id) /\ Len(GroupIds) = Len(Group)
  <2>1. GroupIds = [i \in 1 .. Len(Group) |-> StageId(Group[i])]
    BY <1>1 DEF GroupIds
  <2>2. \A i \in 1 .. Len(Group) : StageId(Group[i]) \in Id
    BY <1>1, <1>2 DEF GroupInOrder
  <2>3. QED
    BY <1>4, <2>1, <2>2
<1>6. QED
  BY <1>3, <1>5

LEMMA StartGroupStep ==
  ASSUME NEW R, FreshInv(R), StartGroup(R)
  PROVE  FreshInv(R)'
<1>1. PICK m \in RunRecord : m = run[R] /\ PlaceInv(m)
  BY RunFacts
<1>2. /\ BetweenDispatches /\ GroupReady /\ Filed(yieldedGroup)
      /\ UNCHANGED workflow /\ results' = results /\ yieldedGroup' = yieldedGroup
  BY DEF StartGroup, yields, Filed
<1>3. Free(m)
  BY <1>1 DEF StartGroup, At, PlaceInv, Works, Fanned, Applies, Discards
<1>4. PICK called : /\ called = IF yieldedGroup # {} THEN {}
                                ELSE {id \in Range(GroupIds) : ~HasResult(id)}
                    /\ run' = [run EXCEPT ![R] = [Idle EXCEPT !.pc = "fan",
                                                     !.members = GroupIds, !.called = called]]
                    /\ agents' = agents \cup called
  BY DEF StartGroup
<1>5. DocInv /\ FileInv /\ GroupInv /\ GroupInOrder /\ task \in Task /\ head \in Int
  BY RunFacts DEF FreshInv
<1>6. GroupIds \in Seq(Id)
  BY <1>5, GroupIdsTyped
<1>7. Range(GroupIds) \subseteq Id
  BY <1>6 DEF Range
<1>8. called \subseteq Range(GroupIds) /\ called \cap DOMAIN results = {}
      /\ Filed(Range(GroupIds) \ called)
      /\ yieldedGroup \in {{}, Range(GroupIds)}
  BY <1>2, <1>4, <1>5 DEF Filed, HasResult, GroupInv
<1>9. PICK n : n = [Idle EXCEPT !.pc = "fan", !.members = GroupIds, !.called = called]
  OBVIOUS
<1>10. PICK members \in Seq(Id) : members = GroupIds
  BY <1>6
<1>11. /\ n \in RunRecord /\ n.pc = "fan" /\ n.members = members /\ n.called = called
       /\ n.yielded = {}
  <2>1. Idle \in RunRecord /\ Idle.yielded = {}
    BY IdleTyped DEF Idle
  <2>2. called \in SUBSET Id
    BY <1>7, <1>8
  <2>3. n = [Idle EXCEPT !.pc = "fan", !.members = members, !.called = called]
    BY <1>9, <1>10
  <2>4. QED
    BY <2>1, <2>2, <2>3 DEF RunRecord
<1>12. /\ DocInv' /\ task' = task /\ head' = head /\ built' = built
       /\ \A id : Live(task', id) <=> Live(task, id)
  BY <1>2, <1>5, StillDoc
<1>13. Ages(task, task')
  BY <1>12 DEF Ages
<1>14. FileInv'
  BY <1>2, <1>4, <1>5, <1>8, <1>12, <1>13, FilesStep DEF FileInv
<1>15. GroupInv'
  BY <1>2, <1>5, <1>12, GroupStill
<1>16. /\ BetweenDispatches' = BetweenDispatches /\ GroupReady' = GroupReady
       /\ GroupIds' = GroupIds
  BY <1>12 DEF BetweenDispatches, GroupReady, GroupIds, StageId
<1>17. Within(Range(members))'
  <2>1. OutId = {}
    BY <1>2 DEF BetweenDispatches, OutId
  <2>2. Within(Range(members))
    BY <1>3, <1>8, <1>10, <2>1 DEF Free, Within
  <2>3. QED
    BY <1>2, <1>4, <1>8, <1>10, <1>12, <2>2 DEF Within
<1>18. Filed(Range(members) \ called)'
  BY <1>2, <1>8, <1>10 DEF Filed, HasResult
<1>19. Fanned(n)'
  BY <1>2, <1>8, <1>10, <1>11, <1>16, <1>17, <1>18 DEF Fanned
<1>20. PlaceInv(n)'
  BY <1>19 DEF PlaceInv
<1>21. QED
  BY <1>4, <1>9, <1>11, <1>12, <1>14, <1>15, <1>20, Lands

LEMMA YieldMemberStep ==
  ASSUME NEW R, FreshInv(R), YieldMember(R)
  PROVE  FreshInv(R)'
<1>1. PICK m \in RunRecord : m = run[R] /\ PlaceInv(m)
  BY RunFacts
<1>2. Fanned(m)
  BY <1>1 DEF YieldMember, At, PlaceInv, Works, Free, Applies, Discards
<1>3. /\ UNCHANGED workflow /\ results' = results /\ agents' = agents
      /\ yieldedGroup' = Range(m.members)
  BY <1>1 DEF YieldMember, Members
<1>4. PICK id \in m.called :
        run' = [run EXCEPT ![R].yielded = m.yielded \cup {id}]
  BY <1>1 DEF YieldMember
<1>5. PICK n : n = [m EXCEPT !.yielded = m.yielded \cup {id}]
  OBVIOUS
<1>6. run' = [run EXCEPT ![R] = n]
  BY <1>1, <1>4, <1>5
<1>7. /\ n \in RunRecord /\ n.pc = m.pc /\ n.members = m.members /\ n.called = m.called
  BY <1>5 DEF RunRecord
<1>8. /\ DocInv' /\ task' = task /\ head' = head /\ built' = built
      /\ \A i : Live(task', i) <=> Live(task, i)
  BY <1>3, StillDoc DEF FreshInv
<1>9. FileInv'
  BY <1>3, <1>8 DEF FreshInv, FileInv
<1>10. /\ BetweenDispatches' = BetweenDispatches /\ GroupReady' = GroupReady
       /\ GroupIds' = GroupIds
  BY <1>8 DEF BetweenDispatches, GroupReady, GroupIds, StageId
<1>11. GroupInv'
  BY <1>2, <1>3, <1>10 DEF GroupInv, Fanned
<1>12. \A ids : (Within(ids) => Within(ids)') /\ (Filed(ids) => Filed(ids)')
  BY <1>3, <1>8 DEF Within, Filed, HasResult
<1>13. Fanned(n)'
  BY <1>2, <1>3, <1>7, <1>10, <1>12 DEF Fanned
<1>14. PlaceInv(n)'
  BY <1>13 DEF PlaceInv
<1>15. QED
  BY <1>6, <1>7, <1>8, <1>9, <1>11, <1>14, Lands

LEMMA DiscardRestStep ==
  ASSUME NEW R, FreshInv(R), DiscardRest(R)
  PROVE  FreshInv(R)'
<1>1. PICK m \in RunRecord : m = run[R] /\ PlaceInv(m)
  BY RunFacts
<1>2. Discards(m)
  BY <1>1 DEF DiscardRest, At, PlaceInv, Works, Free, Fanned, Applies
<1>3. PICK rest : rest = Range(Tail(m.members))
  OBVIOUS
<1>4. /\ UNCHANGED workflow /\ results' = Without(rest) /\ agents' = agents
      /\ yieldedGroup' = yieldedGroup
      /\ run' = [run EXCEPT ![R] = [Idle EXCEPT !.pc = "loop"]]
  BY <1>1, <1>3 DEF DiscardRest, yields
<1>5. PICK n \in RunRecord : /\ n = [Idle EXCEPT !.pc = "loop"]
                             /\ n.pc = "loop" /\ n.members = <<>>
  BY IdleTyped
<1>6. /\ DocInv' /\ task' = task /\ head' = head /\ built' = built
      /\ \A id : Live(task', id) <=> Live(task, id)
  BY <1>4, StillDoc DEF FreshInv
<1>7. /\ DOMAIN results' = DOMAIN results \ rest
      /\ \A id \in DOMAIN results' : results'[id] = results[id]
  BY <1>4 DEF Without
<1>8. FileInv'
  BY <1>4, <1>6, <1>7 DEF FreshInv, FileInv
<1>9. GroupInv'
  BY <1>4, <1>6, GroupStill DEF FreshInv
<1>10. Within({})'
  BY <1>2, <1>3, <1>4, <1>6, <1>7 DEF Discards, Within, Filed, HasResult, FreshInv, FileInv
<1>11. Free(n)'
  BY <1>5, <1>10 DEF Free, Within
<1>12. PlaceInv(n)'
  BY <1>11 DEF PlaceInv
<1>13. QED
  BY <1>4, <1>5, <1>6, <1>8, <1>9, <1>12, Lands

LEMMA CollectGroupStep ==
  ASSUME NEW R, FreshInv(R), CollectGroup(R)
  PROVE  FreshInv(R)'
<1>1. PICK m \in RunRecord : m = run[R] /\ PlaceInv(m)
  BY RunFacts
<1>2. Fanned(m) /\ CallsReturned(R) /\ UNCHANGED workflow /\ agents' = agents
  BY <1>1 DEF CollectGroup, At, PlaceInv, Works, Free, Applies, Discards
<1>3. PICK all : all = Range(m.members)
  OBVIOUS
<1>4. PICK missing : missing = {id \in all : ~HasResult(id)}
  OBVIOUS
<1>5. PICK rejected \in SUBSET (m.called \ m.yielded) :
        /\ results' = Written(rejected \cup (missing \ m.yielded), "infra")
        /\ IF missing \cap m.yielded = {}
           THEN yieldedGroup' = {} /\ Goto(R, "prepare")
           ELSE yieldedGroup' = yieldedGroup /\ Stop(R)
  BY <1>1, <1>3, <1>4 DEF CollectGroup, Members
<1>6. PICK wrote : wrote = rejected \cup (missing \ m.yielded)
  OBVIOUS
<1>7. /\ DOMAIN results' = wrote \cup DOMAIN results
      /\ \A id \in wrote : results'[id].commit = head
      /\ \A id \in DOMAIN results : id \notin wrote => results'[id] = results[id]
  BY <1>5, <1>6 DEF Written
<1>8. DocInv /\ FileInv /\ GroupInv /\ GroupInOrder /\ task \in Task /\ head \in Int
  BY RunFacts DEF FreshInv
<1>9. wrote \subseteq m.called /\ wrote \subseteq all /\ wrote \cap m.yielded = {}
  BY <1>2, <1>3, <1>4, <1>5, <1>6 DEF Fanned, Filed
<1>10. wrote \cap agents = {}
  BY <1>1, <1>2, <1>8, <1>9 DEF CallsReturned, HasResult, FileInv
<1>11. /\ DocInv' /\ task' = task /\ head' = head /\ built' = built
       /\ \A id : Live(task', id) <=> Live(task, id)
  BY <1>2, <1>8, StillDoc
<1>12. Ages(task, task')
  BY <1>11 DEF Ages
<1>13. agents' \cap DOMAIN results' = {}
  BY <1>2, <1>7, <1>8, <1>10 DEF FileInv
<1>14. FileInv'
  BY <1>7, <1>8, <1>11, <1>12, <1>13, FilesStep
<1>15. Within(all)'
  BY <1>2, <1>3, <1>7, <1>9, <1>11 DEF Fanned, Within
<1>16. CASE missing \cap m.yielded = {}
  <2>1. yieldedGroup' = {} /\ Goto(R, "prepare")
    BY <1>5, <1>16
  <2>2. PICK n \in RunRecord : /\ run' = [run EXCEPT ![R] = n] /\ n.pc = "prepare"
                               /\ n.members = m.members
    BY <1>1, <2>1, GoesTo
  <2>3. GroupInv'
    BY <2>1 DEF GroupInv
  <2>4. Filed(all)'
    BY <1>4, <1>6, <1>7, <1>16 DEF Filed, HasResult
  <2>5. /\ task'.status = "active" /\ task'.recovery.active.phase = "none"
        /\ task'.dispatch.status = "none" /\ task'.currentStage = Group[1]
        /\ m.members = GroupIds /\ Len(Group) >= 2
    BY <1>2, <1>11 DEF Fanned, BetweenDispatches, GroupReady
  <2>6. /\ GroupIds \in Seq(Id) /\ Len(GroupIds) = Len(Group) /\ Len(Group) \in Nat
        /\ DOMAIN Group = 1 .. Len(Group)
        /\ \A i \in DOMAIN Group : /\ GroupIds[i] = StageId(Group[i])
                                   /\ GroupIds[i].stage = Group[i]
                                   /\ Group[i] \in Stage \cap GATE_STAGES
    BY <1>8, GroupIdsTyped, RunnerAssumption
  <2>7. PICK members \in Seq(Id) : members = m.members
    BY <2>5, <2>6
  <2>8. /\ DOMAIN members = DOMAIN Group /\ members # <<>> /\ 1 \in DOMAIN Group
        /\ \A i \in DOMAIN Group : /\ members[i] = StageId(Group[i])
                                   /\ members[i].stage = Group[i]
    BY <2>5, <2>6, <2>7
  <2>9. \A t : StageId(t)' = StageId(t)
    BY <1>11 DEF StageId
  <2>10. InTurn(members)'
    BY <1>8, <2>5, <2>6, <2>8, <2>9 DEF InTurn, GroupInOrder
  <2>11. Applies(n)'
    BY <1>3, <1>15, <2>1, <2>2, <2>4, <2>5, <2>7, <2>8, <2>10 DEF Applies
  <2>12. PlaceInv(n)'
    BY <2>11 DEF PlaceInv
  <2>13. QED
    BY <1>11, <1>14, <2>2, <2>3, <2>12, Lands
<1>17. CASE missing \cap m.yielded # {}
  <2>1. yieldedGroup' = yieldedGroup /\ Stop(R)
    BY <1>5, <1>17
  <2>2. PICK n \in RunRecord : /\ run' = [run EXCEPT ![R] = n]
                               /\ n.pc = "idle" /\ n.members = <<>>
    BY <2>1, RunFacts
  <2>3. GroupInv'
    BY <1>8, <1>11, <2>1, GroupStill
  <2>4. yieldedGroup' = all
    BY <1>2, <1>3, <1>17, <2>1 DEF Fanned
  <2>5. Free(n)'
    BY <1>15, <2>2, <2>4 DEF Free, Within
  <2>6. PlaceInv(n)'
    BY <2>5 DEF PlaceInv
  <2>7. QED
    BY <1>11, <1>14, <2>2, <2>3, <2>6, Lands
<1>18. QED
  BY <1>16, <1>17

-----------------------------------------------------------------------------
(* Steps that issue, mark and close a dispatch                             *)

\* The document's place is kept, and its record.
Kindred(s, r) ==
  /\ r.status = s.status /\ r.currentStage = s.currentStage /\ r.stages = s.stages
  /\ r.dispatches = s.dispatches /\ r.recovery = s.recovery

LEMMA IssueFields ==
  ASSUME DocInv, PrepareDispatch \/ MarkDispatchRunning \/ UNCHANGED workflow
  PROVE  /\ DocInv' /\ Ages(task, task') /\ Kindred(task, task')
         /\ built' = built /\ head' = head
         /\ PrepareDispatch => /\ task'.dispatch.id = DispatchId(task)
                               /\ task'.dispatch.status = "ready"
         /\ ~PrepareDispatch => /\ task'.dispatch.id = task.dispatch.id
                                /\ task.dispatch.status # "none" =>
                                     task'.dispatch.status # "none"
<1>1. [Next]_vars /\ task \in Task
  BY DEF Next, Engine, workflow, vars, DocInv, IdsInv, CalmInv, IInv, Core
<1>2. DocInv' /\ Ages(task, task')
  BY <1>1, StepDoc
<1>3. /\ Kindred(task, task') /\ built' = built /\ head' = head
      /\ PrepareDispatch => /\ task'.dispatch.id = DispatchId(task)
                            /\ task'.dispatch.status = "ready"
  BY <1>1 DEF PrepareDispatch, MarkDispatchRunning, workflow, Kindred, Task
<1>4. ASSUME ~PrepareDispatch
      PROVE  /\ task'.dispatch.id = task.dispatch.id
             /\ task.dispatch.status # "none" => task'.dispatch.status # "none"
  BY <1>1, <1>4 DEF MarkDispatchRunning, workflow, Task, Dispatch
<1>5. QED
  BY <1>2, <1>3, <1>4

LEMMA KindredTurns ==
  ASSUME Kindred(task, task'), NEW members, InTurn(members)
  PROVE  InTurn(members)'
<1>1. \A t : StageId(t)' = StageId(t)
  BY DEF Kindred, StageId, StageDispatches
<1>2. task'.currentStage = task.currentStage
  BY DEF Kindred
<1>3. QED
  BY <1>1, <1>2 DEF InTurn

LEMMA PrepareFresh ==
  ASSUME NEW R, FreshInv(R), Prepare(R)
  PROVE  FreshInv(R)'
<1>1. PICK m \in RunRecord : m = run[R] /\ PlaceInv(m)
  BY RunFacts
<1>2. /\ m.pc = "prepare" /\ yieldedGroup = {} /\ PrepareDispatch /\ agents' = agents
      /\ yieldedGroup' = yieldedGroup
      /\ run' = [run EXCEPT ![R].pc = "mark", ![R].id = task'.dispatch.id]
      /\ results' = IF task'.dispatch.id.phase = "stage" THEN results
                    ELSE Without({task'.dispatch.id})
  BY <1>1 DEF Prepare, At, yields
<1>3. DocInv /\ FileInv /\ task \in Task /\ head \in Int
  BY RunFacts DEF FreshInv
<1>4. /\ DocInv' /\ Ages(task, task') /\ Kindred(task, task')
      /\ built' = built /\ head' = head
      /\ task'.dispatch.id = DispatchId(task) /\ task'.dispatch.status = "ready"
      /\ task.dispatch.status = "none"
  BY <1>2, <1>3, IssueFields DEF PrepareDispatch
<1>5. PICK id \in Id : id = task'.dispatch.id
  BY <1>4 DEF DocInv, IdsInv, CalmInv, IInv, Core, Task, Dispatch
<1>6. PICK n : n = [m EXCEPT !.pc = "mark", !.id = id]
  OBVIOUS
<1>7. n \in RunRecord /\ n.pc = "mark" /\ n.id = id /\ n.members = m.members
  BY <1>6 DEF RunRecord
<1>8. run' = [run EXCEPT ![R] = n]
  BY <1>1, <1>2, <1>5, <1>6
<1>9. /\ DOMAIN results' \subseteq DOMAIN results
      /\ \A i \in DOMAIN results' : results'[i] = results[i]
  BY <1>2 DEF Without
<1>10. FileInv'
  <2>1. agents' \cap DOMAIN results' = {}
    BY <1>2, <1>3, <1>9 DEF FileInv
  <2>2. head' \in Int /\ head' >= head
    BY <1>3, <1>4
  <2>3. QED
    BY <1>3, <1>4, <1>9, <2>1, <2>2, FilesStep
<1>11. GroupInv'
  BY <1>2 DEF GroupInv
<1>12. \A ids : Within(ids) => Within(ids)'
  BY <1>2, <1>4, <1>9 DEF Within, Ages
<1>13. ASSUME Free(m) PROVE PlaceInv(n)'
  <2>1. Within({})
    BY <1>2, <1>4, <1>13 DEF Free, OutId, Within
  <2>2. Within({})'
    BY <1>12, <2>1
  <2>3. Works(n)'
    BY <1>2, <1>4, <1>5, <1>7, <1>13, <2>2 DEF Works, Free, Within
  <2>4. QED
    BY <2>3 DEF PlaceInv
<1>14. ASSUME Applies(m) PROVE PlaceInv(n)'
  <2>1. task.recovery.active.phase = "none" /\ m.members # <<>> /\ InTurn(m.members)
        /\ task.currentStage = m.members[1].stage
    BY <1>14 DEF Applies
  <2>2. DispatchId(task) = StageId(task.currentStage)
    BY <2>1 DEF DispatchId, StageId
  <2>3. id = m.members[1] /\ id.phase = "stage"
    <3>1. m.members \in Seq(Id)
      BY DEF RunRecord
    <3>2. 1 \in DOMAIN m.members
      BY <2>1, <3>1
    <3>3. m.members[1] = StageId(task.currentStage)
      BY <2>1, <3>2 DEF InTurn
    <3>4. QED
      BY <1>4, <1>5, <2>2, <3>3 DEF StageId
  <2>4. results' = results
    BY <1>2, <1>5, <2>3
  <2>5. \A ids : Filed(ids) => Filed(ids)'
    BY <2>4 DEF Filed, HasResult
  <2>6. PICK members : members = m.members
    OBVIOUS
  <2>7. InTurn(members)'
    BY <1>4, <2>1, <2>6, KindredTurns
  <2>8. Applies(n)'
    BY <1>2, <1>4, <1>5, <1>7, <1>12, <1>14, <2>1, <2>3, <2>5, <2>6, <2>7
    DEF Applies, Kindred
  <2>9. QED
    BY <2>8 DEF PlaceInv
<1>15. PlaceInv(n)'
  BY <1>1, <1>2, <1>13, <1>14 DEF PlaceInv, Works, Fanned, Discards
<1>16. QED
  BY <1>4, <1>7, <1>8, <1>10, <1>11, <1>15, Lands

LEMMA MarkFresh ==
  ASSUME NEW R, FreshInv(R), Mark(R)
  PROVE  FreshInv(R)'
<1>1. PICK m \in RunRecord : m = run[R] /\ PlaceInv(m)
  BY RunFacts
<1>2. /\ m.pc = "mark" /\ results' = results /\ yieldedGroup' = yieldedGroup
      /\ MarkDispatchRunning \/ UNCHANGED workflow
      /\ IF HasResult(m.id) \/ m.members # <<>>
         THEN Goto(R, "consume") /\ agents' = agents
         ELSE Goto(R, "call") /\ agents' = agents \cup {m.id}
  BY <1>1 DEF Mark, At, yields, Applying
<1>3. DocInv /\ FileInv /\ task \in Task /\ head \in Int
  BY RunFacts DEF FreshInv
<1>4. /\ task.dispatch.status # "none" /\ task.dispatch.id = m.id /\ yieldedGroup = {}
      /\ Works(m) \/ Applies(m)
  BY <1>1, <1>2 DEF PlaceInv, Works, Free, Fanned, Applies, Discards
<1>5. /\ DocInv' /\ Ages(task, task') /\ Kindred(task, task')
      /\ built' = built /\ head' = head
      /\ task'.dispatch.id = m.id /\ task'.dispatch.status # "none"
  <2>1. ~PrepareDispatch
    BY <1>4 DEF PrepareDispatch
  <2>2. QED
    BY <1>2, <1>3, <1>4, <2>1, IssueFields
<1>6. PICK n \in RunRecord : /\ run' = [run EXCEPT ![R] = n] /\ n.pc \in {"call", "consume"}
                             /\ n.id = m.id /\ n.members = m.members
                             /\ m.members # <<>> => n.pc = "consume"
  BY <1>1, <1>2, GoesTo
<1>7. agents' \cap DOMAIN results' = {} /\ agents' \subseteq agents \cup {m.id}
  BY <1>2, <1>3 DEF FileInv, HasResult
<1>8. FileInv'
  <2>1. head' \in Int /\ head' >= head
    BY <1>3, <1>5
  <2>2. QED
    BY <1>2, <1>3, <1>5, <1>7, <2>1, FilesStep
<1>9. GroupInv'
  BY <1>2, <1>4 DEF GroupInv
<1>10. \A ids : (m.id \in ids /\ Within(ids)) => Within(ids)'
  BY <1>2, <1>5, <1>7 DEF Within, Ages
<1>11. ASSUME Works(m) PROVE PlaceInv(n)'
  <2>1. PICK ids : ids = {m.id}
    OBVIOUS
  <2>2. Within(ids)
    BY <1>4, <1>11, <2>1 DEF Works, OutId
  <2>3. Within(ids)'
    BY <1>10, <2>1, <2>2
  <2>4. OutId' = ids
    BY <1>5, <2>1 DEF OutId
  <2>5. Works(n)'
    BY <1>2, <1>4, <1>5, <1>6, <1>11, <2>3, <2>4 DEF Works
  <2>6. QED
    BY <2>5 DEF PlaceInv
<1>12. ASSUME Applies(m) PROVE PlaceInv(n)'
  <2>1. PICK members \in Seq(Id) : members = m.members
    BY DEF RunRecord
  <2>2. /\ members # <<>> /\ InTurn(members) /\ m.id = members[1]
        /\ Within(Range(members)) /\ Filed(Range(members))
    BY <1>2, <1>12, <2>1 DEF Applies
  <2>3. m.id \in Range(members)
    BY <2>2 DEF Range
  <2>4. PICK ids : ids = Range(members)
    OBVIOUS
  <2>5. Within(ids)' /\ Filed(ids)'
    BY <1>2, <1>10, <2>2, <2>3, <2>4 DEF Filed, HasResult
  <2>6. InTurn(members)'
    BY <1>5, <2>2, KindredTurns
  <2>7. Applies(n)'
    BY <1>2, <1>4, <1>5, <1>6, <1>12, <2>1, <2>2, <2>4, <2>5, <2>6 DEF Applies, Kindred
  <2>8. QED
    BY <2>7 DEF PlaceInv
<1>13. PlaceInv(n)'
  BY <1>4, <1>11, <1>12
<1>14. QED
  BY <1>5, <1>6, <1>8, <1>9, <1>13, Lands

\* A start re-arms the current stage; a dispatch that was out is spent.
LEMMA StarterDoc ==
  ASSUME DocInv, \/ FounderResume \/ ResolveFounderDecision \/ SweepBlocked
                 \/ SweepOrphan \/ RecoverOrphanNode
  PROVE  /\ DocInv' /\ Ages(task, task') /\ Fades(task, task')
         /\ built' = built /\ head' = head
         /\ \A id \in OutId : ~Live(task', id)
<1>1. [Next]_vars /\ IInv /\ Calm(task) /\ task \in Task /\ Core(task) /\ Owned(task)
  BY DEF Next, Founder, Sweep, DocInv, IdsInv, CalmInv, IInv, Core
<1>2. DocInv' /\ Ages(task, task')
  BY <1>1, StepDoc
<1>3. built' = built /\ head' = head
  BY DEF FounderResume, ResolveFounderDecision, SweepBlocked, SweepOrphan, RecoverOrphanNode
<1>4. ASSUME NEW r, task'.stages = r.stages,
             \A t \in Stage :
               r.stages[t] = IF t = task.currentStage THEN Pending ELSE task.stages[t]
      PROVE  Fades(task, task')
  BY <1>4 DEF Fades, Pending
<1>5. CASE FounderResume \/ ResolveFounderDecision \/ SweepBlocked
  <2> DEFINE r == ResumeState(task)
  <2>1. /\ r \in Task
        /\ \A t \in Stage :
             r.stages[t] = IF t = task.currentStage THEN Pending ELSE task.stages[t]
    BY <1>1, <1>5, ResumeFields DEF FounderResume, ResolveFounderDecision, SweepBlocked, Placed
  <2>2. \/ task' = r
        \/ \E n : task' = [r EXCEPT !.autoRetries = n]
    BY <1>5 DEF FounderResume, ResolveFounderDecision, SweepBlocked
  <2> HIDE DEF r
  <2>3. task'.stages = r.stages
    BY <2>1, <2>2 DEF Task
  <2>4. Fades(task, task')
    BY <1>4, <2>1, <2>3
  <2>5. OutId = {}
    BY <1>1, <1>5
    DEF FounderResume, ResolveFounderDecision, SweepBlocked, CanResume, Owned, OutId
  <2>6. QED
    BY <1>2, <1>3, <2>4, <2>5
<1>6. CASE SweepOrphan \/ RecoverOrphanNode
  <2> DEFINE r == DropOrphan(task)
  <2>1. /\ r \in Task /\ task.status = "active"
        /\ \A t \in Stage :
             r.stages[t] = IF t = task.currentStage THEN Pending ELSE task.stages[t]
    BY <1>1, <1>6, DropOrphanFields DEF SweepOrphan, RecoverOrphanNode, Placed
  <2>2. PICK n : task' = r \/ task' = [r EXCEPT !.autoRetries = n]
    BY <1>6 DEF SweepOrphan, RecoverOrphanNode
  <2>3. task.dispatch.status # "none" => Closes(task, task', "lost")
    BY <1>1, <2>1, <2>2, OrphanDropped
  <2> HIDE DEF r
  <2>4. task'.stages = r.stages
    BY <2>1, <2>2 DEF Task
  <2>5. Fades(task, task')
    BY <1>4, <2>1, <2>4
  <2>6. \A id \in OutId : ~Live(task', id)
    BY <1>1, <2>3, ClosedIsSpent DEF OutId
  <2>7. QED
    BY <1>2, <1>3, <2>5, <2>6
<1>7. QED
  BY <1>5, <1>6

\* Nothing starts a runner while a fan-out is with its delegates.
LEMMA StarterActions ==
  ASSUME NEW R, FreshInv(R), FounderRetry(R) \/ SweepRun(R) \/ ObjectiveRecovers(R)
  PROVE  /\ \/ FounderResume \/ ResolveFounderDecision \/ SweepBlocked
            \/ SweepOrphan \/ RecoverOrphanNode
         /\ yieldedGroup = {} /\ yieldedGroup' = {}
         /\ results' = results /\ agents' = agents
         /\ run[R].pc = "idle" /\ Goto(R, "loop")
<1>1. yieldedGroup = {}
  BY DEF FounderRetry, SweepRun, ObjectiveRecovers, DelegateOwns, FreshInv, GroupInv,
         BetweenDispatches, FounderResume, ResolveFounderDecision, CanResume
<1>2. QED
  BY <1>1 DEF FounderRetry, SweepRun, ObjectiveRecovers, Starts, Enters, At, yields

LEMMA StarterFresh ==
  ASSUME NEW R, FreshInv(R), FounderRetry(R) \/ SweepRun(R) \/ ObjectiveRecovers(R)
  PROVE  FreshInv(R)' /\ Fades(task, task')
<1>1. PICK m \in RunRecord : m = run[R] /\ PlaceInv(m)
  BY RunFacts
<1>2. DocInv /\ FileInv /\ head \in Int
  BY RunFacts DEF FreshInv
<1>3. /\ DocInv' /\ Ages(task, task') /\ Fades(task, task')
      /\ built' = built /\ head' = head
      /\ \A id \in OutId : ~Live(task', id)
  BY <1>2, StarterActions, StarterDoc
<1>4. Free(m)
  BY <1>1, StarterActions DEF PlaceInv, Works, Fanned, Applies, Discards
<1>5. PICK n \in RunRecord : /\ run' = [run EXCEPT ![R] = n] /\ n.pc = "loop"
                             /\ n.members = <<>>
  BY <1>1, <1>4, StarterActions, GoesTo DEF Free
<1>6. FileInv'
  <2>1. /\ agents' \cap DOMAIN results' = {}
        /\ \A id \in DOMAIN results' : id \in DOMAIN results /\ results'[id] = results[id]
        /\ head' \in Int /\ head' >= head
    BY <1>2, <1>3, StarterActions DEF FileInv
  <2>2. QED
    BY <1>2, <1>3, <2>1, FilesStep
<1>7. GroupInv'
  BY StarterActions DEF GroupInv
<1>8. Within({})'
  BY <1>3, <1>4, StarterActions DEF Free, Within, Ages
<1>9. Free(n)'
  BY <1>5, <1>8 DEF Free, Within
<1>10. PlaceInv(n)'
  BY <1>9 DEF PlaceInv
<1>11. QED
  BY <1>3, <1>5, <1>6, <1>7, <1>10, Lands

\* The engine's answers to a dispatch.
Answers == IngestStage \/ IngestInfraFailure \/ IngestRecovery \/ FailDispatch \/ BlockDispatch

LEMMA IngestAnswers ==
  ASSUME NEW file, Ingest(file)
  PROVE  Answers
BY DEF Ingest, Answers, IngestStage, IngestRecovery

LEMMA AnswerDoc ==
  ASSUME DocInv, Answers
  PROVE  /\ DocInv' /\ Ages(task, task') /\ head' = head /\ built' \in {built, head}
         /\ task.currentStage # "builder" => built' = built
         /\ task.dispatch.status # "none" /\ task'.dispatch.status = "none"
         /\ ~Live(task', task.dispatch.id)
         /\ \E end \in End : Closes(task, task', end) /\ Settles(task, task', end)
<1>1. [Next]_vars /\ IInv /\ Calm(task) /\ task \in Task
  BY DEF Answers, Next, Engine, DocInv, IdsInv, CalmInv, IInv, Core
<1>2. DocInv' /\ Ages(task, task')
  BY <1>1, StepDoc
<1>3. head' = head /\ built' \in {built, head}
  BY DEF Answers, IngestStage, IngestVerdict, IngestInfraFailure, IngestRecovery,
         IngestRepair, FailDispatch, BlockDispatch
<1>4. PICK end \in End : Closes(task, task', end) /\ Settles(task, task', end)
  BY <1>1, EngineCloses DEF Answers
<1>5. task.currentStage # "builder" => built' = built
  BY <1>1, EngineCloses DEF Answers
<1>6. task.dispatch.status # "none" /\ task'.dispatch.status = "none"
      /\ ~Live(task', task.dispatch.id)
  <2>1. ~Live(task', task.dispatch.id) /\ task'.dispatch = NoDispatch
    BY <1>1, <1>4, ClosedIsSpent
  <2>2. QED
    BY <1>4, <2>1 DEF Closes, NoDispatch
<1>7. QED
  BY <1>2, <1>3, <1>4, <1>5, <1>6

\* The dispatch's file is put away, its agent is forgotten, and its id is spent.
LEMMA AnswerFiles ==
  ASSUME DocInv, FileInv, Answers, Forget(task.dispatch.id),
         task.currentStage = "builder" => Within({task.dispatch.id})
  PROVE  /\ FileInv'
         /\ \A ids : Within(ids \cup {task.dispatch.id}) => Within(ids)'
         /\ \A ids : Filed(ids) /\ task.dispatch.id \notin ids => Filed(ids)'
<1>1. PICK id : id = task.dispatch.id
  OBVIOUS
<1>2. /\ DocInv' /\ Ages(task, task') /\ head' = head /\ built' \in {built, head}
      /\ task.currentStage # "builder" => built' = built
      /\ ~Live(task', id) /\ head \in Int
  BY <1>1, AnswerDoc DEF DocInv, IdsInv, CalmInv, IInv, Commits
<1>3. /\ agents' = agents \ {id} /\ DOMAIN results' = DOMAIN results \ {id}
      /\ \A i \in DOMAIN results' : results'[i] = results[i]
  BY <1>1 DEF Forget, Without
<1>4. ASSUME NEW ids, Within(ids \cup {id}) PROVE Within(ids)'
  BY <1>2, <1>3, <1>4 DEF Within, Ages
<1>5. ASSUME NEW ids, Filed(ids), id \notin ids PROVE Filed(ids)'
  BY <1>3, <1>5 DEF Filed, HasResult
<1>6. FileInv'
  <2>1. agents' \cap DOMAIN results' = {}
    BY <1>3 DEF FileInv
  <2>2. task.currentStage = "builder" => \A i \in DOMAIN results' : ~Live(task', i)
    BY <1>1, <1>2, <1>3 DEF Within, Ages
  <2>3. \/ built' = built
        \/ built' = head /\ \A i \in DOMAIN results' : ~Live(task', i)
    BY <1>2, <2>2
  <2>4. head' \in Int /\ head' >= head
    BY <1>2
  <2>5. QED
    BY <1>2, <1>3, <2>1, <2>3, <2>4, FilesStep
<1>7. QED
  BY <1>1, <1>4, <1>5, <1>6

\* A runner on its own closes its dispatch and is done with it.
LEMMA OwnAnswer ==
  ASSUME NEW R, FreshInv(R), Answers, Forget(task.dispatch.id),
         Within(OutId), yieldedGroup = {}, yieldedGroup' = yieldedGroup,
         NEW n \in RunRecord, run' = [run EXCEPT ![R] = n],
         n.pc \in {"idle", "loop"}, n.members = <<>>
  PROVE  FreshInv(R)'
<1>1. DocInv /\ FileInv
  BY DEF FreshInv
<1>2. DocInv' /\ task.dispatch.status # "none"
  BY <1>1, AnswerDoc
<1>3. Within({task.dispatch.id})
  BY <1>2 DEF OutId
<1>4. FileInv'
  BY <1>1, <1>3, AnswerFiles
<1>5. Within({})'
  <2>1. Within({} \cup {task.dispatch.id})
    BY <1>3 DEF Within
  <2>2. QED
    BY <1>1, <1>3, <2>1, AnswerFiles
<1>6. GroupInv'
  BY DEF GroupInv
<1>7. Free(n)'
  BY <1>5 DEF Free, Within
<1>8. PlaceInv(n)'
  BY <1>7 DEF PlaceInv
<1>9. QED
  BY <1>2, <1>4, <1>6, <1>8, Lands

LEMMA ReturnFacts ==
  ASSUME NEW R, FreshInv(R), Return(R), NEW m, m = run[R]
  PROVE  \E n \in RunRecord :
           /\ run' = [run EXCEPT ![R] = n]
           /\ IF m.members = <<>> THEN n.pc = "loop" /\ n.members = <<>>
              ELSE IF task'.stages[Head(m.members).stage].status # "pass"
              THEN n.pc = "discard" /\ n.members = m.members
              ELSE IF Len(m.members) = 1 THEN n.pc = "loop" /\ n.members = <<>>
              ELSE n.pc = "prepare" /\ n.members = Tail(m.members)
<1>1. m \in RunRecord
  BY RunFacts
<1>2. PICK n0 : /\ n0 = [Idle EXCEPT !.pc = "loop"] /\ n0 \in RunRecord
                /\ n0.pc = "loop" /\ n0.members = <<>>
  BY IdleTyped
<1>3. PICK n1 : n1 = [m EXCEPT !.pc = "discard"]
  OBVIOUS
<1>4. n1 \in RunRecord /\ n1.pc = "discard" /\ n1.members = m.members
  BY <1>1, <1>3 DEF RunRecord
<1>5. PICK rest : rest = Tail(m.members)
  OBVIOUS
<1>6. PICK n2 : n2 = [m EXCEPT !.pc = "prepare", !.members = rest]
  OBVIOUS
<1>7. n2.pc = "prepare" /\ n2.members = rest /\ (m.members # <<>> => n2 \in RunRecord)
  <2>1. m.members \in Seq(Id)
    BY <1>1 DEF RunRecord
  <2>2. m.members # <<>> => rest \in Seq(Id)
    BY <1>5, <2>1
  <2>3. QED
    BY <1>1, <1>6, <2>2 DEF RunRecord
<1>8. run' = [run EXCEPT ![R] =
                IF m.members = <<>> THEN n0
                ELSE IF task'.stages[Head(m.members).stage].status = "pass"
                     THEN IF Len(m.members) = 1 THEN n0 ELSE n2
                     ELSE n1]
  BY <1>2, <1>3, <1>5, <1>6 DEF Return, Applying
<1>9. QED
  BY <1>2, <1>4, <1>5, <1>7, <1>8

LEMMA RestFacts ==
  ASSUME NEW members \in Seq(Id), members # <<>>
  PROVE  /\ Tail(members) \in Seq(Id) /\ Head(members) = members[1] /\ 1 \in DOMAIN members
         /\ Range(members) = Range(Tail(members)) \cup {members[1]}
         /\ Len(members) \in Nat /\ Len(members) >= 1
         /\ DOMAIN Tail(members) = 1 .. Len(members) - 1
         /\ \A i \in DOMAIN Tail(members) :
              i + 1 \in DOMAIN members /\ Tail(members)[i] = members[i + 1]
         /\ Len(members) = 1 => Range(Tail(members)) = {}
<1>1. PICK rest : rest = Tail(members)
  OBVIOUS
<1>2. /\ rest \in Seq(Id) /\ Head(members) = members[1] /\ 1 \in DOMAIN members
      /\ Len(members) \in Nat /\ Len(members) >= 1
      /\ DOMAIN members = 1 .. Len(members) /\ DOMAIN rest = 1 .. Len(members) - 1
      /\ \A i \in 1 .. Len(members) - 1 : rest[i] = members[i + 1]
  BY <1>1
<1>3. ASSUME NEW i \in DOMAIN members, i # 1
      PROVE  i - 1 \in DOMAIN rest /\ members[i] = rest[i - 1]
  BY <1>2, <1>3
<1>4. Range(members) = Range(rest) \cup {members[1]}
  <2>1. ASSUME NEW i \in DOMAIN members
        PROVE  members[i] = members[1] \/ \E j \in DOMAIN rest : members[i] = rest[j]
    BY <1>3
  <2>2. ASSUME NEW j \in DOMAIN rest
        PROVE  \E i \in DOMAIN members : rest[j] = members[i]
    BY <1>2
  <2>3. QED
    BY <1>2, <2>1, <2>2 DEF Range
<1>5. Len(members) = 1 => Range(rest) = {}
  BY <1>2 DEF Range
<1>6. QED
  BY <1>1, <1>2, <1>4, <1>5

\* The first member of a fan-out is answered: the rest keep their files.
LEMMA RestStays ==
  ASSUME DocInv, FileInv, NEW members \in Seq(Id), members # <<>>, InTurn(members),
         Within(Range(members)), Filed(Range(members)),
         Answers, Forget(task.dispatch.id), task.dispatch.id = members[1],
         task.currentStage = members[1].stage,
         NEW rest, rest = Range(Tail(members))
  PROVE  FileInv' /\ Within(rest)' /\ Filed(rest)'
<1>1. 1 \in DOMAIN members /\ Range(members) = rest \cup {task.dispatch.id}
  BY RestFacts
<1>2. task.currentStage \in Stage \cap GATE_STAGES
  BY <1>1 DEF InTurn
<1>3. task.currentStage # "builder"
  BY <1>2 DEF GATE_STAGES
<1>4. task.dispatch.id \notin rest
  <2>1. SUFFICES ASSUME NEW i \in DOMAIN Tail(members), Tail(members)[i] = members[1]
                 PROVE  FALSE
    BY DEF Range
  <2>2. /\ i \in Int /\ i >= 1 /\ i + 1 \in DOMAIN members
        /\ members[i + 1] = members[1]
    BY <2>1, RestFacts
  <2>3. /\ Index(members[i + 1].stage) = Index(task.currentStage) + (i + 1) - 1
        /\ Index(members[1].stage) = Index(task.currentStage)
    BY <1>1, <2>2 DEF InTurn
  <2>4. Index(task.currentStage) \in Int
    BY <1>2, IndexTyped
  <2>5. QED
    BY <2>2, <2>3, <2>4
<1>5. Within(rest \cup {task.dispatch.id}) /\ Filed(rest)
  BY <1>1 DEF Filed
<1>6. QED
  BY <1>3, <1>4, <1>5, AnswerFiles

\* It passed, so the task is at the next member's stage.
LEMMA NextMember ==
  ASSUME DocInv, NEW members \in Seq(Id), members # <<>>, InTurn(members),
         Len(members) # 1, task.status = "active", task.recovery.active.phase = "none",
         Answers, task.dispatch.id = members[1], task.currentStage = members[1].stage,
         task'.stages[members[1].stage].status = "pass"
  PROVE  /\ Tail(members) # <<>> /\ InTurn(Tail(members))'
         /\ task'.status = "active" /\ task'.recovery.active.phase = "none"
         /\ task'.currentStage = Tail(members)[1].stage
<1>1. PICK rest : rest = Tail(members)
  OBVIOUS
<1>2. /\ rest \in Seq(Id) /\ 1 \in DOMAIN members /\ 1 \in DOMAIN rest /\ 2 \in DOMAIN members
      /\ rest # <<>>
      /\ \A i \in DOMAIN rest : i \in Int /\ i >= 1 /\ i + 1 \in DOMAIN members
                                /\ rest[i] = members[i + 1]
  <2>1. PICK k \in Nat : k = Len(members)
    BY RestFacts
  <2>2. /\ k >= 2 /\ DOMAIN rest = 1 .. k - 1 /\ DOMAIN members = 1 .. k /\ rest \in Seq(Id)
    BY <1>1, <2>1, RestFacts
  <2>3. 1 \in DOMAIN rest /\ rest # <<>>
    BY <2>2
  <2>4. \A i \in DOMAIN rest : i + 1 \in DOMAIN members /\ rest[i] = members[i + 1]
    BY <1>1, RestFacts
  <2>5. QED
    BY <2>1, <2>2, <2>3, <2>4
<1>3. PICK here \in Stage \cap GATE_STAGES : here = task.currentStage
  BY <1>2 DEF InTurn
<1>4. Index(here) \in Int
  BY <1>3, IndexTyped
<1>5. ASSUME NEW i \in DOMAIN rest
      PROVE  /\ rest[i].stage \in Stage \cap GATE_STAGES /\ rest[i] = StageId(rest[i].stage)
             /\ Index(rest[i].stage) = Index(here) + i /\ rest[i].stage # here
  <2>1. i \in Int /\ i >= 1 /\ i + 1 \in DOMAIN members /\ rest[i] = members[i + 1]
    BY <1>2, <1>5
  <2>2. PICK d : d = rest[i]
    OBVIOUS
  <2>3. /\ d.stage \in Stage \cap GATE_STAGES /\ d = StageId(d.stage)
        /\ Index(d.stage) = Index(here) + (i + 1) - 1
    BY <1>3, <2>1, <2>2 DEF InTurn
  <2>4. Index(d.stage) = Index(here) + i
    BY <1>4, <2>1, <2>3
  <2>5. d.stage # here
    BY <1>4, <2>1, <2>4
  <2>6. QED
    BY <2>2, <2>3, <2>4, <2>5
<1>6. PICK next \in Stage \cap GATE_STAGES : next = rest[1].stage
  BY <1>2, <1>5
<1>7. Index(next) = Index(here) + 1 /\ next # here
  BY <1>2, <1>5, <1>6
<1>8. /\ task \in Task /\ InOrder(task) /\ Unpassed(task) /\ Core(task) /\ Ids(task)
      /\ task.dispatch.status # "none" /\ Owned(task)
  BY AnswerDoc DEF DocInv, IdsInv, CalmInv, IInv, Core
<1>9. PICK end \in End : Closes(task, task', end) /\ Settles(task, task', end)
  BY AnswerDoc
<1>10. DocInv' /\ Core(task')
  BY AnswerDoc DEF DocInv, IdsInv, CalmInv, IInv
<1>11. Advances(task, task')
  BY <1>2, <1>3, <1>8, <1>9 DEF Settles, Stands, Fades, Unpassed
<1>12. task'.stages[next] = Pending
  <2>1. task.stages[next] = Pending
    BY <1>3, <1>4, <1>7, <1>8, StagesFacts DEF InOrder
  <2>2. QED
    BY <1>3, <1>6, <1>7, <1>11, <2>1 DEF Advances
<1>13. task'.status # "merge-ready"
  BY <1>6, <1>10, <1>12 DEF Core, InOrder, Pending
<1>14. task'.currentStage = next /\ task'.status = "active"
  <2>1. /\ Index(here) # Len(STAGES) /\ task'.currentStage = STAGES[Index(here) + 1]
        /\ task'.status = "active" \/ task'.currentStage = "builder"
    BY <1>3, <1>11, <1>13 DEF Advances
  <2>2. /\ STAGES[Index(here) + 1] \in Stage
        /\ Index(STAGES[Index(here) + 1]) = Index(here) + 1
    BY <1>3, <2>1, Successor
  <2>3. STAGES[Index(here) + 1] = next
    BY <1>6, <1>7, <2>2, IndexInjective
  <2>4. next # "builder"
    BY <1>6 DEF GATE_STAGES
  <2>5. QED
    BY <2>1, <2>3, <2>4
<1>15. task'.recovery.active.phase = "none"
  BY <1>11 DEF Advances
<1>16. ASSUME NEW t, t # here PROVE StageId(t)' = StageId(t)
  <2>1. PICK d : /\ task'.dispatches = Append(task.dispatches, d)
                 /\ d.stage = task.dispatch.stage /\ d.end = end
    BY <1>9 DEF Closes
  <2>2. d.stage = here
    BY <1>3, <1>8, <2>1 DEF Owned
  <2>3. StageCount(task', t) = StageCount(task, t) + 0 /\ StageCount(task, t) \in Nat
    BY <1>8, <1>16, <2>1, <2>2, StageCountAppend
  <2>4. Cardinality(StageDispatches(task', t, End)) = Cardinality(StageDispatches(task, t, End))
    BY <2>3 DEF StageCount
  <2>5. QED
    BY <2>4 DEF StageId
<1>17. InTurn(rest)'
  <2>1. ASSUME NEW i \in DOMAIN rest
        PROVE  /\ rest[i].stage \in Stage \cap GATE_STAGES
               /\ rest[i] = StageId(rest[i].stage)'
               /\ Index(rest[i].stage) = Index(task'.currentStage) + i - 1
    <3>1. rest[i] = StageId(rest[i].stage)'
      BY <1>5, <1>16, <2>1
    <3>2. Index(rest[i].stage) = Index(here) + i /\ i \in Int
      BY <1>2, <1>5, <2>1
    <3>3. QED
      BY <1>4, <1>5, <1>7, <1>14, <2>1, <3>1, <3>2
  <2>2. QED
    BY <2>1 DEF InTurn
<1>18. QED
  BY <1>1, <1>2, <1>6, <1>14, <1>15, <1>17

LEMMA MemberAnswer ==
  ASSUME NEW R, FreshInv(R), NEW m, m = run[R], Applies(m), m.pc # "prepare",
         Answers, Forget(task.dispatch.id), Return(R), yieldedGroup' = yieldedGroup
  PROVE  FreshInv(R)'
<1>1. PICK members \in Seq(Id) : members = m.members
  BY RunFacts DEF RunRecord
<1>2. /\ members # <<>> /\ InTurn(members) /\ task.currentStage = members[1].stage
      /\ Within(Range(members)) /\ Filed(Range(members)) /\ yieldedGroup = {}
      /\ task.dispatch.id = members[1]
      /\ task.status = "active" /\ task.recovery.active.phase = "none"
      /\ Head(members) = members[1]
  BY <1>1, RestFacts DEF Applies
<1>3. DocInv /\ FileInv
  BY DEF FreshInv
<1>4. DocInv' /\ task'.dispatch.status = "none"
  BY <1>3, AnswerDoc
<1>5. PICK rest : rest = Range(Tail(members))
  OBVIOUS
<1>6. FileInv' /\ Within(rest)' /\ Filed(rest)'
  BY <1>2, <1>3, <1>5, RestStays
<1>7. GroupInv'
  BY <1>2 DEF GroupInv
<1>8. PICK n \in RunRecord :
        /\ run' = [run EXCEPT ![R] = n]
        /\ IF task'.stages[members[1].stage].status # "pass"
           THEN n.pc = "discard" /\ n.members = members
           ELSE IF Len(members) = 1 THEN n.pc = "loop" /\ n.members = <<>>
           ELSE n.pc = "prepare" /\ n.members = Tail(members)
  BY <1>1, <1>2, ReturnFacts
<1>9. PlaceInv(n)'
  <2>1. CASE n.pc = "discard"
    <3>1. n.members = members
      BY <1>8, <2>1
    <3>2. Discards(n)'
      BY <1>2, <1>5, <1>6, <2>1, <3>1 DEF Discards
    <3>3. QED
      BY <3>2 DEF PlaceInv
  <2>2. CASE n.pc = "loop"
    <3>1. Len(members) = 1 /\ n.members = <<>>
      BY <1>8, <2>2
    <3>2. rest = {}
      BY <1>2, <1>5, <3>1, RestFacts
    <3>3. Free(n)'
      BY <1>6, <2>2, <3>1, <3>2 DEF Free, Within
    <3>4. QED
      BY <3>3 DEF PlaceInv
  <2>3. CASE n.pc = "prepare"
    <3>1. /\ Len(members) # 1 /\ task'.stages[members[1].stage].status = "pass"
          /\ n.members = Tail(members)
      BY <1>8, <2>3
    <3>2. PICK others : others = Tail(members)
      OBVIOUS
    <3>3. /\ others # <<>> /\ InTurn(others)'
          /\ task'.status = "active" /\ task'.recovery.active.phase = "none"
          /\ task'.currentStage = others[1].stage
      BY <1>2, <1>3, <3>1, <3>2, NextMember
    <3>4. Applies(n)'
      BY <1>2, <1>4, <1>5, <1>6, <2>3, <3>1, <3>2, <3>3 DEF Applies
    <3>5. QED
      BY <3>4 DEF PlaceInv
  <2>4. QED
    BY <1>8, <2>1, <2>2, <2>3
<1>10. QED
  BY <1>4, <1>6, <1>7, <1>8, <1>9, Lands

LEMMA ConsumeFresh ==
  ASSUME NEW R, FreshInv(R), Consume(R) \/ ConsumeBlocks(R) \/ TakeOver(R)
  PROVE  FreshInv(R)'
<1>1. PICK m \in RunRecord : m = run[R] /\ PlaceInv(m)
  BY RunFacts
<1>2. Answers /\ Forget(task.dispatch.id) /\ yieldedGroup' = yieldedGroup
  BY IngestAnswers DEF Consume, ConsumeBlocks, TakeOver, Answers, yields
<1>3. task.dispatch.status # "none"
  BY <1>2, AnswerDoc DEF FreshInv
<1>4. CASE Applies(m)
  <2>1. Consume(R) /\ m.pc # "prepare"
    BY <1>1, <1>3, <1>4 DEF Applies, ConsumeBlocks, TakeOver, Applying, At
  <2>2. Return(R)
    BY <2>1 DEF Consume
  <2>3. QED
    BY <1>1, <1>2, <1>4, <2>1, <2>2, MemberAnswer
<1>5. CASE ~Applies(m)
  <2>1. (Works(m) \/ Free(m)) /\ yieldedGroup = {} /\ m.members = <<>>
    BY <1>1, <1>5 DEF Consume, ConsumeBlocks, TakeOver, At, PlaceInv, Works, Free, Fanned,
                      Discards
  <2>2. Within(OutId)
    BY <2>1 DEF Works, Free, Within
  <2>3. Return(R) \/ Stop(R)
    BY DEF Consume, ConsumeBlocks, TakeOver
  <2>4. PICK n \in RunRecord : /\ run' = [run EXCEPT ![R] = n]
                               /\ n.pc \in {"idle", "loop"} /\ n.members = <<>>
    <3>1. CASE Return(R)
      BY <1>1, <2>1, <3>1, ReturnFacts
    <3>2. CASE Stop(R)
      BY <3>2, RunFacts
    <3>3. QED
      BY <2>3, <3>1, <3>2
  <2>5. QED
    BY <1>2, <2>1, <2>2, <2>4, OwnAnswer
<1>6. QED
  BY <1>4, <1>5

\* Every step of a runner that neither dies nor throws.
LEMMA SteadyFresh ==
  ASSUME NEW R, FreshInv(R), [SteadyNext]_allVars
  PROVE  FreshInv(R)'
<1>1. Runner = {R}
  BY DEF FreshInv
<1>2. CASE UNCHANGED allVars \/ AgentWrites \/ AgentDies \/ OtherCommits
  BY <1>2, OutsideStep
<1>3. CASE Starter(R)
  BY <1>3, QuietStep, StarterFresh DEF Starter
<1>4. CASE StageStep(R)
  BY <1>4, QuietStep, StartGroupStep, YieldMemberStep, CollectGroupStep, DiscardRestStep,
     PrepareFresh, MarkFresh, ConsumeFresh DEF StageStep
<1>5. QED
  BY <1>1, <1>2, <1>3, <1>4 DEF SteadyNext

LEMMA InitFresh ==
  ASSUME NEW R, Runner = {R}, GroupInOrder, RunnerInit
  PROVE  FreshInv(R)
<1>1. Init /\ run = [r \in Runner |-> Idle] /\ results = << >> /\ agents = {}
      /\ yieldedGroup = {}
  BY DEF RunnerInit
<1>2. DOMAIN results = {}
  BY <1>1
<1>3. IdsInv
  <2>1. task.dispatches = <<>> /\ task.dispatch = NoDispatch
    BY <1>1 DEF Init
  <2>2. QED
    BY <1>1, <2>1, InitCalm DEF IdsInv, Ids, Distinct, OutIsNext, NoDispatch
<1>4. Unpassed(task)
  BY <1>1 DEF Init, Unpassed, Pending
<1>5. FileInv
  BY <1>1, <1>2 DEF FileInv, Init, NoCommit
<1>6. Idle \in RunRecord /\ Idle.pc = "idle" /\ Idle.members = <<>>
  BY IdleTyped
<1>7. RunTyped /\ run[R] = Idle
  BY <1>1, <1>6 DEF RunTyped
<1>8. Free(Idle)
  BY <1>1, <1>2, <1>6 DEF Free, Within
<1>9. PlaceInv(run[R])
  BY <1>7, <1>8 DEF PlaceInv
<1>10. QED
  BY <1>1, <1>3, <1>4, <1>5, <1>7, <1>9 DEF FreshInv, DocInv, GroupInv

LEMMA FreshVerdict ==
  ASSUME NEW R, FreshInv(R), [SteadyNext]_allVars,
         NEW stage \in Stage \cap GATE_STAGES, PassOf(stage)
  PROVE  results[task.dispatch.id].commit >= built
<1>1. ~Fades(task, task') /\ ~Stands(task, task')
  BY DEF PassOf, Fades, Stands
<1>2. /\ DocInv /\ FileInv /\ Runner = {R} /\ IInv /\ Calm(task) /\ Ids(task) /\ Owned(task)
  BY DEF FreshInv, DocInv, IdsInv, CalmInv, IInv
<1>3. Consume(R) \/ ConsumeBlocks(R) \/ TakeOver(R)
  <2>1. task' = task => Fades(task, task')
    BY DEF Fades
  <2>2. CASE UNCHANGED allVars \/ AgentWrites \/ AgentDies \/ OtherCommits
    BY <1>1, <2>1, <2>2
    DEF allVars, AgentWrites, AgentDies, OtherCommits, NewCommit, workflow
  <2>3. CASE Starter(R)
    BY <1>1, <2>1, <2>3, StarterFresh DEF Starter, StartRun, workflow
  <2>4. CASE Prepare(R) \/ Mark(R)
    <3>1. Kindred(task, task')
      BY <1>2, <2>4, IssueFields DEF Prepare, Mark
    <3>2. QED
      BY <1>1, <3>1 DEF Kindred, Fades
  <2>5. CASE StageStep(R) /\ ~(Prepare(R) \/ Mark(R))
    <3>1. task' = task \/ Consume(R) \/ ConsumeBlocks(R) \/ TakeOver(R)
      BY <1>2, <2>5, ReadingStep DEF StageStep, vars
    <3>2. QED
      BY <1>1, <2>1, <3>1
  <2>6. QED
    BY <1>2, <2>2, <2>3, <2>4, <2>5 DEF SteadyNext
<1>4. Answers
  BY <1>3, IngestAnswers DEF Consume, ConsumeBlocks, TakeOver, Answers
<1>5. PICK end \in End : Closes(task, task', end) /\ Settles(task, task', end)
  BY <1>2, <1>4, AnswerDoc
<1>6. /\ Advances(task, task') /\ task.dispatch.id.phase = "stage"
      /\ task.dispatch.status # "none"
  BY <1>1, <1>5 DEF Settles, Closes
<1>7. HasResult(task.dispatch.id)
  <2>1. ~FailDispatch
    BY <1>1, <1>2, FailCloses DEF Settles
  <2>2. ~BlockDispatch
    BY <1>1, <1>2, BlockCloses DEF Settles
  <2>3. QED
    BY <1>3, <2>1, <2>2 DEF Consume, ConsumeBlocks, TakeOver
<1>8. stage = task.currentStage
  BY <1>6 DEF Advances, PassOf
<1>9. Live(task, task.dispatch.id)
  BY <1>2, <1>6, <1>8 DEF Live, Ids, OutIsNext, Owned
<1>10. QED
  BY <1>2, <1>7, <1>9 DEF FileInv, HasResult

\* A gate's pass comes from an agent that finished after the build it judges, for one
\* runner that nothing kills, whatever else happens: agents that die, calls that yield and
\* fan-outs collected by a later run, founder retries, sweeps, recoveries and commits.
\* Files of a fan-out that was not applied never survive it (openclaw-runner.mjs:661).
THEOREM VerdictsAlwaysFresh ==
  ASSUME NEW R, Runner = {R}, GroupInOrder
  PROVE  SteadySpec => VerdictsAreFresh
<1>1. RunnerInit => FreshInv(R)
  BY InitFresh
<1>2. FreshInv(R) /\ [SteadyNext]_allVars => FreshInv(R)'
  BY SteadyFresh
<1>3. FreshInv(R) /\ [SteadyNext]_allVars =>
        [\A stage \in Stage \cap GATE_STAGES :
           PassOf(stage) => results[task.dispatch.id].commit >= built]_allVars
  BY FreshVerdict
<1>4. QED
  BY <1>1, <1>2, <1>3, PTL DEF SteadySpec, VerdictsAreFresh

=============================================================================
