------------------------- MODULE TaskWorkflowProofs -------------------------
(***************************************************************************)
(* Machine-checked proofs about TaskWorkflow and what the founder's console *)
(* shows of it (TaskConsole), for every pipeline that satisfies            *)
(* StagesAssumption and every budget.                                      *)
(***************************************************************************)
EXTENDS TaskConsole, FiniteSetTheorems, WellFoundedInduction, TLAPS

-----------------------------------------------------------------------------
(* Stages                                                                  *)

LEMMA IndexOf ==
  ASSUME NEW stage \in Stage
  PROVE  Index(stage) \in DOMAIN STAGES /\ STAGES[Index(stage)] = stage
BY DEF Stage, Index

LEMMA StagesFacts ==
  /\ DOMAIN STAGES = 1 .. Len(STAGES)
  /\ Len(STAGES) \in Nat \ {0}
  /\ "builder" \in Stage /\ "release" \in Stage
  /\ NoStage \notin Stage
  /\ \A i \in DOMAIN STAGES : STAGES[i] \in Stage
  /\ Stage \subseteq {"product", "architect", "builder", "reviewer", "qa",
                     "security", "release"}
BY StagesAssumption DEF Stage, NoStage

LEMMA IndexOfEntry ==
  ASSUME NEW i \in DOMAIN STAGES
  PROVE  Index(STAGES[i]) = i
BY IndexOf, StagesFacts, StagesAssumption

LEMMA IndexInjective ==
  ASSUME NEW t \in Stage, NEW u \in Stage
  PROVE  /\ Index(t) \in 1 .. Len(STAGES)
         /\ Index(t) = Index(u) => t = u
BY IndexOf, StagesFacts

LEMMA IndexTyped ==
  ASSUME NEW t \in Stage
  PROVE  Index(t) \in Int /\ 1 <= Index(t) /\ Index(t) <= Len(STAGES)
BY IndexInjective, StagesFacts

LEMMA BuilderBeforeReview ==
  ASSUME NEW t \in Stage \cap REVIEW_STAGES
  PROVE  Index("builder") < Index(t)
BY IndexOf, StagesFacts, StagesAssumption

\* The builder is not the last stage, and the successor of a stage that is not
\* last is the stage whose index is one more.
LEMMA Successor ==
  ASSUME NEW t \in Stage, Index(t) # Len(STAGES)
  PROVE  /\ STAGES[Index(t) + 1] \in Stage
         /\ Index(STAGES[Index(t) + 1]) = Index(t) + 1
<1>1. Index(t) + 1 \in DOMAIN STAGES
  BY IndexInjective, StagesFacts
<1>2. QED
  BY <1>1, IndexOfEntry, StagesFacts

-----------------------------------------------------------------------------
(* The document between two steps of one command                           *)

LEMMA NoneTyped ==
  /\ NoDispatch \in Dispatch /\ NoBlocker \in BlockerRecord
  /\ NoRecovery \in ActiveRecovery /\ Pending \in StageResult
BY DEF NoDispatch, NoId, Id, Dispatch, NoBlocker, BlockerRecord, Cause, NoRecovery,
       ActiveRecovery, Pending, StageResult

Anchored(s) ==
  s.recovery.active.phase # "none" =>
    /\ s.recovery.active.failedStage = s.currentStage
    /\ s.recovery.active.ordinal = Len(s.recovery.attempts)
    /\ Len(s.recovery.attempts) > 0
    /\ LastAttempt(s).status = "diagnosing"
    /\ LastAttempt(s).incident = s.recovery.incident
    /\ LastAttempt(s).failedStage = s.recovery.active.failedStage

InOrder(s) ==
  \A t \in Stage :
    IF s.currentStage = NoStage THEN s.stages[t].status = "pass"
    ELSE /\ Index(t) < Index(s.currentStage) => s.stages[t].status = "pass"
         /\ Index(t) > Index(s.currentStage) => s.stages[t] = Pending

Gated(s) ==
  HighRisk /\ ~s.approved => /\ s.stages["builder"].status = "pending"
                             /\ s.currentStage = "builder" => s.status = "blocked"

Parked(s) ==
  s.status = "blocked" => s.blocker.stage \in {s.currentStage, "builder"}

Waits(s) ==
  s.status = "blocked" =>
    s.blocker.outcome \in {"decision-required", "paused-credits"} \/ s.blocker.founderAction

\* Everything but the dispatch, which a command closes last.
Core(s) ==
  /\ s \in Task
  /\ Waits(s)
  /\ s.status = "merge-ready" <=> s.currentStage = NoStage
  /\ Parked(s)
  /\ s.currentStage = "builder" /\ s.status = "blocked" => s.blocker.stage = "builder"
  /\ Anchored(s)
  /\ InOrder(s)
  /\ Gated(s)

Owned(s) ==
  /\ s.dispatch.status = "none" => s.dispatch = NoDispatch
  /\ s.dispatch.status # "none" =>
       /\ s.status = "active"
       /\ s.dispatch.stage = s.currentStage
       /\ s.dispatch.id.phase = IF s.recovery.active.phase = "none" THEN "stage"
                                ELSE s.recovery.active.phase

LEMMA CloseDispatchFields ==
  ASSUME NEW s, s \in Task, s.dispatch.stage \in Stage, NEW end \in End
  PROVE  LET r == CloseDispatch(s, end) IN
         /\ r \in Task
         /\ r.dispatch = NoDispatch
         /\ r.status = s.status /\ r.currentStage = s.currentStage
         /\ r.stages = s.stages /\ r.blocker = s.blocker
         /\ r.recovery = s.recovery /\ r.approved = s.approved
         /\ r.verifiedCommit = s.verifiedCommit /\ r.autoRetries = s.autoRetries
         /\ r.dispatches = Append(s.dispatches, [id |-> s.dispatch.id,
                                                 stage |-> s.dispatch.stage, end |-> end])
<1> DEFINE d == [id |-> s.dispatch.id, stage |-> s.dispatch.stage, end |-> end]
           ds == Append(s.dispatches, d)
<1>1. s.dispatch.id \in Id
  BY DEF Task, Dispatch
<1>2. d \in DispatchRecord
  BY <1>1 DEF DispatchRecord
<1>3. ds \in Seq(DispatchRecord)
  BY <1>2 DEF Task
<1>4. CloseDispatch(s, end) = [s EXCEPT !.dispatches = ds, !.dispatch = NoDispatch]
  BY DEF CloseDispatch
<1> HIDE DEF ds
<1>5. QED
  BY <1>3, <1>4, NoneTyped DEF Task, ds

LEMMA CloseDispatchCore ==
  ASSUME NEW s, Core(s), s.dispatch.stage \in Stage, NEW end \in End
  PROVE  Core(CloseDispatch(s, end))
<1> DEFINE r == CloseDispatch(s, end)
<1>1. /\ r \in Task /\ r.status = s.status /\ r.currentStage = s.currentStage
      /\ r.stages = s.stages /\ r.blocker = s.blocker
      /\ r.recovery = s.recovery /\ r.approved = s.approved
  BY CloseDispatchFields DEF Core
<1> HIDE DEF r
<1>2. Core(r)
  BY <1>1 DEF Core, Waits, Parked, Anchored, LastAttempt, InOrder, Gated
<1>3. QED
  BY <1>2 DEF r

LEMMA ReopenFromFields ==
  ASSUME NEW s, s \in Task, NEW stage \in Stage
  PROVE  LET r == ReopenFrom(s, stage) IN
         /\ r \in Task
         /\ r.status = "active" /\ r.currentStage = stage
         /\ r.stages = [t \in Stage |-> IF Index(t) >= Index(stage) THEN Pending
                                        ELSE s.stages[t]]
         /\ r.dispatch = s.dispatch /\ r.recovery = s.recovery
         /\ r.approved = s.approved /\ r.blocker = NoBlocker
         /\ r.dispatches = s.dispatches /\ r.verifiedCommit = s.verifiedCommit
         /\ r.autoRetries = s.autoRetries
<1> DEFINE st == [t \in Stage |-> IF Index(t) >= Index(stage) THEN Pending ELSE s.stages[t]]
<1>1. st \in [Stage -> StageResult]
  BY NoneTyped DEF Task
<1>2. ReopenFrom(s, stage) = [s EXCEPT !.stages = st, !.status = "active",
                                       !.currentStage = stage, !.blocker = NoBlocker]
  BY DEF ReopenFrom
<1> HIDE DEF st
<1>3. /\ ReopenFrom(s, stage) \in Task
      /\ ReopenFrom(s, stage).stages = st
      /\ ReopenFrom(s, stage).status = "active"
      /\ ReopenFrom(s, stage).currentStage = stage
      /\ ReopenFrom(s, stage).dispatch = s.dispatch
      /\ ReopenFrom(s, stage).recovery = s.recovery
      /\ ReopenFrom(s, stage).approved = s.approved
      /\ ReopenFrom(s, stage).blocker = NoBlocker
      /\ ReopenFrom(s, stage).dispatches = s.dispatches
      /\ ReopenFrom(s, stage).verifiedCommit = s.verifiedCommit
      /\ ReopenFrom(s, stage).autoRetries = s.autoRetries
  BY <1>1, <1>2, NoneTyped DEF Task
<1>4. QED
  BY <1>3 DEF st

\* What a command may assume of the document it is rewriting: it was active, so
\* a builder it stands on has been authorized.
Placed(s) ==
  /\ s \in Task
  /\ s.currentStage \in Stage
  /\ InOrder(s)
  /\ HighRisk /\ ~s.approved => /\ s.stages["builder"].status = "pending"
                                /\ s.currentStage # "builder"

\* Placed reads only the place, the stage table and the approval.
LEMMA PlacedTransfer ==
  ASSUME NEW s, Placed(s), NEW r, r \in Task, r.currentStage = s.currentStage,
         r.stages = s.stages, r.approved = s.approved
  PROVE  Placed(r)
BY DEF Placed, InOrder

LEMMA ActiveIsPlaced ==
  ASSUME NEW s, Core(s), s.status = "active"
  PROVE  Placed(s)
BY DEF Core, Placed, Gated, Task

LEMMA PlacedIsCore ==
  ASSUME NEW s, Placed(s), s.status = "active", Anchored(s)
  PROVE  Core(s)
BY StagesFacts DEF Core, Waits, Placed, Parked, Gated

\* A review stage can send work back to the builder only if the builder passed,
\* so only if the build was authorized.
LEMMA ReviewMeansBuilt ==
  ASSUME NEW s, Placed(s), s.currentStage \in REVIEW_STAGES
  PROVE  ~HighRisk \/ s.approved
<1>1. s.currentStage # NoStage /\ Index("builder") < Index(s.currentStage)
  BY BuilderBeforeReview, StagesFacts DEF Placed
<1>2. s.stages["builder"].status = "pass"
  BY <1>1, StagesFacts DEF Placed, InOrder
<1>3. QED
  BY <1>2 DEF Placed, Task

\* Going back to the current stage, or from a review stage to the builder.
LEMMA ReopenFromCore ==
  ASSUME NEW s, Placed(s), s.recovery.active.phase = "none",
         NEW stage, \/ stage = s.currentStage
                    \/ s.currentStage \in REVIEW_STAGES /\ stage = "builder"
  PROVE  Core(ReopenFrom(s, stage))
<1> DEFINE r == ReopenFrom(s, stage)
<1>0. /\ stage \in Stage /\ Index(stage) <= Index(s.currentStage)
      /\ HighRisk /\ ~s.approved => stage # "builder"
  <2>1. CASE stage = s.currentStage
    BY <2>1, IndexInjective DEF Placed
  <2>2. CASE s.currentStage \in REVIEW_STAGES /\ stage = "builder"
    <3>1. s.currentStage \in Stage \cap REVIEW_STAGES
      BY <2>2 DEF Placed
    <3>2. Index("builder") < Index(s.currentStage)
      BY <3>1, BuilderBeforeReview
    <3>3. Index("builder") \in Int /\ Index(s.currentStage) \in Int
      BY <3>1, IndexTyped, StagesFacts
    <3>4. ~HighRisk \/ s.approved
      BY <2>2, ReviewMeansBuilt
    <3>5. QED
      BY <2>2, <3>2, <3>3, <3>4, StagesFacts
  <2>3. QED
    BY <2>1, <2>2
<1>1. /\ r \in Task /\ r.status = "active" /\ r.currentStage = stage
      /\ r.stages = [t \in Stage |-> IF Index(t) >= Index(stage) THEN Pending ELSE s.stages[t]]
      /\ r.recovery = s.recovery /\ r.approved = s.approved
  BY <1>0, ReopenFromFields DEF Placed
<1> HIDE DEF r
<1>2. stage # NoStage /\ s.currentStage # NoStage
  BY <1>0, StagesFacts DEF Placed
<1>3. InOrder(r)
  BY <1>0, <1>1, <1>2, IndexInjective DEF InOrder, Placed
<1>4. Anchored(r)
  BY <1>1 DEF Anchored
<1>5. Gated(r)
  BY <1>0, <1>1, StagesFacts DEF Gated, Pending, Placed
<1>6. QED
  BY <1>1, <1>2, <1>3, <1>4, <1>5 DEF Core, Waits, Parked, r

-----------------------------------------------------------------------------
(* Recovery                                                                *)

LEMMA RecoveryTyped ==
  ASSUME NEW s, s \in Task
  PROVE  /\ s.recovery \in Recovery
         /\ s.recovery.incident \in Nat
         /\ s.recovery.attempts \in Seq(Attempt)
         /\ Len(s.recovery.attempts) \in Nat
         /\ s.recovery.active \in ActiveRecovery
BY DEF Task, Recovery

LEMMA EscalateFields ==
  ASSUME NEW s, s \in Task, NEW stage \in Stage
  PROVE  LET r == EscalateRecovery(s, stage) IN
         /\ r \in Task /\ r.status = "blocked"
         /\ r.blocker = Blocker(stage, "decision-required", "other", TRUE)
         /\ r.recovery.active = NoRecovery
         /\ r.currentStage = s.currentStage /\ r.stages = s.stages
         /\ r.approved = s.approved /\ r.dispatch = s.dispatch
         /\ r.recovery.attempts = s.recovery.attempts
         /\ r.recovery.incident = s.recovery.incident
         /\ r.dispatches = s.dispatches /\ r.verifiedCommit = s.verifiedCommit
         /\ r.autoRetries = s.autoRetries
<1> DEFINE b == Blocker(stage, "decision-required", "other", TRUE)
           rec == [s.recovery EXCEPT !.active = NoRecovery]
<1>1. b \in BlockerRecord
  BY DEF Blocker, BlockerRecord, Cause
<1>2. /\ rec \in Recovery /\ rec.active = NoRecovery
      /\ rec.attempts = s.recovery.attempts /\ rec.incident = s.recovery.incident
  BY RecoveryTyped, NoneTyped DEF Recovery
<1>3. EscalateRecovery(s, stage) =
        [s EXCEPT !.recovery = rec, !.status = "blocked", !.blocker = b]
  BY DEF EscalateRecovery, Task
<1> HIDE DEF b, rec
<1>4. QED
  BY <1>1, <1>2, <1>3 DEF Task, b

LEMMA EscalateCore ==
  ASSUME NEW s, Placed(s), NEW stage \in {s.currentStage, "builder"}
  PROVE  Core(EscalateRecovery(s, stage))
<1>1. stage \in Stage
  BY StagesFacts DEF Placed
<1> DEFINE r == EscalateRecovery(s, stage)
<1>2. /\ r \in Task /\ r.status = "blocked"
      /\ r.blocker.stage = stage /\ r.blocker.outcome = "decision-required"
      /\ r.recovery.active.phase = "none"
      /\ r.currentStage = s.currentStage /\ r.stages = s.stages /\ r.approved = s.approved
  <2>1. s \in Task
    BY DEF Placed
  <2>2. /\ r \in Task /\ r.status = "blocked"
        /\ r.blocker = Blocker(stage, "decision-required", "other", TRUE)
        /\ r.recovery.active = NoRecovery
        /\ r.currentStage = s.currentStage /\ r.stages = s.stages /\ r.approved = s.approved
    BY <1>1, <2>1, EscalateFields
  <2> HIDE DEF r
  <2>3. QED
    BY <2>2 DEF Blocker, NoRecovery
<1> HIDE DEF r
<1>3. Anchored(r) /\ InOrder(r) /\ Gated(r)
  BY <1>2 DEF Anchored, InOrder, Gated, Placed
<1>4. Parked(r) /\ Waits(r) /\ r.currentStage # NoStage
  BY <1>2, StagesFacts DEF Parked, Waits, Placed
<1>5. Core(r)
  BY <1>2, <1>3, <1>4 DEF Core
<1>6. QED
  BY <1>5 DEF r

LEMMA OpenAttemptFields ==
  ASSUME NEW s, s \in Task, NEW stage \in Stage, NEW target \in {"project", "factory"}
  PROVE  LET r == OpenAttempt(s, stage, target)
             n == Len(s.recovery.attempts) + 1 IN
         /\ r \in Task
         /\ r.status = s.status /\ r.currentStage = s.currentStage
         /\ r.stages = s.stages /\ r.blocker = s.blocker
         /\ r.approved = s.approved /\ r.dispatch = s.dispatch
         /\ r.dispatches = s.dispatches /\ r.verifiedCommit = s.verifiedCommit
         /\ r.autoRetries = s.autoRetries
         /\ \A i \in 1 .. Len(s.recovery.attempts) :
              r.recovery.attempts[i] = s.recovery.attempts[i]
         /\ r.recovery.incident = s.recovery.incident
         /\ r.recovery.active = [phase |-> "diagnose", failedStage |-> stage, ordinal |-> n]
         /\ Len(r.recovery.attempts) = n
         /\ r.recovery.attempts[n] = [incident |-> s.recovery.incident, failedStage |-> stage,
                                      target |-> target, status |-> "diagnosing"]
<1> DEFINE a == [incident |-> s.recovery.incident, failedStage |-> stage,
                 target |-> target, status |-> "diagnosing"]
           as == Append(s.recovery.attempts, a)
           act == [phase |-> "diagnose", failedStage |-> stage,
                   ordinal |-> Len(s.recovery.attempts) + 1]
           rec == [s.recovery EXCEPT !.attempts = as, !.active = act]
<1>1. a \in Attempt
  BY RecoveryTyped DEF Attempt
<1>2. /\ as \in Seq(Attempt) /\ Len(as) = Len(s.recovery.attempts) + 1
      /\ as[Len(s.recovery.attempts) + 1] = a
      /\ \A i \in 1 .. Len(s.recovery.attempts) : as[i] = s.recovery.attempts[i]
  BY <1>1, RecoveryTyped
<1>3. act \in ActiveRecovery
  BY RecoveryTyped DEF ActiveRecovery
<1> HIDE DEF as, act, a
<1>4. rec \in Recovery /\ rec.attempts = as /\ rec.active = act
      /\ rec.incident = s.recovery.incident
  BY <1>2, <1>3, RecoveryTyped DEF Recovery
<1>5. OpenAttempt(s, stage, target) = [s EXCEPT !.recovery = rec]
  BY RecoveryTyped DEF OpenAttempt, Task, Recovery, as, act, a
<1> HIDE DEF rec
<1> DEFINE r == OpenAttempt(s, stage, target)
<1>6. /\ r \in Task /\ r.recovery = rec
      /\ r.status = s.status /\ r.currentStage = s.currentStage
      /\ r.stages = s.stages /\ r.blocker = s.blocker
      /\ r.approved = s.approved /\ r.dispatch = s.dispatch
      /\ r.dispatches = s.dispatches /\ r.verifiedCommit = s.verifiedCommit
      /\ r.autoRetries = s.autoRetries
  BY <1>4, <1>5 DEF Task
<1> HIDE DEF r
<1>7. r.recovery.attempts = as /\ r.recovery.active = act /\ r.recovery.incident = s.recovery.incident
  BY <1>4, <1>6
<1>8. /\ Len(r.recovery.attempts) = Len(s.recovery.attempts) + 1
      /\ r.recovery.attempts[Len(s.recovery.attempts) + 1] = a
      /\ \A i \in 1 .. Len(s.recovery.attempts) :
           r.recovery.attempts[i] = s.recovery.attempts[i]
  BY <1>2, <1>7
<1> HIDE DEF as, rec
<1>9. QED
  BY <1>6, <1>7, <1>8 DEF act, a, r

LEMMA StartRecoveryCore ==
  ASSUME NEW s, Placed(s), NEW cause \in Cause, NEW source
  PROVE  /\ Core(StartRecovery(s, s.currentStage, cause, source))
         /\ StartRecovery(s, s.currentStage, cause, source).dispatch = s.dispatch
<1> DEFINE target == RepairTarget(cause, source)
           o == OpenAttempt(s, s.currentStage, target)
           r == [o EXCEPT !.status = "active", !.currentStage = s.currentStage,
                          !.blocker = NoBlocker]
<1>1. target \in {"project", "factory"}
  BY DEF RepairTarget
<1> HIDE DEF target
<1>2. CASE RecoveryBudgetLeft(s)
  <2>1. StartRecovery(s, s.currentStage, cause, source) = r
    BY <1>2 DEF StartRecovery, target
  <2>2. /\ o \in Task /\ o.stages = s.stages /\ o.approved = s.approved
        /\ o.dispatch = s.dispatch
        /\ o.recovery.incident = s.recovery.incident
        /\ o.recovery.active = [phase |-> "diagnose", failedStage |-> s.currentStage,
                                ordinal |-> Len(s.recovery.attempts) + 1]
        /\ Len(o.recovery.attempts) = Len(s.recovery.attempts) + 1
        /\ o.recovery.attempts[Len(s.recovery.attempts) + 1] =
             [incident |-> s.recovery.incident, failedStage |-> s.currentStage,
              target |-> target, status |-> "diagnosing"]
    BY <1>1, OpenAttemptFields, ZenonT(40) DEF Placed
  <2> HIDE DEF o
  <2>3. /\ r \in Task /\ r.status = "active" /\ r.currentStage = s.currentStage
        /\ r.stages = s.stages /\ r.approved = s.approved /\ r.dispatch = s.dispatch
        /\ r.recovery = o.recovery
    BY <2>2, NoneTyped DEF Task, Placed
  <2> HIDE DEF r
  <2>4. Anchored(r)
    BY <2>2, <2>3, RecoveryTyped, SMTT(20) DEF Anchored, LastAttempt, Placed
  <2>5. Core(r)
    BY <2>3, <2>4, PlacedTransfer, PlacedIsCore
  <2>6. QED
    BY <2>1, <2>3, <2>5
<1>3. CASE ~RecoveryBudgetLeft(s)
  BY <1>3, EscalateCore, EscalateFields DEF StartRecovery, Placed
<1>4. QED
  BY <1>2, <1>3

\* Settling an attempt rewrites the status of the last one and nothing else.
LEMMA SettleFields ==
  ASSUME NEW s, s \in Task, Len(s.recovery.attempts) > 0,
         NEW status \in {"failed", "verified"}
  PROVE  LET r == SettleAttempt(s, status) IN
         /\ r \in Task
         /\ r.status = s.status /\ r.currentStage = s.currentStage
         /\ r.stages = s.stages /\ r.approved = s.approved /\ r.dispatch = s.dispatch
         /\ r.recovery.incident = s.recovery.incident
         /\ r.recovery.active = s.recovery.active
         /\ Len(r.recovery.attempts) = Len(s.recovery.attempts)
         /\ \A i \in 1 .. Len(s.recovery.attempts) :
              r.recovery.attempts[i].incident = s.recovery.attempts[i].incident
         /\ r.blocker = s.blocker
         /\ r.dispatches = s.dispatches /\ r.verifiedCommit = s.verifiedCommit
         /\ r.autoRetries = s.autoRetries
<1> DEFINE n == Len(s.recovery.attempts)
           a == [s.recovery.attempts[n] EXCEPT !.status = status]
           as == [s.recovery.attempts EXCEPT ![n] = a]
           rec == [s.recovery EXCEPT !.attempts = as]
<1>1. s.recovery.attempts[n] \in Attempt
  BY RecoveryTyped
<1>2. a \in Attempt /\ a.incident = s.recovery.attempts[n].incident
  BY <1>1 DEF Attempt
<1> HIDE DEF a
<1>3. /\ as \in Seq(Attempt) /\ Len(as) = Len(s.recovery.attempts)
      /\ \A i \in 1 .. Len(s.recovery.attempts) :
           as[i].incident = s.recovery.attempts[i].incident
  BY <1>2, RecoveryTyped
<1>4. SettleAttempt(s, status) = [s EXCEPT !.recovery = rec]
  BY RecoveryTyped DEF SettleAttempt, Task, Recovery, a
<1> HIDE DEF as
<1>5. rec \in Recovery /\ rec.attempts = as /\ rec.active = s.recovery.active
      /\ rec.incident = s.recovery.incident
  BY <1>3, RecoveryTyped DEF Recovery
<1> HIDE DEF rec
<1>6. QED
  BY <1>3, <1>4, <1>5 DEF Task

LEMMA CloseIncidentFields ==
  ASSUME NEW s, s \in Task
  PROVE  LET r == CloseRecoveryIncident(s) IN
         /\ r \in Task
         /\ r.status = s.status /\ r.currentStage = s.currentStage
         /\ r.stages = s.stages /\ r.approved = s.approved /\ r.dispatch = s.dispatch
         /\ r.autoRetries = s.autoRetries
         /\ r.recovery.active = NoRecovery
         /\ r.recovery.attempts = s.recovery.attempts
         /\ r.recovery.incident \in {s.recovery.incident, s.recovery.incident + 1}
         /\ r.blocker = s.blocker
         /\ r.dispatches = s.dispatches /\ r.verifiedCommit = s.verifiedCommit
<1> DEFINE i == IF OpenIncidentAttempts(s) = {} THEN s.recovery.incident
                ELSE s.recovery.incident + 1
           rec == [s.recovery EXCEPT !.incident = i, !.active = NoRecovery]
<1>1. i \in Nat /\ i \in {s.recovery.incident, s.recovery.incident + 1}
  BY RecoveryTyped
<1>2. CloseRecoveryIncident(s) = [s EXCEPT !.recovery = rec]
  BY RecoveryTyped DEF CloseRecoveryIncident, Task, Recovery
<1> HIDE DEF i
<1>3. /\ rec \in Recovery /\ rec.active = NoRecovery
      /\ rec.attempts = s.recovery.attempts /\ rec.incident = i
  BY <1>1, RecoveryTyped, NoneTyped DEF Recovery
<1> HIDE DEF rec
<1>4. QED
  BY <1>1, <1>2, <1>3 DEF Task

\* The document while a recovery attempt is being worked on.
Repairing(s) ==
  /\ Placed(s)
  /\ s.status = "active"
  /\ s.recovery.active.phase # "none"
  /\ Anchored(s)

LEMMA SettledIsPlaced ==
  ASSUME NEW s, Repairing(s), NEW status \in {"failed", "verified"}
  PROVE  LET r == SettleAttempt(s, status) IN
         /\ Placed(r) /\ r.status = "active"
         /\ r.currentStage = s.currentStage /\ r.dispatch = s.dispatch
         /\ Len(r.recovery.attempts) = Len(s.recovery.attempts)
         /\ r.recovery.incident = s.recovery.incident
<1> DEFINE r == SettleAttempt(s, status)
<1>1. s \in Task /\ Len(s.recovery.attempts) > 0
  BY DEF Repairing, Placed, Anchored
<1>2. /\ r \in Task /\ r.status = s.status /\ r.currentStage = s.currentStage
      /\ r.stages = s.stages /\ r.approved = s.approved /\ r.dispatch = s.dispatch
      /\ Len(r.recovery.attempts) = Len(s.recovery.attempts)
      /\ r.recovery.incident = s.recovery.incident
  BY <1>1, SettleFields
<1> HIDE DEF r
<1>3. Placed(r)
  BY <1>2, PlacedTransfer DEF Repairing
<1>4. QED
  BY <1>2, <1>3 DEF Repairing, r

LEMMA FinishRecoveryFailureCore ==
  ASSUME NEW s, Repairing(s), NEW outcome
  PROVE  /\ Core(FinishRecoveryFailure(s, outcome))
         /\ FinishRecoveryFailure(s, outcome).dispatch = s.dispatch
<1> DEFINE failed == SettleAttempt(s, "failed")
           stage  == s.recovery.active.failedStage
           target == LastAttempt(s).target
           o      == OpenAttempt(failed, stage, target)
<1>1. /\ Placed(failed) /\ failed.status = "active"
      /\ failed.currentStage = s.currentStage /\ failed.dispatch = s.dispatch
  BY SettledIsPlaced
<1>2. stage = s.currentStage
  BY DEF Repairing, Anchored
<1>3. stage \in Stage
  BY <1>2 DEF Repairing, Placed
<1>4. target \in {"project", "factory"}
  <2>1. s \in Task /\ Len(s.recovery.attempts) > 0
    BY DEF Repairing, Placed, Anchored
  <2>2. LastAttempt(s) \in Attempt
    BY <2>1, RecoveryTyped DEF LastAttempt
  <2>3. QED
    BY <2>2 DEF Attempt
<1> HIDE DEF failed, stage, target
<1>5. failed \in Task
  BY <1>1 DEF Placed
<1>6. CASE outcome # "decision-required" /\ RecoveryBudgetLeft(s)
  <2>1. FinishRecoveryFailure(s, outcome) = o
    BY <1>6 DEF FinishRecoveryFailure, failed, stage, target
  <2>2. /\ o \in Task /\ o.status = failed.status /\ o.currentStage = failed.currentStage
        /\ o.stages = failed.stages /\ o.approved = failed.approved
        /\ o.dispatch = failed.dispatch
        /\ o.recovery.incident = failed.recovery.incident
        /\ o.recovery.active = [phase |-> "diagnose", failedStage |-> stage,
                                ordinal |-> Len(failed.recovery.attempts) + 1]
        /\ Len(o.recovery.attempts) = Len(failed.recovery.attempts) + 1
        /\ o.recovery.attempts[Len(failed.recovery.attempts) + 1] =
             [incident |-> failed.recovery.incident, failedStage |-> stage,
              target |-> target, status |-> "diagnosing"]
    BY <1>3, <1>4, <1>5, OpenAttemptFields, ZenonT(40)
  <2> HIDE DEF o
  <2>3. Anchored(o)
    BY <1>1, <1>2, <1>5, <2>2, RecoveryTyped DEF Anchored, LastAttempt
  <2>4. Placed(o)
    BY <1>1, <2>2, PlacedTransfer
  <2>5. QED
    BY <1>1, <2>1, <2>2, <2>3, <2>4, PlacedIsCore
<1>7. CASE ~(outcome # "decision-required" /\ RecoveryBudgetLeft(s))
  <2>1. FinishRecoveryFailure(s, outcome) = EscalateRecovery(failed, stage)
    BY <1>7 DEF FinishRecoveryFailure, failed, stage
  <2>2. Core(EscalateRecovery(failed, stage))
    BY <1>1, <1>2, EscalateCore
  <2>3. EscalateRecovery(failed, stage).dispatch = failed.dispatch
    BY <1>3, <1>5, EscalateFields
  <2>4. QED
    BY <1>1, <2>1, <2>2, <2>3
<1>8. QED
  BY <1>6, <1>7

\* The verdict of a diagnose or verify dispatch leaves a consistent document.
LEMMA RecordRecoveryResultCore ==
  ASSUME NEW s, Repairing(s), NEW outcome
  PROVE  /\ Core(RecordRecoveryResult(s, outcome))
         /\ RecordRecoveryResult(s, outcome).dispatch = s.dispatch
<1>1. CASE outcome # "pass"
  BY <1>1, FinishRecoveryFailureCore DEF RecordRecoveryResult
<1>2. CASE outcome = "pass" /\ s.recovery.active.phase = "diagnose"
  <2> DEFINE act == [s.recovery.active EXCEPT !.phase = "verify"]
             rec == [s.recovery EXCEPT !.active = act]
             r   == [s EXCEPT !.recovery = rec]
  <2>1. s \in Task
    BY DEF Repairing, Placed
  <2>2. act \in ActiveRecovery /\ act.phase = "verify"
        /\ act.failedStage = s.recovery.active.failedStage
        /\ act.ordinal = s.recovery.active.ordinal
    BY <2>1, RecoveryTyped DEF ActiveRecovery
  <2>3. RecordRecoveryResult(s, outcome) = r
    BY <1>2, <2>1, RecoveryTyped DEF RecordRecoveryResult, Task, Recovery
  <2> HIDE DEF act
  <2>4. rec \in Recovery /\ rec.active = act /\ rec.attempts = s.recovery.attempts
        /\ rec.incident = s.recovery.incident
    BY <2>1, <2>2, RecoveryTyped DEF Recovery
  <2> HIDE DEF rec
  <2>5. /\ r \in Task /\ r.recovery = rec /\ r.status = s.status
        /\ r.currentStage = s.currentStage /\ r.stages = s.stages
        /\ r.approved = s.approved /\ r.dispatch = s.dispatch
    BY <2>1, <2>4 DEF Task
  <2> HIDE DEF r
  <2>6. Anchored(r)
    BY <2>2, <2>4, <2>5 DEF Repairing, Anchored, LastAttempt
  <2>7. Placed(r) /\ r.status = "active"
    BY <2>5, PlacedTransfer DEF Repairing
  <2>8. QED
    BY <2>3, <2>5, <2>6, <2>7, PlacedIsCore
<1>3. CASE outcome = "pass" /\ s.recovery.active.phase # "diagnose"
  <2> DEFINE verified == SettleAttempt(s, "verified")
             stage    == ResumeAt(s)
             closed   == CloseRecoveryIncident(verified)
  <2>1. /\ Placed(verified) /\ verified.currentStage = s.currentStage
        /\ verified.dispatch = s.dispatch
    BY SettledIsPlaced
  <2>2. \/ stage = s.currentStage
        \/ s.currentStage \in REVIEW_STAGES /\ stage = "builder"
    BY DEF ResumeAt, Repairing, Anchored
  <2>3. stage \in Stage
    BY <2>2, StagesFacts DEF Repairing, Placed
  <2> HIDE DEF verified, stage
  <2>4. verified \in Task
    BY <2>1 DEF Placed
  <2>5. /\ closed \in Task /\ closed.currentStage = verified.currentStage
        /\ closed.stages = verified.stages /\ closed.approved = verified.approved
        /\ closed.dispatch = verified.dispatch /\ closed.recovery.active = NoRecovery
    BY <2>4, CloseIncidentFields
  <2> HIDE DEF closed
  <2>6. Placed(closed) /\ closed.recovery.active.phase = "none"
    BY <2>1, <2>5, PlacedTransfer DEF NoRecovery
  <2>7. CASE StageBudgetExceeded(s, stage)
    <3>1. RecordRecoveryResult(s, outcome) = EscalateRecovery(verified, stage)
      BY <1>3, <2>7 DEF RecordRecoveryResult, verified, stage
    <3>2. Core(EscalateRecovery(verified, stage))
      BY <2>1, <2>2, EscalateCore
    <3>3. EscalateRecovery(verified, stage).dispatch = s.dispatch
      BY <2>1, <2>3, <2>4, EscalateFields
    <3>4. QED
      BY <3>1, <3>2, <3>3
  <2>8. CASE ~StageBudgetExceeded(s, stage)
    <3>1. RecordRecoveryResult(s, outcome) = ReopenFrom(closed, stage)
      BY <1>3, <2>8 DEF RecordRecoveryResult, verified, stage, closed
    <3>2. Core(ReopenFrom(closed, stage))
      BY <2>1, <2>2, <2>5, <2>6, ReopenFromCore
    <3>3. ReopenFrom(closed, stage).dispatch = s.dispatch
      BY <2>1, <2>3, <2>5, ReopenFromFields
    <3>4. QED
      BY <3>1, <3>2, <3>3
  <2>9. QED
    BY <2>7, <2>8
<1>4. QED
  BY <1>1, <1>2, <1>3

-----------------------------------------------------------------------------
(* Stage verdicts                                                          *)

\* The document while a plain stage dispatch is being answered.
Working(s) ==
  /\ Placed(s)
  /\ s.status = "active"
  /\ s.recovery.active.phase = "none"

\* The stage table with the verdict of the current stage written in.
Recorded(s, outcome) ==
  [s EXCEPT !.stages[s.currentStage] =
     [status |-> outcome,
      commit |-> IF outcome = "pass" THEN VerifiedCommitFor(s, s.currentStage)
                 ELSE NoCommit]]

Verdict == {"pass", "fail", "decision-required"}

LEMMA RecordedFields ==
  ASSUME NEW s, Placed(s), NEW outcome \in Verdict
  PROVE  LET r == Recorded(s, outcome) IN
         /\ r \in Task
         /\ r.status = s.status /\ r.currentStage = s.currentStage
         /\ r.blocker = s.blocker /\ r.recovery = s.recovery
         /\ r.approved = s.approved /\ r.dispatch = s.dispatch
         /\ r.autoRetries = s.autoRetries
         /\ r.dispatches = s.dispatches /\ r.verifiedCommit = s.verifiedCommit
         /\ \A t \in Stage : t # s.currentStage => r.stages[t] = s.stages[t]
         /\ r.stages[s.currentStage].status = outcome
<1> DEFINE e == [status |-> outcome,
                 commit |-> IF outcome = "pass" THEN VerifiedCommitFor(s, s.currentStage)
                            ELSE NoCommit]
           st == [s.stages EXCEPT ![s.currentStage] = e]
<1>1. s \in Task /\ s.currentStage \in Stage
  BY DEF Placed
<1>2. s.verifiedCommit \in Commits \cup {NoCommit}
  BY <1>1 DEF Task
<1>3. e \in StageResult /\ e.status = outcome
  BY <1>2 DEF StageResult, VerifiedCommitFor, Verdict
<1>4. Recorded(s, outcome) = [s EXCEPT !.stages = st]
  BY <1>1 DEF Recorded, Task
<1> HIDE DEF e
<1>5. /\ st \in [Stage -> StageResult] /\ st[s.currentStage] = e
      /\ \A t \in Stage : t # s.currentStage => st[t] = s.stages[t]
  BY <1>1, <1>3 DEF Task
<1> HIDE DEF st
<1>6. QED
  BY <1>1, <1>3, <1>4, <1>5 DEF Task

LEMMA RecordedIsPlaced ==
  ASSUME NEW s, Placed(s), NEW outcome \in Verdict
  PROVE  Placed(Recorded(s, outcome))
<1> DEFINE r == Recorded(s, outcome)
<1>1. /\ r \in Task /\ r.currentStage = s.currentStage /\ r.approved = s.approved
      /\ \A t \in Stage : t # s.currentStage => r.stages[t] = s.stages[t]
  BY RecordedFields
<1> HIDE DEF r
<1>2. s.currentStage \in Stage /\ s.currentStage # NoStage
  BY StagesFacts DEF Placed
<1>3. InOrder(r)
  <2> SUFFICES ASSUME NEW t \in Stage
               PROVE  /\ Index(t) < Index(s.currentStage) => r.stages[t].status = "pass"
                      /\ Index(t) > Index(s.currentStage) => r.stages[t] = Pending
    BY <1>1, <1>2 DEF InOrder
  <2>1. CASE t = s.currentStage
    BY <2>1, IndexTyped
  <2>2. CASE t # s.currentStage
    BY <1>1, <1>2, <2>2 DEF Placed, InOrder
  <2>3. QED
    BY <2>1, <2>2
<1>4. HighRisk /\ ~r.approved => r.stages["builder"].status = "pending"
                                 /\ r.currentStage # "builder"
  BY <1>1, StagesFacts DEF Placed
<1>5. QED
  BY <1>1, <1>2, <1>3, <1>4 DEF Placed, r

\* No stage passes, and a task that is moved stands on a stage that has not.
Fades(s, r) == \A t \in Stage : r.stages[t].status = "pass" => s.stages[t].status = "pass"
Unpassed(s) == s.currentStage \in Stage => s.stages[s.currentStage].status # "pass"
Stands(s, r) ==
  /\ Fades(s, r)
  /\ r.currentStage \in Stage
  /\ r.currentStage = s.currentStage \/ Unpassed(r)

Asks(r) == r.status = "blocked" /\ r.blocker.outcome = "decision-required"

\* The current stage passed: the next one, or the end.
Advances(s, r) ==
  /\ r.recovery = s.recovery
  /\ r.autoRetries = 0
  /\ \A t \in Stage : t # s.currentStage => r.stages[t] = s.stages[t]
  /\ \/ r.status = "merge-ready"
     \/ /\ Index(s.currentStage) # Len(STAGES)
        /\ r.currentStage = STAGES[Index(s.currentStage) + 1]
        /\ r.status = "active" \/ (Asks(r) /\ r.currentStage = "builder")

LEMMA StandsTransitive ==
  ASSUME NEW s, NEW m, NEW r, Stands(s, m), Stands(m, r)
  PROVE  Stands(s, r)
BY DEF Stands, Fades, Unpassed

LEMMA StandsStill ==
  ASSUME NEW s, NEW r, s.currentStage \in Stage, r.currentStage = s.currentStage,
         r.stages = s.stages
  PROVE  Stands(s, r)
BY DEF Stands, Fades

LEMMA ReopenStands ==
  ASSUME NEW s, s \in Task, NEW stage \in Stage
  PROVE  Stands(s, ReopenFrom(s, stage))
<1> DEFINE r == ReopenFrom(s, stage)
<1>1. /\ r.currentStage = stage
      /\ r.stages = [t \in Stage |-> IF Index(t) >= Index(stage) THEN Pending
                                     ELSE s.stages[t]]
  BY ReopenFromFields
<1> HIDE DEF r
<1>2. r.stages[stage] = Pending
  BY <1>1, IndexTyped
<1>3. Fades(s, r) /\ Unpassed(r)
  BY <1>1, <1>2 DEF Fades, Unpassed, Pending
<1>4. QED
  BY <1>1, <1>3 DEF Stands, r

\* A rejection blocks the task where it stands.
LEMMA CompleteFailPlaced ==
  ASSUME NEW s, Working(s), NEW cause \in Cause
  PROVE  LET r == CompleteStage(s, s.currentStage, "fail", cause) IN
         /\ Placed(r) /\ r.recovery.active.phase = "none"
         /\ r.currentStage = s.currentStage
         /\ r.dispatch = s.dispatch
         /\ r.blocker = Blocker(s.currentStage, "fail", cause, FALSE)
         /\ r.recovery = s.recovery /\ r.dispatches = s.dispatches
         /\ r.verifiedCommit = s.verifiedCommit
         /\ r.autoRetries = s.autoRetries /\ Stands(s, r)
<1> DEFINE rec == Recorded(s, "fail")
           b == Blocker(s.currentStage, "fail", cause, FALSE)
           r == [rec EXCEPT !.status = "blocked", !.blocker = b]
<1>1. "fail" \in Verdict
  BY DEF Verdict
<1>2. /\ Placed(rec) /\ rec.currentStage = s.currentStage
      /\ rec.recovery = s.recovery /\ rec.dispatch = s.dispatch
      /\ rec.dispatches = s.dispatches /\ rec.verifiedCommit = s.verifiedCommit
      /\ rec.autoRetries = s.autoRetries
      /\ \A t \in Stage : t # s.currentStage => rec.stages[t] = s.stages[t]
      /\ rec.stages[s.currentStage].status = "fail"
  BY <1>1, RecordedFields, RecordedIsPlaced DEF Working
<1>3. b \in BlockerRecord
  BY DEF Working, Placed, Blocker, BlockerRecord
<1>4. CompleteStage(s, s.currentStage, "fail", cause) = r
  BY DEF CompleteStage, Recorded
<1> HIDE DEF rec, b
<1>5. rec \in Task
  BY <1>2 DEF Placed
<1>6. /\ r \in Task /\ r.currentStage = rec.currentStage /\ r.stages = rec.stages
      /\ r.approved = rec.approved /\ r.recovery = rec.recovery
      /\ r.dispatch = rec.dispatch /\ r.blocker = b
      /\ r.dispatches = rec.dispatches /\ r.verifiedCommit = rec.verifiedCommit
      /\ r.autoRetries = rec.autoRetries
  BY <1>3, <1>5 DEF Task
<1> HIDE DEF r
<1>7. Placed(r) /\ Stands(s, r)
  BY <1>2, <1>6, PlacedTransfer DEF Stands, Fades, Placed
<1>8. QED
  BY <1>2, <1>4, <1>6, <1>7 DEF b, Working

\* Any other verdict: decision-required blocks, a pass advances, and the last
\* pass finishes the task.  Advancing to the builder without the approval that
\* high risk needs blocks there.
LEMMA CompleteStageCore ==
  ASSUME NEW s, Working(s), NEW outcome \in {"pass", "decision-required"}
  PROVE  LET r == CompleteStage(s, s.currentStage, outcome, "other") IN
         /\ Core(r)
         /\ r.recovery = s.recovery /\ r.dispatch = s.dispatch
         /\ r.dispatches = s.dispatches /\ r.verifiedCommit = s.verifiedCommit
         /\ IF r.status = "blocked" THEN r.blocker.outcome = "decision-required"
            ELSE r.blocker = s.blocker
         /\ IF outcome = "pass" THEN Advances(s, r)
            ELSE r.autoRetries = s.autoRetries /\ Stands(s, r) /\ Asks(r)
         /\ s.currentStage = "builder" /\ r.status = "active" =>
              \A t \in Stage \cap PROVING_STAGES : r.stages[t].status = "pending"
<1> DEFINE rec == Recorded(s, outcome)
           passed == [rec EXCEPT !.autoRetries = 0]
           c == CompleteStage(s, s.currentStage, outcome, "other")
           next == STAGES[Index(s.currentStage) + 1]
<1>1. outcome \in Verdict
  BY DEF Verdict
<1>2. /\ Placed(rec) /\ rec.currentStage = s.currentStage /\ rec.status = "active"
      /\ rec.recovery = s.recovery /\ rec.dispatch = s.dispatch
      /\ rec.dispatches = s.dispatches /\ rec.verifiedCommit = s.verifiedCommit
      /\ rec.approved = s.approved /\ rec.blocker = s.blocker
      /\ rec.autoRetries = s.autoRetries
      /\ \A t \in Stage : t # s.currentStage => rec.stages[t] = s.stages[t]
      /\ rec.stages[s.currentStage].status = outcome
  BY <1>1, RecordedFields, RecordedIsPlaced DEF Working
<1>3. s.currentStage \in Stage /\ s.currentStage # NoStage
  BY StagesFacts DEF Working, Placed
<1>4. CASE outcome = "decision-required"
  <2> DEFINE b == Blocker(s.currentStage, outcome, "other", FALSE)
             r == [rec EXCEPT !.status = "blocked", !.blocker = b]
  <2>1. b \in BlockerRecord /\ b.stage = s.currentStage /\ b.outcome = "decision-required"
    BY <1>3, <1>4 DEF Blocker, BlockerRecord, Cause
  <2>2. c = r
    BY <1>4 DEF CompleteStage, Recorded
  <2> HIDE DEF rec, b
  <2>3. rec \in Task
    BY <1>2 DEF Placed
  <2>4. /\ r \in Task /\ r.status = "blocked" /\ r.currentStage = s.currentStage
        /\ r.stages = rec.stages /\ r.approved = rec.approved
        /\ r.recovery = s.recovery /\ r.dispatch = s.dispatch /\ r.blocker = b
        /\ r.dispatches = s.dispatches /\ r.verifiedCommit = s.verifiedCommit
        /\ r.autoRetries = s.autoRetries
    BY <1>2, <2>1, <2>3 DEF Task
  <2> HIDE DEF r
  <2>5. Placed(r)
    BY <1>2, <2>4, PlacedTransfer
  <2>6. Anchored(r) /\ Gated(r)
    BY <2>4, <2>5 DEF Anchored, Gated, Placed, Working
  <2>7. Core(r)
    BY <1>3, <2>1, <2>4, <2>5, <2>6 DEF Core, Waits, Parked, Placed
  <2>8. Stands(s, r) /\ Asks(r)
    BY <1>2, <1>3, <1>4, <2>1, <2>4 DEF Stands, Fades, Asks
  <2> HIDE DEF c
  <2>9. QED
    BY <1>4, <2>1, <2>2, <2>4, <2>7, <2>8 DEF c
<1>5. CASE outcome = "pass"
  <2>1. rec \in Task
    BY <1>2 DEF Placed
  <2>2. /\ passed \in Task /\ passed.currentStage = s.currentStage
        /\ passed.status = "active" /\ passed.stages = rec.stages
        /\ passed.approved = s.approved
        /\ passed.recovery = s.recovery /\ passed.dispatch = s.dispatch
        /\ passed.dispatches = s.dispatches /\ passed.verifiedCommit = s.verifiedCommit
        /\ passed.blocker = s.blocker /\ passed.autoRetries = 0
    <3> HIDE DEF rec
    <3>1. QED
      BY <1>2, <2>1 DEF Task
  <2>3. \A t \in Stage : /\ Index(t) <= Index(s.currentStage) => passed.stages[t].status = "pass"
                         /\ Index(t) > Index(s.currentStage) => passed.stages[t] = Pending
    <3> SUFFICES ASSUME NEW t \in Stage
                 PROVE  /\ Index(t) <= Index(s.currentStage) => passed.stages[t].status = "pass"
                        /\ Index(t) > Index(s.currentStage) => passed.stages[t] = Pending
      OBVIOUS
    <3> HIDE DEF passed, rec
    <3>1. CASE t = s.currentStage
      BY <1>2, <1>5, <2>2, <3>1, IndexTyped
    <3>2. CASE t # s.currentStage
      <4>1. Index(t) # Index(s.currentStage)
        BY <1>3, <3>2, IndexInjective
      <4>2. Index(t) \in Int /\ Index(s.currentStage) \in Int
        BY <1>3, IndexTyped
      <4>3. QED
        BY <1>2, <1>3, <2>2, <3>2, <4>1, <4>2 DEF Placed, InOrder
    <3>3. QED
      BY <3>1, <3>2
  <2>4. CASE Index(s.currentStage) = Len(STAGES)
    <3> DEFINE r == [passed EXCEPT !.status = "merge-ready", !.currentStage = NoStage]
    <3>1. c = r
      BY <1>5, <2>4 DEF CompleteStage, Recorded
    <3> HIDE DEF passed
    <3>2. /\ r \in Task /\ r.status = "merge-ready" /\ r.currentStage = NoStage
          /\ r.stages = passed.stages /\ r.approved = s.approved
          /\ r.recovery = s.recovery /\ r.dispatch = s.dispatch
          /\ r.dispatches = s.dispatches /\ r.verifiedCommit = s.verifiedCommit
          /\ r.blocker = s.blocker /\ r.autoRetries = 0
      BY <2>2 DEF Task
    <3> HIDE DEF r
    <3>3. InOrder(r)
      BY <2>3, <2>4, <3>2, IndexTyped DEF InOrder
    <3>4. Gated(r) /\ Anchored(r)
      <4>1. r.stages["builder"].status = "pass"
        BY <3>2, <3>3, StagesFacts DEF InOrder
      <4>2. s.stages["builder"].status = "pass" \/ s.currentStage = "builder"
        BY <1>2, <2>2, <3>2, <4>1, StagesFacts
      <4>3. ~HighRisk \/ s.approved
        BY <4>2 DEF Working, Placed, Task
      <4>4. QED
        BY <3>2, <4>3 DEF Gated, Anchored, Working
    <3>5. Core(r)
      BY <3>2, <3>3, <3>4 DEF Core, Waits, Parked, NoStage
    <3>6. Advances(s, r)
      <4> HIDE DEF rec
      <4>1. QED
        BY <1>2, <2>2, <3>2 DEF Advances
    <3> HIDE DEF c
    <3>7. QED
      BY <1>5, <3>1, <3>2, <3>5, <3>6 DEF c
  <2>5. CASE Index(s.currentStage) # Len(STAGES)
    <3>1. next \in Stage /\ Index(next) = Index(s.currentStage) + 1
      BY <1>3, <2>5, Successor
    <3>2. Index(s.currentStage) \in Int
      BY <1>3, IndexTyped
    <3>3. next # NoStage
      BY <3>1, StagesFacts
    <3> DEFINE b == Blocker("builder", "decision-required", "other", FALSE)
               r1 == [passed EXCEPT !.currentStage = next, !.status = "blocked", !.blocker = b]
               r2 == [passed EXCEPT !.currentStage = next]
    <3>4. c = IF next = "builder" /\ ~Authorized(s) THEN r1 ELSE r2
      BY <1>5, <2>5 DEF CompleteStage, Recorded
    <3>5. b \in BlockerRecord /\ b.stage = "builder" /\ b.outcome = "decision-required"
      BY StagesFacts DEF Blocker, BlockerRecord, Cause
    <3> HIDE DEF passed, next, b
    <3>6. /\ r1 \in Task /\ r1.status = "blocked" /\ r1.blocker = b
          /\ r1.currentStage = next
          /\ r1.stages = passed.stages /\ r1.approved = s.approved
          /\ r1.recovery = s.recovery /\ r1.dispatch = s.dispatch
          /\ r1.dispatches = s.dispatches /\ r1.verifiedCommit = s.verifiedCommit
          /\ r1.autoRetries = 0
      BY <2>2, <3>1, <3>5 DEF Task
    <3>7. /\ r2 \in Task /\ r2.status = "active"
          /\ r2.currentStage = next
          /\ r2.stages = passed.stages /\ r2.approved = s.approved
          /\ r2.recovery = s.recovery /\ r2.dispatch = s.dispatch
          /\ r2.dispatches = s.dispatches /\ r2.verifiedCommit = s.verifiedCommit
          /\ r2.blocker = s.blocker /\ r2.autoRetries = 0
      BY <2>2, <3>1 DEF Task
    <3> HIDE DEF r1, r2, c, rec
    <3>8. \A t \in Stage : /\ Index(t) < Index(next) => passed.stages[t].status = "pass"
                           /\ Index(t) > Index(next) => passed.stages[t] = Pending
      BY <2>3, <3>1, <3>2, IndexTyped
    <3>9. HighRisk /\ ~s.approved => passed.stages["builder"].status = "pending"
      BY <1>2, <2>2, StagesFacts DEF Working, Placed
    <3>10. CASE next = "builder" /\ ~Authorized(s)
      <4>1. InOrder(r1)
        BY <3>3, <3>6, <3>8 DEF InOrder
      <4>2. Gated(r1) /\ Anchored(r1)
        BY <3>6, <3>9 DEF Gated, Anchored, Working
      <4>3. Core(r1)
        BY <3>3, <3>5, <3>6, <3>10, <4>1, <4>2 DEF Core, Waits, Parked
      <4>4. Advances(s, r1)
        BY <1>2, <2>2, <2>5, <3>5, <3>6, <3>10 DEF Advances, Asks, next
      <4>5. QED
        BY <1>5, <3>4, <3>5, <3>6, <3>10, <4>3, <4>4 DEF c
    <3>11. CASE ~(next = "builder" /\ ~Authorized(s))
      <4>1. InOrder(r2)
        BY <3>3, <3>7, <3>8 DEF InOrder
      <4>2. Gated(r2) /\ Anchored(r2)
        BY <3>7, <3>9, <3>11 DEF Gated, Anchored, Working, Authorized
      <4>3. Core(r2)
        BY <3>3, <3>7, <4>1, <4>2 DEF Core, Waits, Parked
      <4>4. ASSUME s.currentStage = "builder", NEW t \in Stage \cap PROVING_STAGES
            PROVE  r2.stages[t].status = "pending"
        <5>1. t \in Stage \cap REVIEW_STAGES
          BY DEF PROVING_STAGES, REVIEW_STAGES
        <5>2. Index(t) > Index(s.currentStage)
          BY <3>2, <4>4, <5>1, BuilderBeforeReview, IndexTyped
        <5>3. passed.stages[t] = Pending
          BY <2>3, <5>1, <5>2
        <5>4. QED
          BY <3>7, <5>3 DEF Pending
      <4>5. Advances(s, r2)
        BY <1>2, <2>2, <2>5, <3>7 DEF Advances, next
      <4>6. QED
        BY <1>5, <3>4, <3>7, <3>11, <4>3, <4>4, <4>5 DEF c
    <3>12. QED
      BY <3>10, <3>11
  <2>6. QED
    BY <2>4, <2>5
<1>6. QED
  BY <1>4, <1>5

\* Freezing the reviewed tree re-opens nothing: the stages that could hold an
\* older verdict come after the builder, and are pending when it passes.
LEMMA FreezeKeepsCore ==
  ASSUME NEW s, Core(s), NEW sha \in Commits,
         \A t \in Stage \cap PROVING_STAGES : s.stages[t].status = "pending"
  PROVE  LET r == RecordVerifiedCommit(s, sha) IN
         /\ Core(r)
         /\ r.recovery = s.recovery /\ r.dispatch = s.dispatch
         /\ r.status = s.status /\ r.blocker = s.blocker
         /\ r.dispatches = s.dispatches /\ r.verifiedCommit = sha
         /\ r.currentStage = s.currentStage /\ r.stages = s.stages
         /\ r.autoRetries = s.autoRetries
<1> DEFINE r == [s EXCEPT !.verifiedCommit = sha]
<1>1. {t \in Stage \cap PROVING_STAGES : s.stages[t].status # "pending"} = {}
  OBVIOUS
<1>2. RecordVerifiedCommit(s, sha) = r
  BY <1>1 DEF RecordVerifiedCommit
<1>3. s \in Task
  BY DEF Core
<1>4. /\ r \in Task /\ r.status = s.status /\ r.currentStage = s.currentStage
      /\ r.stages = s.stages /\ r.blocker = s.blocker /\ r.approved = s.approved
      /\ r.recovery = s.recovery /\ r.dispatch = s.dispatch
      /\ r.dispatches = s.dispatches /\ r.verifiedCommit = sha
      /\ r.autoRetries = s.autoRetries
  BY <1>3 DEF Task
<1> HIDE DEF r
<1>5. Core(r)
  BY <1>4 DEF Core, Waits, Parked, Anchored, LastAttempt, InOrder, Gated
<1>6. QED
  BY <1>2, <1>4, <1>5

\* After a rejection, the workflow's own loop or a recovery incident takes over.
LEMMA RouteOrRecoverCore ==
  ASSUME NEW s, Placed(s), s.recovery.active.phase = "none", NEW source,
         NEW target, \/ target = s.currentStage
                     \/ s.currentStage \in REVIEW_STAGES /\ target = "builder"
  PROVE  LET r == RouteOrRecover(s, s.currentStage, target, source) IN
         Core(r) /\ r.dispatch = s.dispatch
<1>1. s \in Task /\ target \in Stage
  BY StagesFacts DEF Placed
<1>2. s.blocker.cause \in Cause
  BY <1>1 DEF Task, BlockerRecord
<1>3. CASE s.currentStage \in REVIEW_STAGES /\ ~StageBudgetExceeded(s, s.currentStage)
  <2>1. RouteOrRecover(s, s.currentStage, target, source) = ReopenFrom(s, target)
    BY <1>3 DEF RouteOrRecover
  <2>2. Core(ReopenFrom(s, target))
    BY ReopenFromCore
  <2>3. ReopenFrom(s, target).dispatch = s.dispatch
    BY <1>1, ReopenFromFields
  <2>4. QED
    BY <2>1, <2>2, <2>3
<1>4. CASE ~(s.currentStage \in REVIEW_STAGES /\ ~StageBudgetExceeded(s, s.currentStage))
  <2>1. RouteOrRecover(s, s.currentStage, target, source) =
          StartRecovery(s, s.currentStage, s.blocker.cause, source)
    BY <1>4 DEF RouteOrRecover
  <2>2. QED
    BY <1>2, <2>1, StartRecoveryCore, ZenonT(40)
<1>5. QED
  BY <1>3, <1>4

LEMMA ClosedIsPlaced ==
  ASSUME NEW s, Placed(s), s.dispatch.stage \in Stage, NEW end \in End
  PROVE  LET r == CloseDispatch(s, end) IN
         /\ Placed(r) /\ r.recovery = s.recovery
         /\ r.currentStage = s.currentStage /\ r.blocker = s.blocker
         /\ r.dispatch = NoDispatch /\ r.verifiedCommit = s.verifiedCommit
         /\ r.autoRetries = s.autoRetries /\ r.stages = s.stages
         /\ r.dispatches = Append(s.dispatches, [id |-> s.dispatch.id,
                                                 stage |-> s.dispatch.stage, end |-> end])
<1> DEFINE r == CloseDispatch(s, end)
<1>1. /\ r \in Task /\ r.currentStage = s.currentStage /\ r.stages = s.stages
      /\ r.approved = s.approved /\ r.recovery = s.recovery /\ r.blocker = s.blocker
      /\ r.dispatch = NoDispatch /\ r.verifiedCommit = s.verifiedCommit
      /\ r.autoRetries = s.autoRetries
  BY CloseDispatchFields DEF Placed
<1>2. r.dispatches = Append(s.dispatches, [id |-> s.dispatch.id,
                                           stage |-> s.dispatch.stage, end |-> end])
  BY CloseDispatchFields DEF Placed
<1> HIDE DEF r
<1>3. Placed(r)
  BY <1>1, PlacedTransfer
<1>4. QED
  BY <1>1, <1>2, <1>3 DEF r

\* Blocking a placed task on its current stage, with a blocker that has an owner.
LEMMA BlockHereCore ==
  ASSUME NEW s, Placed(s), Anchored(s), NEW b \in BlockerRecord, b.stage = s.currentStage,
         b.outcome \in {"decision-required", "paused-credits"} \/ b.founderAction
  PROVE  Core([s EXCEPT !.status = "blocked", !.blocker = b])
<1> DEFINE r == [s EXCEPT !.status = "blocked", !.blocker = b]
<1>1. s \in Task /\ s.currentStage # NoStage
  BY StagesFacts DEF Placed
<1>2. /\ r \in Task /\ r.status = "blocked" /\ r.currentStage = s.currentStage
      /\ r.stages = s.stages /\ r.approved = s.approved /\ r.recovery = s.recovery
      /\ r.blocker = b
  BY <1>1 DEF Task
<1> HIDE DEF r
<1>3. Anchored(r) /\ InOrder(r) /\ Gated(r)
  BY <1>2 DEF Anchored, LastAttempt, InOrder, Gated, Placed
<1>4. Core(r)
  BY <1>1, <1>2, <1>3 DEF Core, Waits, Parked
<1>5. QED
  BY <1>4 DEF r

LEMMA SeatPauseCore ==
  ASSUME NEW s, Placed(s), Anchored(s), s.dispatch.stage = s.currentStage
  PROVE  Core(RecordSeatPause(s)) /\ RecordSeatPause(s).dispatch = NoDispatch
<1> DEFINE closed == CloseDispatch(s, "seat")
           b == IF ConsecutiveSeatPauses(closed.dispatches) >= MaxSeatPauses
                THEN Blocker(s.dispatch.stage, "decision-required", "infra", TRUE)
                ELSE Blocker(s.dispatch.stage, "paused-credits", "infra", FALSE)
           r == [closed EXCEPT !.status = "blocked", !.blocker = b]
<1>1. /\ Placed(closed) /\ closed.recovery = s.recovery
      /\ closed.currentStage = s.currentStage /\ closed.dispatch = NoDispatch
  BY ClosedIsPlaced DEF Placed, End
<1>2. RecordSeatPause(s) = r
  BY DEF RecordSeatPause
<1> HIDE DEF closed
<1>3. b \in BlockerRecord /\ b.stage = s.currentStage
      /\ b.outcome \in {"decision-required", "paused-credits"}
  <2>1. s.currentStage \in Stage
    BY DEF Placed
  <2>2. QED
    BY <2>1 DEF Blocker, BlockerRecord, Cause
<1> HIDE DEF b
<1>4. Anchored(closed)
  BY <1>1 DEF Anchored, LastAttempt
<1>5. Core(r)
  BY <1>1, <1>3, <1>4, BlockHereCore
<1>6. r.dispatch = NoDispatch
  BY <1>1 DEF Placed, Task
<1>7. QED
  BY <1>2, <1>5, <1>6

\* A blocked task that may be resumed stands on no unauthorized builder.
LEMMA ResumableIsPlaced ==
  ASSUME NEW s, Core(s), CanResume(s)
  PROVE  Placed(s) /\ Anchored(s) /\ s.currentStage # NoStage
BY DEF Core, CanResume, Placed, Gated, Authorized, Task

\* Clearing the current stage keeps a placed document placed.
LEMMA ClearedStage ==
  ASSUME NEW s, Placed(s)
  PROVE  LET st == [s.stages EXCEPT ![s.currentStage] = Pending] IN
         /\ st \in [Stage -> StageResult]
         /\ \A t \in Stage : st[t] = IF t = s.currentStage THEN Pending ELSE s.stages[t]
BY NoneTyped DEF Placed, Task

LEMMA ClearedIsPlaced ==
  ASSUME NEW s, Placed(s), NEW r, r \in Task, r.currentStage = s.currentStage,
         r.approved = s.approved,
         \A t \in Stage : r.stages[t] = IF t = s.currentStage THEN Pending ELSE s.stages[t]
  PROVE  Placed(r)
<1>1. s.currentStage \in Stage /\ s.currentStage # NoStage
  BY StagesFacts DEF Placed
<1>2. InOrder(r)
  <2> SUFFICES ASSUME NEW t \in Stage
               PROVE  /\ Index(t) < Index(s.currentStage) => r.stages[t].status = "pass"
                      /\ Index(t) > Index(s.currentStage) => r.stages[t] = Pending
    BY <1>1 DEF InOrder
  <2>1. CASE t = s.currentStage
    BY <2>1, IndexTyped
  <2>2. CASE t # s.currentStage
    BY <1>1, <2>2 DEF Placed, InOrder
  <2>3. QED
    BY <2>1, <2>2
<1>3. QED
  BY <1>1, <1>2, StagesFacts DEF Placed, Pending

\* Resuming a blocked task re-opens its current stage; a seat pause keeps its
\* recovery attempt, anything else closes the incident.
LEMMA ResumeFields ==
  ASSUME NEW s, Core(s), CanResume(s)
  PROVE  LET r == ResumeState(s) IN
         /\ Placed(r) /\ Anchored(r)
         /\ r.status = "active" /\ r.dispatch = s.dispatch
         /\ r.blocker = NoBlocker
         /\ r.dispatches = s.dispatches /\ r.verifiedCommit = s.verifiedCommit
         /\ r.autoRetries = s.autoRetries
         /\ r.currentStage = s.currentStage
         /\ \A t \in Stage :
              r.stages[t] = IF t = s.currentStage THEN Pending ELSE s.stages[t]
         /\ IF s.blocker.outcome = "paused-credits" THEN r.recovery = s.recovery
            ELSE /\ r.recovery.active = NoRecovery
                 /\ r.recovery.attempts = s.recovery.attempts
                 /\ r.recovery.incident \in {s.recovery.incident, s.recovery.incident + 1}
<1> DEFINE kept == IF s.blocker.outcome = "paused-credits" THEN s ELSE CloseRecoveryIncident(s)
           st == [kept.stages EXCEPT ![s.currentStage] = Pending]
           r  == [kept EXCEPT !.status = "active", !.blocker = NoBlocker, !.stages = st]
<1>1. Placed(s) /\ Anchored(s) /\ s \in Task
  BY ResumableIsPlaced DEF Placed
<1>2. /\ kept \in Task /\ kept.currentStage = s.currentStage
      /\ kept.stages = s.stages /\ kept.approved = s.approved
      /\ kept.dispatch = s.dispatch
      /\ kept.dispatches = s.dispatches /\ kept.verifiedCommit = s.verifiedCommit
      /\ kept.autoRetries = s.autoRetries
  BY <1>1, CloseIncidentFields
<1>3. IF s.blocker.outcome = "paused-credits" THEN kept.recovery = s.recovery
      ELSE /\ kept.recovery.active = NoRecovery
           /\ kept.recovery.attempts = s.recovery.attempts
           /\ kept.recovery.incident \in {s.recovery.incident, s.recovery.incident + 1}
  BY <1>1, CloseIncidentFields
<1>4. ResumeState(s) = [kept EXCEPT !.status = "active", !.blocker = NoBlocker,
                                    !.stages[s.currentStage] = Pending]
  BY DEF ResumeState
<1> HIDE DEF kept
<1>5. ResumeState(s) = r
  BY <1>2, <1>4 DEF Task
<1>6. /\ st \in [Stage -> StageResult]
      /\ \A t \in Stage : st[t] = IF t = s.currentStage THEN Pending ELSE s.stages[t]
  BY <1>1, <1>2, ClearedStage
<1> HIDE DEF st
<1>7. /\ r \in Task /\ r.currentStage = kept.currentStage /\ r.stages = st
      /\ r.approved = kept.approved /\ r.recovery = kept.recovery
      /\ r.dispatch = kept.dispatch /\ r.status = "active" /\ r.blocker = NoBlocker
      /\ r.dispatches = kept.dispatches /\ r.verifiedCommit = kept.verifiedCommit
      /\ r.autoRetries = kept.autoRetries
  BY <1>2, <1>6, NoneTyped DEF Task
<1> HIDE DEF r
<1>8. Placed(r)
  BY <1>1, <1>2, <1>6, <1>7, ClearedIsPlaced
<1>9. Anchored(r)
  BY <1>1, <1>2, <1>3, <1>7 DEF Anchored, LastAttempt, NoRecovery
<1>10. QED
  BY <1>2, <1>3, <1>5, <1>6, <1>7, <1>8, <1>9

-----------------------------------------------------------------------------
(* Dispatch identity                                                       *)

LEMMA CountTyped ==
  ASSUME NEW s, s \in Task, NEW stage, NEW ends
  PROVE  Cardinality(StageDispatches(s, stage, ends)) \in Nat
<1>1. StageDispatches(s, stage, ends) \subseteq 1 .. Len(s.dispatches)
  BY DEF StageDispatches, Task
<1>2. Len(s.dispatches) \in Nat
  BY DEF Task
<1>3. IsFiniteSet(1 .. Len(s.dispatches))
  BY <1>2, FS_Interval
<1>4. QED
  BY <1>1, <1>3, FS_Subset, FS_CardinalityType

\* A non-empty set of naturals has a least element.
LEMMA LeastNatural ==
  ASSUME NEW S, S \subseteq Nat, S # {}
  PROVE  \E m \in S : \A k \in S : m <= k
<1>1. PICK m \in S : \A k \in S : <<k, m>> \notin OpToRel(<, Nat)
  BY WFMin, NatLessThanWellFounded, Zenon
<1>2. \A k \in S : ~(k < m)
  BY <1>1, Zenon DEF OpToRel
<1>3. QED
  BY <1>2

\* Among the first Len(dispatches) + 1 suffixes one was never used: the record
\* has one dispatch too few to have used them all.
LEMMA SuffixExists ==
  ASSUME NEW s, s \in Task, NEW Re,
         Re \in [1 .. Len(s.dispatches) + 1 -> Id],
         \A m, n \in 1 .. Len(s.dispatches) + 1 : Re[m] = Re[n] => m = n
  PROVE  \E n \in 1 .. Len(s.dispatches) + 1 : UsesOf(s, Re[n]) = {}
<1> DEFINE L == Len(s.dispatches)
           D == 1 .. L
           N == 1 .. L + 1
<1>1. L \in Nat /\ DOMAIN s.dispatches = D
  BY DEF Task
<1>2. SUFFICES ASSUME \A n \in N : UsesOf(s, Re[n]) # {}
               PROVE  FALSE
  OBVIOUS
<1> DEFINE f == [n \in N |-> CHOOSE i \in D : s.dispatches[i].id = Re[n]]
<1>3. \A n \in N : f[n] \in D /\ s.dispatches[f[n]].id = Re[n]
  <2> TAKE n \in N
  <2>1. \E i \in D : s.dispatches[i].id = Re[n]
    BY <1>1, <1>2 DEF UsesOf
  <2>2. QED
    BY <2>1
<1>4. f \in [N -> D]
  BY <1>3
<1>5. /\ IsFiniteSet(D) /\ Cardinality(D) = L
      /\ IsFiniteSet(N) /\ Cardinality(N) = L + 1
  BY <1>1, FS_Interval
<1>6. Cardinality(D) < Cardinality(N)
  BY <1>1, <1>5
<1> HIDE DEF f
<1>7. \E x, y \in N : x # y /\ f[x] = f[y]
  <2> HIDE DEF D, N
  <2>1. QED
    BY <1>4, <1>5, <1>6, FS_PigeonHole
<1>8. PICK x \in N, y \in N : x # y /\ f[x] = f[y]
  BY <1>7
<1>9. Re[x] = Re[y]
  BY <1>3, <1>8
<1>10. QED
  BY <1>8, <1>9

\* The id of the next dispatch is well-formed and names the phase of the work; that of
\* a recovery is on the record only with an answer.
LEMMA DispatchIdTyped ==
  ASSUME NEW s, s \in Task, s.currentStage \in Stage
  PROVE  /\ DispatchId(s) \in Id
         /\ DispatchId(s).phase = IF s.recovery.active.phase = "none" THEN "stage"
                                  ELSE s.recovery.active.phase
         /\ s.recovery.active.phase # "none" =>
              UsesOf(s, DispatchId(s)) = {} \/ ~Interrupted(s, DispatchId(s))
<1>1. CASE s.recovery.active.phase = "none"
  <2> DEFINE n == Cardinality(StageDispatches(s, s.currentStage, End)) + 1
  <2>1. n \in Nat
    BY CountTyped
  <2>2. DispatchId(s) = [phase |-> "stage", stage |-> s.currentStage, n |-> n, re |-> 1]
    BY <1>1 DEF DispatchId
  <2> HIDE DEF n
  <2>3. QED
    BY <1>1, <2>1, <2>2 DEF Id
<1>2. CASE s.recovery.active.phase # "none"
  <2> DEFINE a == s.recovery.active
             Re(n) == [phase |-> a.phase, stage |-> NoStage, n |-> a.ordinal, re |-> n]
             Free(n) == UsesOf(s, Re(n)) = {} \/ ~Interrupted(s, Re(n))
             N == 1 .. Len(s.dispatches) + 1
             First(n) == Free(n) /\ \A m \in 1 .. n - 1 : ~Free(m)
             ReF == [n \in N |-> Re(n)]
             S == {n \in N : Free(n)}
  <2>1. Len(s.dispatches) \in Nat
    BY DEF Task
  <2>2. a.phase \in {"diagnose", "verify"} /\ a.ordinal \in Nat
    BY <1>2, RecoveryTyped DEF ActiveRecovery
  <2>3. \A n \in N : Re(n) \in Id
    BY <2>1, <2>2 DEF Id
  <2>4. \A m, n \in N : ReF[m] = ReF[n] => m = n
    OBVIOUS
  <2>5. ReF \in [N -> Id]
    BY <2>3
  <2>6. \E n \in N : UsesOf(s, ReF[n]) = {}
    <3> HIDE DEF ReF
    <3>1. QED
      BY <2>4, <2>5, SuffixExists
  <2>7. S # {}
    BY <2>6
  <2>8. S \subseteq Nat
    BY <2>1
  <2>9. PICK k \in S : \A j \in S : k <= j
    <3> HIDE DEF S
    <3>1. QED
      BY <2>7, <2>8, LeastNatural
  <2>10. k \in N /\ First(k)
    <3> HIDE DEF Free
    <3>1. QED
      BY <2>1, <2>9
  <2>11. DispatchId(s) = Re(CHOOSE n \in N : First(n))
    BY <1>2 DEF DispatchId
  <2>12. (CHOOSE n \in N : First(n)) \in N /\ First(CHOOSE n \in N : First(n))
    <3> HIDE DEF First
    <3>1. QED
      BY <2>10
  <2>13. QED
    <3> DEFINE c == CHOOSE n \in N : First(n)
    <3> HIDE DEF c
    <3>1. c \in N /\ DispatchId(s) = Re(c) /\ Free(c)
      BY <2>11, <2>12 DEF c
    <3>2. QED
      BY <1>2, <2>3, <3>1
<1>3. QED
  BY <1>1, <1>2

-----------------------------------------------------------------------------
(* The inductive invariant                                                 *)

IInv ==
  /\ Core(task)
  /\ Owned(task)
  /\ head \in Commits
  /\ built \in Commits \cup {NoCommit}

THEOREM InitEstablishes == Init => IInv
<1> SUFFICES ASSUME Init PROVE IInv
  OBVIOUS
<1> DEFINE st == [t \in Stage |-> Pending]
           rec == [incident |-> 1, attempts |-> <<>>, active |-> NoRecovery]
           ds == <<>>
<1>1. st \in [Stage -> StageResult]
  BY NoneTyped
<1>2. rec \in Recovery /\ rec.active.phase = "none"
  BY NoneTyped DEF Recovery, NoRecovery
<1>3. STAGES[1] \in Stage /\ STAGES[1] # "builder" /\ Index(STAGES[1]) = 1
  BY StagesFacts, StagesAssumption, IndexOfEntry
<1>4. 0 \in Commits /\ NoCommit \in Commits \cup {NoCommit}
  BY BudgetAssumption DEF Commits
<1>5. ds \in Seq(DispatchRecord)
  OBVIOUS
<1>6. task = [status |-> "active", currentStage |-> STAGES[1], stages |-> st,
              blocker |-> NoBlocker, dispatch |-> NoDispatch, dispatches |-> ds,
              recovery |-> rec, verifiedCommit |-> NoCommit, approved |-> FALSE,
              autoRetries |-> 0]
  BY DEF Init
<1> HIDE DEF st, rec, ds
<1>7. /\ task \in Task /\ task.status = "active" /\ task.currentStage = STAGES[1]
      /\ task.stages = st /\ task.recovery = rec /\ task.dispatch = NoDispatch
      /\ task.approved = FALSE
  BY <1>1, <1>2, <1>3, <1>4, <1>5, <1>6, NoneTyped DEF Task
<1>8. InOrder(task)
  BY <1>3, <1>7, IndexTyped, StagesFacts DEF InOrder, st
<1>9. Placed(task)
  BY <1>3, <1>7, <1>8, StagesFacts DEF Placed, st, Pending
<1>10. Anchored(task)
  BY <1>2, <1>7 DEF Anchored
<1>11. Core(task)
  BY <1>7, <1>9, <1>10, PlacedIsCore
<1>12. Owned(task)
  BY <1>7 DEF Owned, NoDispatch
<1>13. QED
  BY <1>4, <1>11, <1>12 DEF IInv, Init

\* What Outstanding means under the invariant.
LEMMA OutstandingFacts ==
  ASSUME IInv, Outstanding
  PROVE  /\ task \in Task /\ task.status = "active" /\ Core(task)
         /\ Placed(task) /\ Anchored(task)
         /\ task.dispatch.stage = task.currentStage
         /\ task.currentStage \in Stage
         /\ task.dispatch.id.phase = "stage" => Working(task)
         /\ task.dispatch.id.phase # "stage" => Repairing(task)
<1>1. /\ task \in Task /\ task.status = "active" /\ Anchored(task)
      /\ task.dispatch.stage = task.currentStage
      /\ task.dispatch.id.phase = IF task.recovery.active.phase = "none" THEN "stage"
                                  ELSE task.recovery.active.phase
  BY DEF IInv, Core, Owned, Outstanding
<1>2. Placed(task) /\ task.currentStage \in Stage
  BY <1>1, ActiveIsPlaced DEF IInv, Placed
<1>3. task.recovery.active.phase \in {"none", "diagnose", "verify"}
  BY <1>1, RecoveryTyped DEF ActiveRecovery
<1>4. QED
  BY <1>1, <1>2, <1>3 DEF IInv, Working, Repairing

\* A document without a dispatch is owned trivially.
LEMMA Unowned ==
  ASSUME NEW s, s.dispatch = NoDispatch
  PROVE  Owned(s)
BY DEF Owned, NoDispatch

LEMMA PrepareStep ==
  ASSUME IInv, PrepareDispatch
  PROVE  Core(task') /\ Owned(task')
<1> DEFINE d == [id |-> DispatchId(task), stage |-> DispatchStage(task), status |-> "ready"]
<1>1. Core(task) /\ task.status = "active" /\ Placed(task)
  BY ActiveIsPlaced DEF IInv, PrepareDispatch
<1>2. task \in Task /\ task.currentStage \in Stage
  BY <1>1 DEF Placed
<1>3. DispatchStage(task) = task.currentStage
  BY <1>1 DEF DispatchStage, Core, Anchored
<1>4. d \in Dispatch
  BY <1>2, <1>3, DispatchIdTyped DEF Dispatch
<1>5. /\ d.id.phase = IF task.recovery.active.phase = "none" THEN "stage"
                      ELSE task.recovery.active.phase
      /\ d.stage = task.currentStage /\ d.status = "ready"
  BY <1>2, <1>3, DispatchIdTyped
<1>6. task' = [task EXCEPT !.dispatch = d]
  BY DEF PrepareDispatch
<1> HIDE DEF d
<1>7. /\ task' \in Task /\ task'.status = task.status
      /\ task'.currentStage = task.currentStage
      /\ task'.stages = task.stages /\ task'.blocker = task.blocker
      /\ task'.recovery = task.recovery /\ task'.approved = task.approved
      /\ task'.dispatch = d
  BY <1>2, <1>4, <1>6 DEF Task
<1>8. Core(task')
  BY <1>1, <1>7 DEF Core, Waits, Parked, Anchored, LastAttempt, InOrder, Gated
<1>9. Owned(task')
  BY <1>1, <1>5, <1>7 DEF Owned
<1>10. QED
  BY <1>8, <1>9

LEMMA RunningStep ==
  ASSUME IInv, MarkDispatchRunning
  PROVE  Core(task') /\ Owned(task')
<1> DEFINE d == [task.dispatch EXCEPT !.status = "running"]
<1>1. task \in Task /\ task.dispatch.status = "ready"
  BY DEF IInv, Core, MarkDispatchRunning
<1>2. task.dispatch \in Dispatch
  BY <1>1 DEF Task
<1>3. d \in Dispatch /\ d.id = task.dispatch.id /\ d.stage = task.dispatch.stage
      /\ d.status = "running"
  BY <1>2 DEF Dispatch
<1>4. task' = [task EXCEPT !.dispatch = d]
  BY <1>1 DEF MarkDispatchRunning, Task
<1> HIDE DEF d
<1>5. /\ task' \in Task /\ task'.status = task.status
      /\ task'.currentStage = task.currentStage
      /\ task'.stages = task.stages /\ task'.blocker = task.blocker
      /\ task'.recovery = task.recovery /\ task'.approved = task.approved
      /\ task'.dispatch = d
  BY <1>1, <1>3, <1>4 DEF Task
<1>6. Core(task')
  BY <1>5 DEF IInv, Core, Waits, Parked, Anchored, LastAttempt, InOrder, Gated
<1>7. Owned(task')
  BY <1>1, <1>3, <1>5 DEF IInv, Owned
<1>8. QED
  BY <1>6, <1>7

\* A rejection: complete the stage with it, close the dispatch, route or repair.
LEMMA RejectCore ==
  ASSUME NEW s, Working(s), s.dispatch.stage = s.currentStage, NEW cause \in Cause,
         NEW end \in End, NEW source
  PROVE  LET f == CloseDispatch(CompleteStage(s, s.currentStage, "fail", cause), end)
             r == RouteOrRecover(f, s.currentStage, FailureTarget(f, s.currentStage), source)
         IN Core(r) /\ r.dispatch = NoDispatch
<1> DEFINE c == CompleteStage(s, s.currentStage, "fail", cause)
           f == CloseDispatch(c, end)
           target == FailureTarget(f, s.currentStage)
<1>1. /\ Placed(c) /\ c.recovery.active.phase = "none"
      /\ c.currentStage = s.currentStage /\ c.dispatch = s.dispatch
  BY CompleteFailPlaced
<1> HIDE DEF c
<1>2. c.dispatch.stage \in Stage
  BY <1>1 DEF Working, Placed
<1>3. /\ Placed(f) /\ f.recovery = c.recovery
      /\ f.currentStage = c.currentStage /\ f.dispatch = NoDispatch
  BY <1>1, <1>2, ClosedIsPlaced
<1> HIDE DEF f
<1>4. \/ target = f.currentStage
      \/ f.currentStage \in REVIEW_STAGES /\ target = "builder"
  BY <1>1, <1>3 DEF FailureTarget
<1> HIDE DEF target
<1>5. LET r == RouteOrRecover(f, f.currentStage, target, source) IN
      Core(r) /\ r.dispatch = f.dispatch
  BY <1>1, <1>3, <1>4, RouteOrRecoverCore
<1>6. QED
  BY <1>1, <1>3, <1>5 DEF c, f, target

LEMMA IngestStageStep ==
  ASSUME IInv, IngestStage
  PROVE  Core(task') /\ Owned(task')
<1>1. Outstanding /\ task.dispatch.id.phase = "stage"
  BY DEF IngestStage, IngestVerdict
<1>2. /\ Working(task) /\ task.dispatch.stage = task.currentStage
      /\ task.currentStage \in Stage
  BY <1>1, OutstandingFacts
<1>3. PICK outcome \in Outcome, cause \in Cause : IngestVerdict(outcome, cause)
  BY DEF IngestStage
<1>4a. outcome # "fail" => cause = "other"
  BY <1>3 DEF IngestVerdict
<1>4b. PICK sha \in HeadReads :
       LET stage     == task.dispatch.stage
           completed == CompleteStage(task, stage, AsPass(outcome), cause)
           frozen    == IF /\ stage = "builder" /\ completed.status = "active"
                           /\ sha # NoCommit
                        THEN RecordVerifiedCommit(completed, sha) ELSE completed
           finished  == CloseDispatch(frozen, outcome)
       IN task' = IF outcome = "fail"
                     THEN RouteOrRecover(finished, stage,
                                         FailureTarget(finished, stage), "project")
                     ELSE finished
  BY <1>3 DEF IngestVerdict
<1> DEFINE completed == CompleteStage(task, task.currentStage, AsPass(outcome), cause)
           frozen == IF /\ task.currentStage = "builder" /\ completed.status = "active"
                        /\ sha # NoCommit
                     THEN RecordVerifiedCommit(completed, sha) ELSE completed
           finished == CloseDispatch(frozen, outcome)
<1>4. outcome \in End
  BY DEF End
<1>5. CASE outcome = "fail"
  <2>1. AsPass(outcome) = "fail"
    BY <1>5 DEF AsPass
  <2>2. completed = CompleteStage(task, task.currentStage, "fail", cause)
    BY <2>1
  <2>3. completed.status = "blocked"
    <3>1. completed = [Recorded(task, "fail") EXCEPT
                          !.status = "blocked",
                          !.blocker = Blocker(task.currentStage, "fail", cause, FALSE)]
      BY <2>2 DEF CompleteStage, Recorded
    <3>2. Recorded(task, "fail") \in Task
      BY <1>2, RecordedFields DEF Working, Verdict
    <3> HIDE DEF completed
    <3>3. QED
      BY <3>1, <3>2 DEF Task
  <2> HIDE DEF completed
  <2>4. frozen = completed
    BY <2>3
  <2>5. task' = RouteOrRecover(finished, task.currentStage,
                               FailureTarget(finished, task.currentStage), "project")
    BY <1>2, <1>4b, <1>5 DEF completed
  <2>6. Core(task') /\ task'.dispatch = NoDispatch
    BY <1>2, <1>4, <2>2, <2>4, <2>5, RejectCore
  <2>7. QED
    BY <2>6, Unowned
<1>6. CASE outcome # "fail"
  <2>1. cause = "other" /\ task' = finished
    BY <1>2, <1>4a, <1>4b, <1>6
  <2>2. AsPass(outcome) \in {"pass", "decision-required"}
    BY <1>6 DEF AsPass, Outcome
  <2>3. /\ Core(completed) /\ completed.dispatch = task.dispatch
        /\ task.currentStage = "builder" /\ completed.status = "active" =>
             \A t \in Stage \cap PROVING_STAGES : completed.stages[t].status = "pending"
    BY <1>2, <2>1, <2>2, CompleteStageCore
  <2> HIDE DEF completed
  <2>4. Core(frozen) /\ frozen.dispatch = task.dispatch
    <3>1. CASE task.currentStage = "builder" /\ completed.status = "active" /\ sha # NoCommit
      <4>1. sha \in Commits
        BY <3>1 DEF HeadReads, IInv
      <4>2. QED
        BY <2>3, <3>1, <4>1, FreezeKeepsCore
    <3>2. CASE ~(task.currentStage = "builder" /\ completed.status = "active" /\ sha # NoCommit)
      BY <2>3, <3>2
    <3>3. QED
      BY <3>1, <3>2
  <2> HIDE DEF frozen
  <2>5. frozen \in Task /\ frozen.dispatch.stage \in Stage
    BY <1>2, <2>4 DEF Core
  <2>6. Core(finished) /\ finished.dispatch = NoDispatch
    BY <1>4, <2>4, <2>5, CloseDispatchCore, CloseDispatchFields
  <2>7. QED
    BY <2>1, <2>6, Unowned
<1>7. QED
  BY <1>5, <1>6

LEMMA IngestInfraStep ==
  ASSUME IInv, IngestInfraFailure
  PROVE  Core(task') /\ Owned(task')
<1>1. /\ Working(task) /\ task.dispatch.stage = task.currentStage
      /\ Placed(task) /\ Anchored(task)
  BY OutstandingFacts DEF IngestInfraFailure
<1>2. CASE task' = RecordSeatPause(task)
  BY <1>1, <1>2, SeatPauseCore, Unowned
<1>3. ASSUME NEW cause \in {"infra", "other"},
             LET stage    == task.dispatch.stage
                 finished == CloseDispatch(CompleteStage(task, stage, "fail", cause), "infra")
             IN task' = RouteOrRecover(finished, stage, FailureTarget(finished, stage), "project")
      PROVE  Core(task') /\ Owned(task')
  <2>1. cause \in Cause /\ "infra" \in End
    BY DEF Cause, End
  <2>2. Core(task') /\ task'.dispatch = NoDispatch
    BY <1>1, <1>3, <2>1, RejectCore
  <2>3. QED
    BY <2>2, Unowned
<1>4. QED
  BY <1>2, <1>3 DEF IngestInfraFailure

\* A recovery verdict, applied and closed.
LEMMA RecoveryStep ==
  ASSUME IInv, Outstanding, task.dispatch.id.phase # "stage", NEW outcome, NEW end \in End,
         task' = CloseDispatch(RecordRecoveryResult(task, outcome), end)
  PROVE  Core(task') /\ Owned(task')
<1> DEFINE r == RecordRecoveryResult(task, outcome)
<1>1. Repairing(task) /\ task.dispatch.stage \in Stage
  BY OutstandingFacts
<1>2. Core(r) /\ r.dispatch = task.dispatch
  BY <1>1, RecordRecoveryResultCore
<1> HIDE DEF r
<1>3. r \in Task /\ r.dispatch.stage \in Stage
  BY <1>1, <1>2 DEF Core
<1>4. Core(CloseDispatch(r, end)) /\ CloseDispatch(r, end).dispatch = NoDispatch
  BY <1>2, <1>3, CloseDispatchCore, CloseDispatchFields
<1>5. QED
  BY <1>4, Unowned DEF r

LEMMA IngestRecoveryStep ==
  ASSUME IInv, IngestRecovery
  PROVE  Core(task') /\ Owned(task')
<1>1. PICK outcome \in Outcome :
        task' = CloseDispatch(RecordRecoveryResult(task, AsPass(outcome)), outcome)
  BY DEF IngestRecovery, IngestRepair
<1>2. outcome \in End
  BY DEF End
<1>3. QED
  BY <1>1, <1>2, RecoveryStep DEF IngestRecovery, IngestRepair

\* A dispatch closed without an outcome, and its task parked.
LEMMA LostAndBlocked ==
  ASSUME IInv, Outstanding, NEW b \in BlockerRecord, b.stage = task.currentStage
  PROVE  LET c == CloseDispatch(task, "lost")
             r == [c EXCEPT !.status = "blocked", !.blocker = b] IN
         /\ Placed(c) /\ Anchored(c) /\ c.dispatch = NoDispatch
         /\ Placed(r) /\ r.recovery = task.recovery /\ r.dispatch = NoDispatch
         /\ r.currentStage = task.currentStage
<1> DEFINE c == CloseDispatch(task, "lost")
           r == [c EXCEPT !.status = "blocked", !.blocker = b]
<1>1. /\ Placed(task) /\ Anchored(task) /\ task.dispatch.stage \in Stage
  BY OutstandingFacts
<1>2. /\ Placed(c) /\ c.recovery = task.recovery
      /\ c.currentStage = task.currentStage /\ c.dispatch = NoDispatch
  BY <1>1, ClosedIsPlaced DEF End
<1> HIDE DEF c
<1>3. c \in Task
  BY <1>2 DEF Placed
<1>4. /\ r \in Task /\ r.currentStage = c.currentStage /\ r.stages = c.stages
      /\ r.approved = c.approved /\ r.recovery = c.recovery /\ r.dispatch = c.dispatch
  BY <1>3 DEF Task
<1> HIDE DEF r
<1>5. Placed(r)
  BY <1>2, <1>4, PlacedTransfer
<1>6. Anchored(c)
  BY <1>1, <1>2 DEF Anchored, LastAttempt
<1>7. QED
  BY <1>2, <1>4, <1>5, <1>6 DEF c, r

LEMMA FailDispatchStep ==
  ASSUME IInv, FailDispatch
  PROVE  Core(task') /\ Owned(task')
<1>1. /\ Outstanding /\ Placed(task) /\ Anchored(task)
      /\ task.dispatch.stage = task.currentStage /\ task.currentStage \in Stage
      /\ task.dispatch.id.phase = "stage" => Working(task)
  BY OutstandingFacts DEF FailDispatch
<1>2. CASE task' = RecordSeatPause(task)
  BY <1>1, <1>2, SeatPauseCore, Unowned
<1>3. CASE /\ task.dispatch.id.phase # "stage"
           /\ task' = CloseDispatch(RecordRecoveryResult(task, "fail"), "lost")
  BY <1>1, <1>3, RecoveryStep DEF End
<1>4. ASSUME task.dispatch.id.phase = "stage", NEW cause \in Cause,
             LET stage   == task.dispatch.stage
                 blocked == [CloseDispatch(task, "lost") EXCEPT
                               !.status = "blocked",
                               !.blocker = Blocker(stage, "fail", cause, FALSE)]
             IN task' = RouteOrRecover(blocked, stage, stage, "harness")
      PROVE  Core(task') /\ Owned(task')
  <2> DEFINE b == Blocker(task.currentStage, "fail", cause, FALSE)
             r == [CloseDispatch(task, "lost") EXCEPT !.status = "blocked", !.blocker = b]
  <2>1. b \in BlockerRecord /\ b.stage = task.currentStage
    BY <1>1 DEF Blocker, BlockerRecord
  <2>2. task' = RouteOrRecover(r, task.currentStage, task.currentStage, "harness")
    BY <1>1, <1>4
  <2> HIDE DEF b
  <2>3. /\ Placed(r) /\ r.recovery = task.recovery /\ r.dispatch = NoDispatch
        /\ r.currentStage = task.currentStage
    BY <1>1, <2>1, LostAndBlocked
  <2> HIDE DEF r
  <2>4. r.recovery.active.phase = "none"
    BY <1>1, <1>4, <2>3 DEF Working
  <2>5. Core(task') /\ task'.dispatch = NoDispatch
    BY <2>2, <2>3, <2>4, RouteOrRecoverCore
  <2>6. QED
    BY <2>5, Unowned
<1>5. QED
  BY <1>2, <1>3, <1>4 DEF FailDispatch

LEMMA BlockDispatchStep ==
  ASSUME IInv, BlockDispatch
  PROVE  Core(task') /\ Owned(task')
<1> DEFINE b == Blocker(task.currentStage, "decision-required", "other", TRUE)
           c == CloseDispatch(task, "lost")
           r == [c EXCEPT !.status = "blocked", !.blocker = b]
<1>1. /\ Outstanding /\ task.dispatch.stage = task.currentStage
      /\ task.currentStage \in Stage
  BY OutstandingFacts DEF BlockDispatch
<1>2. b \in BlockerRecord /\ b.stage = task.currentStage /\ b.outcome = "decision-required"
  BY <1>1 DEF Blocker, BlockerRecord, Cause
<1>3. task' = r
  BY <1>1 DEF BlockDispatch
<1> HIDE DEF b
<1>4. /\ Placed(c) /\ Anchored(c) /\ c.currentStage = task.currentStage
      /\ r.dispatch = NoDispatch
  <2>1. Placed(c) /\ Anchored(c) /\ r.dispatch = NoDispatch
    BY <1>1, <1>2, LostAndBlocked
  <2>2. c.currentStage = task.currentStage
    BY <1>1, ClosedIsPlaced, OutstandingFacts DEF End
  <2>3. QED
    BY <2>1, <2>2
<1> HIDE DEF c
<1>5. Core(r)
  BY <1>2, <1>4, BlockHereCore
<1> HIDE DEF r
<1>6. QED
  BY <1>3, <1>4, <1>5, Unowned

-----------------------------------------------------------------------------
(* Crash, founder and sweep                                                *)

LEMMA RunnerCrashStep ==
  ASSUME IInv, RunnerCrash
  PROVE  Core(task') /\ Owned(task')
<1> DEFINE b == Blocker(task.currentStage, "fail", "other", TRUE)
           c == [task EXCEPT !.dispatch = NoDispatch]
           r == [c EXCEPT !.status = "blocked", !.blocker = b]
<1>1. Placed(task) /\ Anchored(task) /\ task \in Task
  BY ActiveIsPlaced DEF IInv, RunnerCrash, Core
<1>2. DispatchStage(task) = task.currentStage
  BY <1>1 DEF DispatchStage, Anchored
<1>3. task' = r
  BY <1>1, <1>2 DEF RunnerCrash, Task
<1>4. b \in BlockerRecord /\ b.stage = task.currentStage /\ b.founderAction
  BY <1>1 DEF Blocker, BlockerRecord, Cause, Placed
<1> HIDE DEF b
<1>5. /\ c \in Task /\ c.currentStage = task.currentStage /\ c.stages = task.stages
      /\ c.approved = task.approved /\ c.recovery = task.recovery
      /\ c.dispatch = NoDispatch
  BY <1>1, NoneTyped DEF Task
<1> HIDE DEF c
<1>6. Placed(c) /\ Anchored(c)
  BY <1>1, <1>5, PlacedTransfer DEF Anchored, LastAttempt
<1>7. Core(r)
  BY <1>4, <1>5, <1>6, BlockHereCore
<1>8. r.dispatch = NoDispatch
  BY <1>5 DEF Task
<1>9. QED
  BY <1>3, <1>7, <1>8, Unowned

\* A blocked task owns no dispatch, so resuming it leaves none.
LEMMA ResumeStep ==
  ASSUME IInv, CanResume(task), NEW retries \in Nat,
         task' = [ResumeState(task) EXCEPT !.autoRetries = retries]
  PROVE  Core(task') /\ Owned(task')
<1> DEFINE r == ResumeState(task)
<1>1. task \in Task /\ task.dispatch = NoDispatch
  BY DEF IInv, Core, Owned, CanResume
<1>2. /\ Placed(r) /\ Anchored(r) /\ r.status = "active" /\ r.dispatch = task.dispatch
  BY ResumeFields DEF IInv
<1> HIDE DEF r
<1>3. r \in Task
  BY <1>2 DEF Placed
<1>4. /\ task' \in Task /\ task'.currentStage = r.currentStage /\ task'.stages = r.stages
      /\ task'.approved = r.approved /\ task'.recovery = r.recovery
      /\ task'.status = "active" /\ task'.dispatch = task.dispatch
  BY <1>2, <1>3 DEF Task, r
<1>5. Placed(task') /\ Anchored(task')
  BY <1>2, <1>4, PlacedTransfer DEF Anchored, LastAttempt
<1>6. Core(task')
  BY <1>4, <1>5, PlacedIsCore
<1>7. Owned(task')
  BY <1>1, <1>4, Unowned
<1>8. QED
  BY <1>6, <1>7

\* The same with the retry counter left alone.
LEMMA PlainResumeStep ==
  ASSUME IInv, CanResume(task), task' = ResumeState(task)
  PROVE  Core(task') /\ Owned(task')
<1> DEFINE r == ResumeState(task)
<1>1. /\ Placed(r) /\ Anchored(r) /\ r.status = "active" /\ r.dispatch = task.dispatch
  BY ResumeFields DEF IInv
<1>2. task.dispatch = NoDispatch
  BY DEF IInv, Core, Owned, CanResume
<1> HIDE DEF r
<1>3. Core(r) /\ Owned(r)
  BY <1>1, <1>2, PlacedIsCore, Unowned
<1>4. QED
  BY <1>3 DEF r

LEMMA ApprovalStep ==
  ASSUME IInv, RecordFounderApproval
  PROVE  Core(task') /\ Owned(task')
<1> DEFINE a == [task EXCEPT !.approved = TRUE]
           r == [a EXCEPT !.status = "active", !.blocker = NoBlocker]
<1>1. Core(task) /\ Owned(task) /\ task \in Task
  BY DEF IInv, Core
<1>2. /\ a \in Task /\ a.status = task.status /\ a.currentStage = task.currentStage
      /\ a.stages = task.stages /\ a.blocker = task.blocker
      /\ a.recovery = task.recovery /\ a.dispatch = task.dispatch /\ a.approved = TRUE
  BY <1>1 DEF Task
<1>3. Core(a) /\ Owned(a)
  BY <1>1, <1>2 DEF Core, Owned, Waits, Parked, Anchored, LastAttempt, InOrder, Gated
<1>4. CASE task.status = "blocked" /\ task.blocker.stage = "builder"
  <2>1. task' = r
    BY <1>4 DEF RecordFounderApproval
  <2> HIDE DEF a
  <2>2. /\ r \in Task /\ r.status = "active" /\ r.currentStage = a.currentStage
        /\ r.stages = a.stages /\ r.recovery = a.recovery /\ r.approved = TRUE
        /\ r.dispatch = a.dispatch
    BY <1>2, NoneTyped DEF Task
  <2> HIDE DEF r
  <2>3. Core(r)
    BY <1>2, <1>3, <1>4, <2>2 DEF Core, Waits, Parked, Anchored, LastAttempt, InOrder, Gated
  <2>4. Owned(r)
    BY <1>1, <1>2, <1>4, <2>2 DEF Owned
  <2>5. QED
    BY <2>1, <2>3, <2>4
<1>5. CASE ~(task.status = "blocked" /\ task.blocker.stage = "builder")
  <2>1. task' = a
    BY <1>5 DEF RecordFounderApproval
  <2>2. QED
    BY <1>3, <2>1
<1>6. QED
  BY <1>4, <1>5

\* Dropping an orphan's dispatch and re-arming its stage.
LEMMA DropOrphanFields ==
  ASSUME NEW s, Core(s), Owned(s), s.status = "active"
  PROVE  LET r == DropOrphan(s) IN
         /\ Placed(r) /\ Anchored(r) /\ r.status = "active"
         /\ r.dispatch = NoDispatch /\ r.recovery = s.recovery
         /\ r.blocker = s.blocker /\ r.verifiedCommit = s.verifiedCommit
         /\ r.currentStage = s.currentStage /\ r.autoRetries = s.autoRetries
         /\ \A t \in Stage :
              r.stages[t] = IF t = s.currentStage THEN Pending ELSE s.stages[t]
         /\ r.dispatches = IF s.dispatch.status = "none" THEN s.dispatches
                           ELSE Append(s.dispatches, [id |-> s.dispatch.id,
                                                      stage |-> s.dispatch.stage,
                                                      end |-> "lost"])
<1> DEFINE d == IF s.dispatch.status = "none" THEN s ELSE CloseDispatch(s, "lost")
           st == [d.stages EXCEPT ![s.currentStage] = Pending]
           r == [d EXCEPT !.stages = st]
<1>1. Placed(s) /\ Anchored(s) /\ s \in Task /\ s.currentStage \in Stage
  BY ActiveIsPlaced DEF Core, Placed
<1>2. /\ d \in Task /\ d.status = "active" /\ d.currentStage = s.currentStage
      /\ d.stages = s.stages /\ d.approved = s.approved
      /\ d.recovery = s.recovery /\ d.dispatch = NoDispatch
      /\ d.blocker = s.blocker /\ d.verifiedCommit = s.verifiedCommit
      /\ d.autoRetries = s.autoRetries
  <2>1. CASE s.dispatch.status = "none"
    BY <1>1, <2>1 DEF Owned
  <2>2. CASE s.dispatch.status # "none"
    <3>1. s.dispatch.stage \in Stage
      BY <1>1, <2>2 DEF Owned
    <3>2. d = CloseDispatch(s, "lost") /\ "lost" \in End
      BY <2>2 DEF End
    <3> HIDE DEF d
    <3>3. QED
      BY <1>1, <3>1, <3>2, CloseDispatchFields
  <2>3. QED
    BY <2>1, <2>2
<1>10. d.dispatches = IF s.dispatch.status = "none" THEN s.dispatches
                      ELSE Append(s.dispatches, [id |-> s.dispatch.id,
                                                 stage |-> s.dispatch.stage, end |-> "lost"])
  BY <1>1, CloseDispatchFields DEF End, Owned
<1>3. DropOrphan(s) = [d EXCEPT !.stages[s.currentStage] = Pending]
  BY DEF DropOrphan
<1> HIDE DEF d
<1>4. DropOrphan(s) = r
  BY <1>2, <1>3 DEF Task
<1>5. /\ st \in [Stage -> StageResult]
      /\ \A t \in Stage : st[t] = IF t = s.currentStage THEN Pending ELSE s.stages[t]
  BY <1>1, <1>2, ClearedStage
<1> HIDE DEF st
<1>6. /\ r \in Task /\ r.currentStage = d.currentStage /\ r.stages = st
      /\ r.approved = d.approved /\ r.recovery = d.recovery
      /\ r.status = "active" /\ r.dispatch = d.dispatch
      /\ r.blocker = d.blocker /\ r.verifiedCommit = d.verifiedCommit
      /\ r.dispatches = d.dispatches /\ r.autoRetries = d.autoRetries
  BY <1>2, <1>5 DEF Task
<1> HIDE DEF r
<1>7. Placed(r)
  BY <1>1, <1>2, <1>5, <1>6, ClearedIsPlaced
<1>8. Anchored(r)
  BY <1>1, <1>2, <1>6 DEF Anchored, LastAttempt
<1>9. QED
  BY <1>2, <1>4, <1>5, <1>6, <1>7, <1>8, <1>10

LEMMA RecoverOrphanStep ==
  ASSUME IInv, RecoverOrphanNode
  PROVE  Core(task') /\ Owned(task')
<1> DEFINE r == DropOrphan(task)
<1>1. /\ Placed(r) /\ Anchored(r) /\ r.status = "active" /\ r.dispatch = NoDispatch
  BY DropOrphanFields DEF IInv, RecoverOrphanNode
<1>2. task' = r
  BY DEF RecoverOrphanNode
<1> HIDE DEF r
<1>3. QED
  BY <1>1, <1>2, PlacedIsCore, Unowned

LEMMA SweepOrphanStep ==
  ASSUME IInv, SweepOrphan
  PROVE  Core(task') /\ Owned(task')
<1> DEFINE d == DropOrphan(task)
           n == d.autoRetries + 1
           r == [d EXCEPT !.autoRetries = n]
<1>1. /\ Placed(d) /\ Anchored(d) /\ d.status = "active" /\ d.dispatch = NoDispatch
  BY DropOrphanFields DEF IInv, SweepOrphan
<1>2. task' = r
  BY DEF SweepOrphan
<1> HIDE DEF d
<1>3. d \in Task /\ n \in Nat
  BY <1>1 DEF Placed, Task
<1> HIDE DEF n
<1>4. /\ r \in Task /\ r.currentStage = d.currentStage /\ r.stages = d.stages
      /\ r.approved = d.approved /\ r.recovery = d.recovery
      /\ r.status = "active" /\ r.dispatch = d.dispatch
  BY <1>1, <1>3 DEF Task
<1> HIDE DEF r
<1>5. Placed(r) /\ Anchored(r)
  BY <1>1, <1>4, PlacedTransfer DEF Anchored, LastAttempt
<1>6. QED
  BY <1>1, <1>2, <1>4, <1>5, PlacedIsCore, Unowned

LEMMA SweepBlockedStep ==
  ASSUME IInv, SweepBlocked
  PROVE  Core(task') /\ Owned(task')
<1> DEFINE r == ResumeState(task)
           n == IF task.blocker.outcome = "paused-credits" THEN r.autoRetries
                ELSE r.autoRetries + 1
<1>1. Placed(r) /\ CanResume(task)
  BY ResumeFields DEF IInv, SweepBlocked
<1>2. task' = [r EXCEPT !.autoRetries = n]
  BY DEF SweepBlocked
<1>3. n \in Nat
  <2>1. r.autoRetries \in Nat
    BY <1>1 DEF Placed, Task
  <2>2. QED
    BY <2>1
<1> HIDE DEF n
<1>4. QED
  BY <1>1, <1>2, <1>3, ResumeStep

-----------------------------------------------------------------------------
(* Every behaviour                                                         *)

\* One command, one crash, one resume or one commit keeps the invariant.
THEOREM StepPreserves == IInv /\ [Next]_vars => IInv'
<1> SUFFICES ASSUME IInv, [Next]_vars PROVE IInv'
  OBVIOUS
<1>1. CASE PrepareDispatch
  BY <1>1, PrepareStep DEF PrepareDispatch, IInv
<1>2. CASE MarkDispatchRunning
  BY <1>2, RunningStep DEF MarkDispatchRunning, IInv
<1>3. CASE IngestStage
  <2>1. head' = head /\ built' \in {head, built}
    BY <1>3 DEF IngestStage, IngestVerdict
  <2>2. QED
    BY <1>3, <2>1, IngestStageStep DEF IInv
<1>4. CASE IngestInfraFailure
  BY <1>4, IngestInfraStep DEF IngestInfraFailure, IInv
<1>5. CASE IngestRecovery
  BY <1>5, IngestRecoveryStep DEF IngestRecovery, IngestRepair, IInv
<1>6. CASE FailDispatch
  BY <1>6, FailDispatchStep DEF FailDispatch, IInv
<1>7. CASE BlockDispatch
  BY <1>7, BlockDispatchStep DEF BlockDispatch, IInv
<1>8. CASE RunnerCrash
  BY <1>8, RunnerCrashStep DEF RunnerCrash, IInv
<1>9. CASE FounderResume
  BY <1>9, PlainResumeStep DEF FounderResume, IInv
<1>10. CASE ResolveFounderDecision
  BY <1>10, PlainResumeStep DEF ResolveFounderDecision, IInv
<1>11. CASE RecordFounderApproval
  BY <1>11, ApprovalStep DEF RecordFounderApproval, IInv
<1>12. CASE SweepBlocked
  BY <1>12, SweepBlockedStep DEF SweepBlocked, IInv
<1>13. CASE SweepOrphan
  BY <1>13, SweepOrphanStep DEF SweepOrphan, IInv
<1>17. CASE RecoverOrphanNode
  BY <1>17, RecoverOrphanStep DEF RecoverOrphanNode, IInv
<1>14. CASE NewCommit
  <2>1. head' \in Commits
    BY <1>14, BudgetAssumption DEF NewCommit, IInv, Commits
  <2>2. task' = task /\ built' = built
    BY <1>14 DEF NewCommit
  <2>3. QED
    BY <2>1, <2>2 DEF IInv
<1>15. CASE UNCHANGED vars
  BY <1>15 DEF vars, IInv
<1>16. QED
  BY <1>1, <1>2, <1>3, <1>4, <1>5, <1>6, <1>7, <1>8, <1>9, <1>10, <1>11, <1>12,
     <1>13, <1>14, <1>15, <1>17 DEF Next, Engine, Sweep, Founder

THEOREM Invariance == Spec => []IInv
<1>1. QED
  BY InitEstablishes, StepPreserves, PTL DEF Spec

\* The document keeps its shape under every interleaving of commands, crashes,
\* resumes and sweeps.
THEOREM TypeCorrect == Spec => []TypeOK
<1>1. IInv => TypeOK
  BY DEF IInv, Core, TypeOK
<1>2. QED
  BY <1>1, Invariance, PTL

\* An outstanding dispatch always belongs to the work the engine is on, so a
\* result is never recorded against another stage (ingestResult, failDispatch).
THEOREM DispatchAlwaysMatches == Spec => []DispatchMatchesEngine
<1>1. IInv => DispatchMatchesEngine
  BY DEF IInv, Core, Anchored, Owned, DispatchMatchesEngine
<1>2. QED
  BY <1>1, Invariance, PTL

\* Whatever was routed back, repaired, resumed or swept, the pipeline is worked
\* in order (reopenFrom, recordVerifiedCommit, completeStage).
THEOREM PipelineAlwaysInOrder == Spec => []PipelineInOrder
<1>1. IInv => PipelineInOrder
  BY DEF IInv, Core, InOrder, PipelineInOrder
<1>2. QED
  BY <1>1, Invariance, PTL

\* The attempt recordRecoveryResult writes to, the last one, is the one the
\* active phase names.
THEOREM RecoveryAlwaysAnchored == Spec => []RecoveryAnchored
<1>1. IInv => RecoveryAnchored
  BY DEF IInv, Core, Anchored, RecoveryAnchored
<1>2. QED
  BY <1>1, Invariance, PTL

\* On no route does high-risk work reach the builder without the approval.
THEOREM BuildAlwaysAuthorized == Spec => []BuildIsAuthorized
<1>1. IInv => BuildIsAuthorized
  <2> SUFFICES ASSUME IInv, HighRisk, ~task.approved
               PROVE  task.dispatch.stage # "builder"
    BY DEF IInv, Core, Gated, BuildIsAuthorized
  <2>1. CASE task.dispatch.status = "none"
    BY <2>1 DEF IInv, Owned, NoDispatch, NoStage
  <2>2. CASE task.dispatch.status # "none"
    BY <2>2 DEF IInv, Core, Gated, Owned
  <2>3. QED
    BY <2>1, <2>2
<1>2. QED
  BY <1>1, Invariance, PTL

\* Every blocked task waits for somebody: the founder or the seat's reset.
THEOREM BlockAlwaysHasOwner == Spec => []BlockHasOwner
<1>1. IInv => BlockHasOwner
  BY DEF IInv, Core, Waits, BlockHasOwner, ClassifyBlocker, Task, BlockerRecord
<1>2. QED
  BY <1>1, Invariance, PTL

-----------------------------------------------------------------------------
(* What a command leaves behind                                            *)
(*                                                                         *)
(* The commands differ in what they decide and agree in what they may do   *)
(* to the record, the recovery incidents and the blocker.                  *)

IncidentsKept(s, r) ==
  \A i \in 1 .. Len(s.recovery.attempts) :
    r.recovery.attempts[i].incident = s.recovery.attempts[i].incident

\* One attempt more, in the incident that is open.
Opens(s, r) ==
  /\ IncidentsKept(s, r)
  /\ Len(r.recovery.attempts) = Len(s.recovery.attempts) + 1
  /\ r.recovery.attempts[Len(s.recovery.attempts) + 1].incident = s.recovery.incident
  /\ r.recovery.incident = s.recovery.incident

\* No attempt is under way any more, and none was added.
Rests(s, r) ==
  /\ IncidentsKept(s, r)
  /\ Len(r.recovery.attempts) = Len(s.recovery.attempts)
  /\ r.recovery.incident \in {s.recovery.incident, s.recovery.incident + 1}
  /\ r.recovery.active.phase = "none"

\* The attempt was diagnosed and is to be verified.
Proceeds(s, r) ==
  /\ r.recovery.attempts = s.recovery.attempts
  /\ r.recovery.incident = s.recovery.incident
  /\ s.recovery.active.phase = "diagnose" /\ r.recovery.active.phase = "verify"

\* An attempt is only opened within the budget.
Moves(s, r) ==
  \/ RecoveryBudgetLeft(s) /\ Opens(s, r)
  \/ Rests(s, r)
  \/ Proceeds(s, r)

\* The engine goes on, or asks the founder.
Sorted(r) ==
  \/ r.status = "active" /\ r.blocker = NoBlocker
  \/ r.status = "blocked" /\ r.blocker.outcome = "decision-required"

Kept(s, r) ==
  /\ r.dispatch = s.dispatch /\ r.dispatches = s.dispatches
  /\ r.verifiedCommit = s.verifiedCommit
  /\ r.autoRetries = s.autoRetries
  /\ Stands(s, r)

LEMMA KeptTransitive ==
  ASSUME NEW s, NEW m, NEW r, Kept(s, m), Kept(m, r)
  PROVE  Kept(s, r)
BY StandsTransitive DEF Kept

\* A failing stage is tried again within its budgets, gets a repair attempt within
\* the budget of repairs, or is the founder's.
Reroutes(s, r) ==
  /\ s.currentStage \in REVIEW_STAGES /\ ~StageBudgetExceeded(s, s.currentStage)
  /\ r.recovery = s.recovery
Recovers(s, r) ==
  \/ RecoveryBudgetLeft(s) /\ Opens(s, r)
  \/ Rests(s, r) /\ Asks(r)

LEMMA EscalateMoves ==
  ASSUME NEW s, s \in Task, s.currentStage \in Stage, NEW stage \in Stage
  PROVE  LET r == EscalateRecovery(s, stage)
         IN Kept(s, r) /\ Sorted(r) /\ Rests(s, r)
<1> DEFINE r == EscalateRecovery(s, stage)
<1>1. /\ r.status = "blocked"
      /\ r.blocker = Blocker(stage, "decision-required", "other", TRUE)
      /\ r.recovery.active = NoRecovery /\ r.dispatch = s.dispatch
      /\ r.recovery.attempts = s.recovery.attempts
      /\ r.recovery.incident = s.recovery.incident
      /\ r.dispatches = s.dispatches /\ r.verifiedCommit = s.verifiedCommit
      /\ r.autoRetries = s.autoRetries
      /\ r.currentStage = s.currentStage /\ r.stages = s.stages
  BY EscalateFields
<1> HIDE DEF r
<1>2. Kept(s, r) /\ Sorted(r) /\ Rests(s, r)
  BY <1>1, StandsStill DEF Kept, Sorted, Rests, IncidentsKept, Blocker, NoRecovery
<1>3. QED
  BY <1>2 DEF r

LEMMA OpenMoves ==
  ASSUME NEW s, s \in Task, s.currentStage \in Stage, NEW stage \in Stage,
         NEW target \in {"project", "factory"}
  PROVE  LET r == OpenAttempt(s, stage, target) IN
         /\ Kept(s, r) /\ Opens(s, r) /\ r \in Task
         /\ r.status = s.status /\ r.blocker = s.blocker
<1> DEFINE r == OpenAttempt(s, stage, target)
<1>1. /\ r \in Task /\ r.status = s.status /\ r.blocker = s.blocker /\ r.dispatch = s.dispatch
      /\ r.dispatches = s.dispatches /\ r.verifiedCommit = s.verifiedCommit
      /\ r.recovery.incident = s.recovery.incident
      /\ r.autoRetries = s.autoRetries
      /\ r.currentStage = s.currentStage /\ r.stages = s.stages
  BY OpenAttemptFields, ZenonT(40)
<1>2. /\ Len(r.recovery.attempts) = Len(s.recovery.attempts) + 1
      /\ r.recovery.attempts[Len(s.recovery.attempts) + 1] =
           [incident |-> s.recovery.incident, failedStage |-> stage,
            target |-> target, status |-> "diagnosing"]
  BY OpenAttemptFields
<1>3. \A i \in 1 .. Len(s.recovery.attempts) :
        r.recovery.attempts[i] = s.recovery.attempts[i]
  BY OpenAttemptFields, ZenonT(40)
<1> HIDE DEF r
<1>4. Kept(s, r) /\ Opens(s, r)
  BY <1>1, <1>2, <1>3, StandsStill DEF Kept, Opens, IncidentsKept
<1>5. QED
  BY <1>1, <1>4 DEF r

LEMMA StartRecoveryMoves ==
  ASSUME NEW s, Placed(s), NEW cause \in Cause, NEW source
  PROVE  LET r == StartRecovery(s, s.currentStage, cause, source)
         IN Kept(s, r) /\ Sorted(r) /\ Recovers(s, r)
<1> DEFINE target == RepairTarget(cause, source)
           o == OpenAttempt(s, s.currentStage, target)
           r == [o EXCEPT !.status = "active", !.currentStage = s.currentStage,
                          !.blocker = NoBlocker]
<1>1. s \in Task /\ s.currentStage \in Stage /\ target \in {"project", "factory"}
  BY DEF Placed, RepairTarget
<1> HIDE DEF target
<1>2. CASE RecoveryBudgetLeft(s)
  <2>1. StartRecovery(s, s.currentStage, cause, source) = r
    BY <1>2 DEF StartRecovery, target
  <2>2. Kept(s, o) /\ Opens(s, o) /\ o \in Task
    BY <1>1, OpenMoves
  <2> HIDE DEF o
  <2>3. /\ r.status = "active" /\ r.blocker = NoBlocker /\ r.recovery = o.recovery
        /\ r.dispatch = o.dispatch /\ r.dispatches = o.dispatches
        /\ r.verifiedCommit = o.verifiedCommit /\ r.autoRetries = o.autoRetries
        /\ r.currentStage = s.currentStage /\ r.stages = o.stages
    BY <2>2 DEF Task
  <2> HIDE DEF r
  <2>4. Kept(s, r) /\ Sorted(r) /\ Opens(s, r)
    BY <1>1, <2>2, <2>3 DEF Kept, Stands, Fades, Sorted, Opens, IncidentsKept
  <2>5. QED
    BY <1>2, <2>1, <2>4 DEF Recovers
<1>3. CASE ~RecoveryBudgetLeft(s)
  <2>1. StartRecovery(s, s.currentStage, cause, source) = EscalateRecovery(s, s.currentStage)
    BY <1>3 DEF StartRecovery
  <2> DEFINE x == EscalateRecovery(s, s.currentStage)
  <2>2. Kept(s, x) /\ Sorted(x) /\ Rests(s, x)
    BY <1>1, EscalateMoves
  <2>3. /\ x.status = "blocked"
        /\ x.blocker = Blocker(s.currentStage, "decision-required", "other", TRUE)
    BY <1>1, EscalateFields
  <2> HIDE DEF x
  <2>4. Asks(x)
    BY <2>3 DEF Asks, Blocker
  <2>5. QED
    BY <2>1, <2>2, <2>4 DEF Recovers, x
<1>4. QED
  BY <1>2, <1>3

LEMMA SettleMoves ==
  ASSUME NEW s, Repairing(s), NEW status \in {"failed", "verified"}
  PROVE  LET r == SettleAttempt(s, status) IN
         /\ r \in Task /\ Kept(s, r) /\ IncidentsKept(s, r)
         /\ Len(r.recovery.attempts) = Len(s.recovery.attempts)
         /\ r.recovery.incident = s.recovery.incident
         /\ r.status = "active" /\ r.blocker = s.blocker
<1> DEFINE r == SettleAttempt(s, status)
<1>1. s \in Task /\ Len(s.recovery.attempts) > 0 /\ s.status = "active"
  BY DEF Repairing, Placed, Anchored
<1>2. /\ r \in Task /\ r.status = s.status /\ r.dispatch = s.dispatch
      /\ r.recovery.incident = s.recovery.incident
      /\ Len(r.recovery.attempts) = Len(s.recovery.attempts)
      /\ \A i \in 1 .. Len(s.recovery.attempts) :
           r.recovery.attempts[i].incident = s.recovery.attempts[i].incident
      /\ r.blocker = s.blocker
      /\ r.dispatches = s.dispatches /\ r.verifiedCommit = s.verifiedCommit
      /\ r.autoRetries = s.autoRetries
      /\ r.currentStage = s.currentStage /\ r.stages = s.stages
  BY <1>1, SettleFields
<1> HIDE DEF r
<1>3. Kept(s, r) /\ IncidentsKept(s, r)
  BY <1>2, StandsStill DEF Kept, IncidentsKept, Repairing, Placed
<1>4. QED
  BY <1>1, <1>2, <1>3 DEF r

LEMMA FinishFailureMoves ==
  ASSUME NEW s, Repairing(s), s.blocker = NoBlocker, NEW outcome
  PROVE  LET r == FinishRecoveryFailure(s, outcome)
         IN Kept(s, r) /\ Sorted(r) /\ Moves(s, r)
<1> DEFINE failed == SettleAttempt(s, "failed")
           stage  == s.recovery.active.failedStage
           target == LastAttempt(s).target
           o      == OpenAttempt(failed, stage, target)
           x      == EscalateRecovery(failed, stage)
<1>1. /\ failed \in Task /\ Kept(s, failed) /\ IncidentsKept(s, failed)
      /\ Len(failed.recovery.attempts) = Len(s.recovery.attempts)
      /\ failed.recovery.incident = s.recovery.incident
      /\ failed.status = "active" /\ failed.blocker = NoBlocker
      /\ failed.currentStage \in Stage
  BY SettleMoves DEF Kept, Stands
<1>2. stage \in Stage /\ target \in {"project", "factory"} /\ Len(s.recovery.attempts) \in Nat
  <2>1. stage \in Stage /\ s \in Task /\ Len(s.recovery.attempts) > 0
    BY DEF Repairing, Placed, Anchored
  <2>2. LastAttempt(s) \in Attempt
    BY <2>1, RecoveryTyped DEF LastAttempt
  <2>3. QED
    BY <2>1, <2>2, RecoveryTyped DEF Attempt
<1> HIDE DEF failed, stage, target
<1>3. CASE outcome # "decision-required" /\ RecoveryBudgetLeft(s)
  <2>1. FinishRecoveryFailure(s, outcome) = o
    BY <1>3 DEF FinishRecoveryFailure, failed, stage, target
  <2>2. /\ Kept(failed, o) /\ Opens(failed, o)
        /\ o.status = failed.status /\ o.blocker = failed.blocker
    BY <1>1, <1>2, OpenMoves
  <2> HIDE DEF o
  <2>3. Kept(s, o) /\ Sorted(o) /\ Opens(s, o)
    BY <1>1, <1>2, <2>2, KeptTransitive DEF Sorted, Opens, IncidentsKept
  <2>4. QED
    BY <1>3, <2>1, <2>3 DEF Moves
<1>4. CASE ~(outcome # "decision-required" /\ RecoveryBudgetLeft(s))
  <2>1. FinishRecoveryFailure(s, outcome) = x
    BY <1>4 DEF FinishRecoveryFailure, failed, stage
  <2>2. Kept(failed, x) /\ Sorted(x) /\ Rests(failed, x)
    BY <1>1, <1>2, EscalateMoves
  <2> HIDE DEF x
  <2>3. Kept(s, x) /\ Rests(s, x)
    BY <1>1, <1>2, <2>2, KeptTransitive DEF Rests, IncidentsKept
  <2>4. QED
    BY <2>1, <2>2, <2>3 DEF Moves
<1>5. QED
  BY <1>3, <1>4

LEMMA RecoveryResultMoves ==
  ASSUME NEW s, Repairing(s), s.blocker = NoBlocker, NEW outcome
  PROVE  LET r == RecordRecoveryResult(s, outcome)
         IN Kept(s, r) /\ Sorted(r) /\ Moves(s, r)
<1>1. s \in Task /\ s.status = "active" /\ s.currentStage \in Stage
      /\ s.recovery.active.phase \in {"diagnose", "verify"}
  BY RecoveryTyped DEF Repairing, Placed, ActiveRecovery
<1>2. CASE outcome # "pass"
  BY <1>2, FinishFailureMoves DEF RecordRecoveryResult
<1>3. CASE outcome = "pass" /\ s.recovery.active.phase = "diagnose"
  <2> DEFINE act == [s.recovery.active EXCEPT !.phase = "verify"]
             rec == [s.recovery EXCEPT !.active = act]
             r   == [s EXCEPT !.recovery = rec]
  <2>1. act.phase = "verify"
    BY <1>1, RecoveryTyped DEF ActiveRecovery
  <2>2. RecordRecoveryResult(s, outcome) = r
    BY <1>1, <1>3, RecoveryTyped DEF RecordRecoveryResult, Task, Recovery
  <2> HIDE DEF act
  <2>3. rec.active = act /\ rec.attempts = s.recovery.attempts
        /\ rec.incident = s.recovery.incident
    BY <1>1, RecoveryTyped DEF Recovery
  <2> HIDE DEF rec
  <2>4. /\ r.recovery = rec /\ r.status = "active" /\ r.blocker = NoBlocker
        /\ r.dispatch = s.dispatch /\ r.dispatches = s.dispatches
        /\ r.verifiedCommit = s.verifiedCommit /\ r.autoRetries = s.autoRetries
        /\ r.currentStage = s.currentStage /\ r.stages = s.stages
    BY <1>1 DEF Task
  <2> HIDE DEF r
  <2>5. Kept(s, r) /\ Sorted(r) /\ Proceeds(s, r)
    BY <1>1, <1>3, <2>1, <2>3, <2>4, StandsStill DEF Kept, Sorted, Proceeds
  <2>6. QED
    BY <2>2, <2>5 DEF Moves
<1>4. CASE outcome = "pass" /\ s.recovery.active.phase # "diagnose"
  <2> DEFINE verified == SettleAttempt(s, "verified")
             stage    == ResumeAt(s)
             closed   == CloseRecoveryIncident(verified)
             x        == EscalateRecovery(verified, stage)
             r        == ReopenFrom(closed, stage)
  <2>1. /\ verified \in Task /\ Kept(s, verified) /\ IncidentsKept(s, verified)
        /\ Len(verified.recovery.attempts) = Len(s.recovery.attempts)
        /\ verified.recovery.incident = s.recovery.incident
        /\ verified.currentStage \in Stage
    BY SettleMoves DEF Kept, Stands
  <2>2. stage \in Stage /\ Len(s.recovery.attempts) \in Nat
    BY <1>1, StagesFacts, RecoveryTyped DEF ResumeAt, Repairing, Anchored
  <2> HIDE DEF verified, stage
  <2>3. CASE StageBudgetExceeded(s, stage)
    <3>1. RecordRecoveryResult(s, outcome) = x
      BY <1>4, <2>3 DEF RecordRecoveryResult, verified, stage
    <3>2. Kept(verified, x) /\ Sorted(x) /\ Rests(verified, x)
      BY <2>1, <2>2, EscalateMoves
    <3> HIDE DEF x
    <3>3. Kept(s, x) /\ Rests(s, x)
      BY <2>1, <2>2, <3>2, KeptTransitive DEF Rests, IncidentsKept
    <3>4. QED
      BY <3>1, <3>2, <3>3 DEF Moves
  <2>4. CASE ~StageBudgetExceeded(s, stage)
    <3>1. RecordRecoveryResult(s, outcome) = r
      BY <1>4, <2>4 DEF RecordRecoveryResult, verified, stage, closed
    <3>2. /\ closed \in Task /\ closed.dispatch = verified.dispatch
          /\ closed.recovery.active = NoRecovery
          /\ closed.recovery.attempts = verified.recovery.attempts
          /\ closed.recovery.incident \in
               {verified.recovery.incident, verified.recovery.incident + 1}
          /\ closed.dispatches = verified.dispatches
          /\ closed.verifiedCommit = verified.verifiedCommit
          /\ closed.autoRetries = verified.autoRetries
          /\ closed.currentStage = verified.currentStage /\ closed.stages = verified.stages
      BY <2>1, CloseIncidentFields
    <3> HIDE DEF closed
    <3>3. /\ r.status = "active" /\ r.blocker = NoBlocker
          /\ r.dispatch = closed.dispatch /\ r.recovery = closed.recovery
          /\ r.dispatches = closed.dispatches /\ r.verifiedCommit = closed.verifiedCommit
          /\ r.autoRetries = closed.autoRetries
      BY <2>2, <3>2, ReopenFromFields
    <3>6. Stands(closed, r)
      BY <2>2, <3>2, ReopenStands
    <3> HIDE DEF r
    <3>7. Stands(verified, r)
      BY <2>1, <3>2, <3>6, StandsStill, StandsTransitive
    <3>8. Kept(verified, r)
      BY <3>2, <3>3, <3>7 DEF Kept
    <3>4. Kept(s, r) /\ Sorted(r) /\ Rests(s, r)
      BY <2>1, <3>2, <3>3, <3>8, KeptTransitive DEF Sorted, Rests, IncidentsKept, NoRecovery
    <3>5. QED
      BY <3>1, <3>4 DEF Moves
  <2>5. QED
    BY <2>3, <2>4
<1>5. QED
  BY <1>2, <1>3, <1>4

LEMMA RouteMoves ==
  ASSUME NEW s, Placed(s), NEW source, NEW target \in Stage
  PROVE  LET r == RouteOrRecover(s, s.currentStage, target, source)
         IN Kept(s, r) /\ Sorted(r) /\ (Reroutes(s, r) \/ Recovers(s, r))
<1>1. s \in Task /\ s.blocker.cause \in Cause
  BY DEF Placed, Task, BlockerRecord
<1>2. CASE s.currentStage \in REVIEW_STAGES /\ ~StageBudgetExceeded(s, s.currentStage)
  <2> DEFINE r == ReopenFrom(s, target)
  <2>1. RouteOrRecover(s, s.currentStage, target, source) = r
    BY <1>2 DEF RouteOrRecover
  <2>2. /\ r.status = "active" /\ r.blocker = NoBlocker
        /\ r.dispatch = s.dispatch /\ r.recovery = s.recovery
        /\ r.dispatches = s.dispatches /\ r.verifiedCommit = s.verifiedCommit
        /\ r.autoRetries = s.autoRetries
    BY <1>1, ReopenFromFields
  <2>3. Stands(s, r)
    BY <1>1, ReopenStands
  <2> HIDE DEF r
  <2>4. Kept(s, r) /\ Sorted(r) /\ Reroutes(s, r)
    BY <1>2, <2>2, <2>3 DEF Kept, Sorted, Reroutes
  <2>5. QED
    BY <2>1, <2>4
<1>3. CASE ~(s.currentStage \in REVIEW_STAGES /\ ~StageBudgetExceeded(s, s.currentStage))
  <2>1. RouteOrRecover(s, s.currentStage, target, source) =
          StartRecovery(s, s.currentStage, s.blocker.cause, source)
    BY <1>3 DEF RouteOrRecover
  <2>2. QED
    BY <1>1, <2>1, StartRecoveryMoves
<1>4. QED
  BY <1>2, <1>3

\* A task that is not blocked has no blocker left over, and one that is says why; a
\* seat pause asks nobody, and the sweep may resume it.
Calm(s) ==
  /\ s.status # "blocked" => s.blocker = NoBlocker
  /\ s.status = "blocked" => s.blocker.outcome # "none"
  /\ s.blocker.outcome = "paused-credits" =>
       /\ ~s.blocker.founderAction
       /\ s.blocker.stage = "builder" => Authorized(s)

\* The dispatch goes on the record as `end'; an answer moves the repair it was for,
\* and a seat pause changes nothing else.
Closes(s, r, end) ==
  /\ s.dispatch.status # "none"
  /\ r.dispatches = Append(s.dispatches, [id |-> s.dispatch.id, stage |-> s.dispatch.stage,
                                          end |-> end])
  /\ r.dispatch = NoDispatch
  /\ r.recovery = s.recovery \/ Moves(s, r)
  /\ end \notin {"lost", "seat"} /\ s.dispatch.id.phase # "stage" => Moves(s, r)
  /\ Calm(r)
  /\ r.blocker.outcome = "paused-credits" =>
       end = "seat" /\ r.recovery = s.recovery /\ r.autoRetries = s.autoRetries

\* The stage failed within its budgets and is tried again.
Retries(s, r, end) ==
  /\ end \in {"fail", "infra", "lost"} /\ s.dispatch.id.phase = "stage"
  /\ s.dispatch.stage \in REVIEW_STAGES /\ ~StageBudgetExceeded(r, s.dispatch.stage)
  /\ r.recovery = s.recovery

\* The task waits for its seat, and not for the last time.
Pauses(s, r) ==
  /\ ConsecutiveSeatPauses(r.dispatches) < MaxSeatPauses
  /\ r.recovery = s.recovery /\ r.currentStage = s.currentStage

\* What the engine makes of a dispatch it closes, and what that costs.
Settles(s, r, end) ==
  \/ /\ Advances(s, r)
     /\ end \in {"pass", "decision-deferred"} /\ s.dispatch.id.phase = "stage"
  \/ /\ Stands(s, r) /\ r.autoRetries = s.autoRetries
     /\ \/ Asks(r) /\ (r.recovery = s.recovery \/ Rests(s, r))
        \/ Retries(s, r, end)
        \/ RecoveryBudgetLeft(s) /\ Opens(s, r)
        \/ s.recovery.active.phase # "none" /\ (Rests(s, r) \/ Proceeds(s, r))
        \/ end = "seat" /\ Pauses(s, r)

\* The record is left alone: a crash, an approval, a resume or a sweep.
Revives(s, r) ==
  /\ r.dispatches = s.dispatches
  /\ r.dispatch \in {s.dispatch, NoDispatch}
  /\ r.recovery = s.recovery \/ Rests(s, r)
  /\ Calm(r)
  /\ r.blocker.outcome = "paused-credits" => r.blocker = s.blocker
  /\ s.blocker.outcome = "paused-credits" =>
       r.recovery = s.recovery /\ r.autoRetries = s.autoRetries

\* The tree under review is not another one, and nothing is released.
Judges(s, r) ==
  /\ r.verifiedCommit = s.verifiedCommit
  /\ r.status = "merge-ready" => s.status = "merge-ready"

LEMMA SortedIsCalm ==
  ASSUME NEW s, Sorted(s)
  PROVE  Calm(s) /\ s.blocker.outcome # "paused-credits" /\ s.status # "merge-ready"
BY DEF Sorted, Calm, NoBlocker

\* Moves reads only the recovery record of the document a command started from.
LEMMA MovesTransfer ==
  ASSUME NEW s, NEW f, f.recovery = s.recovery, NEW r, Moves(f, r)
  PROVE  Moves(s, r)
BY DEF Moves, Opens, Rests, Proceeds, IncidentsKept, RecoveryBudgetLeft, OpenIncidentAttempts

\* A failed stage, closed as `f', then routed or repaired as `r'.
LEMMA RoutedCloses ==
  ASSUME NEW s, NEW f, NEW r, NEW end \in {"fail", "infra", "lost"},
         s.dispatch.stage = s.currentStage, s.dispatch.status # "none",
         s.dispatch.id.phase = "stage",
         f.recovery = s.recovery, f.currentStage = s.currentStage, f.dispatch = NoDispatch,
         f.autoRetries = s.autoRetries, f.verifiedCommit = s.verifiedCommit, Stands(s, f),
         f.dispatches = Append(s.dispatches, [id |-> s.dispatch.id, stage |-> s.dispatch.stage,
                                              end |-> end]),
         Kept(f, r), Sorted(r), Reroutes(f, r) \/ Recovers(f, r)
  PROVE  Closes(s, r, end) /\ Judges(s, r) /\ Settles(s, r, end)
<1>1. CASE Reroutes(f, r)
  <2>1. ~StageBudgetExceeded(r, s.dispatch.stage) /\ s.dispatch.stage \in REVIEW_STAGES
    BY <1>1 DEF Reroutes, StageBudgetExceeded, VerdictCount, InfraCount, StageDispatches, Kept
  <2>2. r.recovery = s.recovery
    BY <1>1 DEF Reroutes
  <2>3. Retries(s, r, end)
    BY <2>1, <2>2 DEF Retries
  <2>4. QED
    BY <2>2, <2>3, SortedIsCalm, StandsTransitive DEF Closes, Judges, Settles, Kept
<1>2. CASE Recovers(f, r)
  <2>1. /\ Moves(s, r)
        /\ (RecoveryBudgetLeft(s) /\ Opens(s, r)) \/ (Rests(s, r) /\ Asks(r))
    BY <1>2 DEF Recovers, Moves, Opens, Rests, IncidentsKept, RecoveryBudgetLeft,
                OpenIncidentAttempts
  <2>2. QED
    BY <2>1, SortedIsCalm, StandsTransitive DEF Closes, Judges, Settles, Kept
<1>3. QED
  BY <1>1, <1>2

\* A rejection: complete the stage with it, close the dispatch, route or repair.
LEMMA RejectCloses ==
  ASSUME NEW s, Working(s), s.dispatch.stage = s.currentStage, s.dispatch.status # "none",
         s.dispatch.id.phase = "stage",
         NEW cause \in Cause, NEW end \in {"fail", "infra"}, NEW source
  PROVE  LET f == CloseDispatch(CompleteStage(s, s.currentStage, "fail", cause), end)
             r == RouteOrRecover(f, s.currentStage, FailureTarget(f, s.currentStage), source)
         IN Closes(s, r, end) /\ Judges(s, r) /\ Settles(s, r, end)
<1> DEFINE c == CompleteStage(s, s.currentStage, "fail", cause)
           f == CloseDispatch(c, end)
           target == FailureTarget(f, s.currentStage)
           r == RouteOrRecover(f, s.currentStage, target, source)
<1>1. /\ Placed(c) /\ c.currentStage = s.currentStage /\ c.dispatch = s.dispatch
      /\ c.recovery = s.recovery /\ c.dispatches = s.dispatches
      /\ c.verifiedCommit = s.verifiedCommit
      /\ c.autoRetries = s.autoRetries /\ Stands(s, c)
  BY CompleteFailPlaced
<1> HIDE DEF c
<1>2. c.dispatch.stage \in Stage /\ end \in End
  BY <1>1 DEF Working, Placed, End, Outcome
<1>3. /\ Placed(f) /\ f.recovery = s.recovery /\ f.currentStage = s.currentStage
      /\ f.dispatch = NoDispatch /\ f.verifiedCommit = s.verifiedCommit
      /\ f.autoRetries = s.autoRetries /\ f.stages = c.stages
  BY <1>1, <1>2, ClosedIsPlaced
<1>4. f.dispatches = Append(s.dispatches, [id |-> s.dispatch.id, stage |-> s.dispatch.stage,
                                           end |-> end])
  <2>1. f.dispatches = Append(c.dispatches, [id |-> c.dispatch.id, stage |-> c.dispatch.stage,
                                             end |-> end])
    BY <1>1, <1>2, ClosedIsPlaced
  <2> HIDE DEF f
  <2>2. QED
    BY <1>1, <2>1
<1> HIDE DEF f
<1>5. target \in Stage
  BY <1>1, StagesFacts DEF FailureTarget, Working, Placed
<1> HIDE DEF target
<1>6. Kept(f, r) /\ Sorted(r) /\ (Reroutes(f, r) \/ Recovers(f, r))
  BY <1>3, <1>5, RouteMoves
<1> HIDE DEF r
<1>7. Stands(s, f)
  BY <1>1, <1>3 DEF Stands, Fades, Unpassed
<1>8. Closes(s, r, end) /\ Judges(s, r) /\ Settles(s, r, end)
  BY <1>3, <1>4, <1>6, <1>7, RoutedCloses
<1>9. QED
  BY <1>8 DEF r, target, f, c

LEMMA PausesTyped ==
  ASSUME NEW s, s \in Task
  PROVE  ConsecutiveSeatPauses(s.dispatches) \in Nat
<1> DEFINE P == {i \in DOMAIN s.dispatches :
                   \A j \in i .. Len(s.dispatches) : s.dispatches[j].end = "seat"}
<1>1. s.dispatches \in Seq(DispatchRecord)
  BY DEF Task
<1>2. P \in SUBSET (1 .. Len(s.dispatches)) /\ Len(s.dispatches) \in Nat
  BY <1>1
<1>3. IsFiniteSet(1 .. Len(s.dispatches))
  BY <1>2, FS_Interval
<1> HIDE DEF P
<1>4. Cardinality(P) \in Nat
  BY <1>2, <1>3, FS_Subset, FS_CardinalityType
<1>5. QED
  BY <1>4 DEF ConsecutiveSeatPauses, P

LEMMA SeatPauseCloses ==
  ASSUME NEW s, Placed(s), s.dispatch.stage = s.currentStage, s.dispatch.status # "none"
  PROVE  LET r == RecordSeatPause(s) IN
         Closes(s, r, "seat") /\ Judges(s, r) /\ Settles(s, r, "seat")
<1> DEFINE closed == CloseDispatch(s, "seat")
           b == IF ConsecutiveSeatPauses(closed.dispatches) >= MaxSeatPauses
                THEN Blocker(s.dispatch.stage, "decision-required", "infra", TRUE)
                ELSE Blocker(s.dispatch.stage, "paused-credits", "infra", FALSE)
           r == [closed EXCEPT !.status = "blocked", !.blocker = b]
<1>1. s.dispatch.stage \in Stage /\ "seat" \in End
  BY DEF Placed, End
<1>2. /\ Placed(closed) /\ closed.recovery = s.recovery
      /\ closed.currentStage = s.currentStage /\ closed.dispatch = NoDispatch
      /\ closed.verifiedCommit = s.verifiedCommit /\ closed.autoRetries = s.autoRetries
      /\ closed.stages = s.stages
  BY <1>1, ClosedIsPlaced
<1>3. closed.dispatches = Append(s.dispatches, [id |-> s.dispatch.id,
                                                stage |-> s.dispatch.stage, end |-> "seat"])
  BY <1>1, ClosedIsPlaced
<1>4. RecordSeatPause(s) = r
  BY DEF RecordSeatPause
<1>5. /\ b.outcome = "paused-credits" => ~b.founderAction
      /\ b.stage = s.currentStage /\ b.outcome # "none"
      /\ \/ b.outcome = "decision-required"
         \/ ~(ConsecutiveSeatPauses(closed.dispatches) >= MaxSeatPauses)
  BY DEF Blocker
<1>10. ConsecutiveSeatPauses(closed.dispatches) \in Nat /\ MaxSeatPauses \in Nat
  BY <1>2, PausesTyped, BudgetAssumption DEF Placed
<1> HIDE DEF closed
<1> HIDE DEF b
<1>6. /\ r.status = "blocked" /\ r.blocker = b /\ r.dispatch = NoDispatch
      /\ r.recovery = s.recovery /\ r.verifiedCommit = s.verifiedCommit
      /\ r.autoRetries = s.autoRetries /\ r.dispatches = closed.dispatches
      /\ r.approved = closed.approved
      /\ r.currentStage = s.currentStage /\ r.stages = s.stages
  BY <1>2 DEF Placed, Task
<1> HIDE DEF r
<1>7. Calm(r)
  BY <1>2, <1>5, <1>6 DEF Calm, Authorized, Placed
<1>8. Closes(s, r, "seat") /\ Judges(s, r)
  BY <1>3, <1>6, <1>7 DEF Closes, Judges
<1>11. Stands(s, r)
  BY <1>6, StandsStill DEF Placed
<1>12. Asks(r) \/ Pauses(s, r)
  BY <1>5, <1>6, <1>10 DEF Asks, Pauses
<1>13. Settles(s, r, "seat")
  BY <1>6, <1>11, <1>12 DEF Settles
<1>9. QED
  BY <1>4, <1>8, <1>13

\* A recovery verdict, applied and closed.
LEMMA RecoveryCloses ==
  ASSUME NEW s, Repairing(s), s.dispatch.stage = s.currentStage, s.dispatch.status # "none",
         s.blocker = NoBlocker, NEW outcome, NEW end \in End
  PROVE  LET r == CloseDispatch(RecordRecoveryResult(s, outcome), end)
         IN Closes(s, r, end) /\ Judges(s, r) /\ Settles(s, r, end)
<1> DEFINE m == RecordRecoveryResult(s, outcome)
           r == CloseDispatch(m, end)
<1>1. Kept(s, m) /\ Sorted(m) /\ Moves(s, m)
  BY RecoveryResultMoves
<1>2. m \in Task
  BY RecordRecoveryResultCore DEF Core
<1> HIDE DEF m
<1>3. m.dispatch.stage \in Stage
  BY <1>1 DEF Kept, Repairing, Placed
<1>4. /\ r.dispatch = NoDispatch /\ r.status = m.status /\ r.blocker = m.blocker
      /\ r.recovery = m.recovery /\ r.verifiedCommit = m.verifiedCommit
      /\ r.autoRetries = m.autoRetries
      /\ r.currentStage = m.currentStage /\ r.stages = m.stages
  BY <1>2, <1>3, CloseDispatchFields
<1>5. r.dispatches = Append(s.dispatches, [id |-> s.dispatch.id, stage |-> s.dispatch.stage,
                                           end |-> end])
  <2>1. r.dispatches = Append(m.dispatches, [id |-> m.dispatch.id, stage |-> m.dispatch.stage,
                                             end |-> end])
    BY <1>2, <1>3, CloseDispatchFields
  <2> HIDE DEF r
  <2>2. QED
    BY <1>1, <2>1 DEF Kept
<1> HIDE DEF r
<1>6. Moves(s, r) /\ Sorted(r)
  BY <1>1, <1>4 DEF Moves, Opens, Rests, Proceeds, IncidentsKept, Sorted
<1>7. Closes(s, r, end) /\ Judges(s, r)
  BY <1>1, <1>4, <1>5, <1>6, SortedIsCalm DEF Closes, Judges, Kept
<1>8. Stands(s, r) /\ r.autoRetries = s.autoRetries
  BY <1>1, <1>4 DEF Kept, Stands, Fades, Unpassed
<1>9. Settles(s, r, end)
  BY <1>6, <1>8 DEF Settles, Moves, Repairing
<1>10. QED
  BY <1>7, <1>9 DEF r, m

\* A verdict that is no rejection, completed, frozen and closed.
LEMMA VerdictCloses ==
  ASSUME IInv, Calm(task), NEW outcome \in Outcome, outcome # "fail", NEW cause \in Cause,
         IngestVerdict(outcome, cause)
  PROVE  /\ Closes(task, task', outcome) /\ Settles(task, task', outcome)
         /\ task.currentStage # "builder" => built' = built
         /\ HeadReadable => \/ task'.verifiedCommit = task.verifiedCommit /\ built' = built
                            \/ task'.verifiedCommit = built'
         /\ task'.status = "merge-ready" =>
              /\ HeadReadable => head = task.verifiedCommit
              /\ task'.verifiedCommit = task.verifiedCommit
              /\ \A t \in Stage \cap PROVING_STAGES :
                   task'.stages[t].commit = task'.verifiedCommit
<1>1. /\ Outstanding /\ task.dispatch.id.phase = "stage" /\ cause = "other"
      /\ Working(task) /\ task.dispatch.stage = task.currentStage
      /\ task.currentStage \in Stage /\ task.status = "active"
  BY OutstandingFacts DEF IngestVerdict
<1>2. PICK sha \in HeadReads :
        LET stage     == task.dispatch.stage
            completed == CompleteStage(task, stage, AsPass(outcome), cause)
            frozen    == IF /\ stage = "builder" /\ completed.status = "active"
                            /\ sha # NoCommit
                         THEN RecordVerifiedCommit(completed, sha) ELSE completed
            finished  == CloseDispatch(frozen, outcome)
        IN /\ completed.status = "merge-ready" => ReleaseReady(completed, sha)
           /\ task' = finished
           /\ built' = IF stage = "builder" /\ completed.status = "active" THEN head ELSE built
  BY DEF IngestVerdict
<1> DEFINE completed == CompleteStage(task, task.currentStage, AsPass(outcome), cause)
           frozen == IF /\ task.currentStage = "builder" /\ completed.status = "active"
                        /\ sha # NoCommit
                     THEN RecordVerifiedCommit(completed, sha) ELSE completed
           finished == CloseDispatch(frozen, outcome)
<1>3. /\ completed.status = "merge-ready" => ReleaseReady(completed, sha)
      /\ task' = finished
      /\ built' = IF task.currentStage = "builder" /\ completed.status = "active"
                  THEN head ELSE built
  BY <1>1, <1>2
<1>4. AsPass(outcome) \in {"pass", "decision-required"} /\ outcome \in End
  BY DEF AsPass, Outcome, End
<1>5. /\ Core(completed) /\ completed.recovery = task.recovery
      /\ completed.dispatch = task.dispatch /\ completed.dispatches = task.dispatches
      /\ completed.verifiedCommit = task.verifiedCommit
      /\ IF completed.status = "blocked" THEN completed.blocker.outcome = "decision-required"
         ELSE completed.blocker = NoBlocker
      /\ IF AsPass(outcome) = "pass" THEN Advances(task, completed)
         ELSE /\ completed.autoRetries = task.autoRetries
              /\ Stands(task, completed) /\ Asks(completed)
      /\ task.currentStage = "builder" /\ completed.status = "active" =>
           \A t \in Stage \cap PROVING_STAGES : completed.stages[t].status = "pending"
  BY <1>1, <1>4, CompleteStageCore DEF Calm
<1> HIDE DEF completed
<1>6. sha \in {head, NoCommit} /\ (HeadReadable => sha = head) /\ head \in Commits
      /\ head # NoCommit
  BY DEF HeadReads, IInv, Commits, NoCommit
<1>7. /\ Core(frozen) /\ frozen.recovery = task.recovery /\ frozen.dispatch = task.dispatch
      /\ frozen.dispatches = task.dispatches
      /\ frozen.status = completed.status /\ frozen.blocker = completed.blocker
      /\ frozen.currentStage = completed.currentStage /\ frozen.stages = completed.stages
      /\ frozen.autoRetries = completed.autoRetries
      /\ \/ /\ task.currentStage = "builder" /\ completed.status = "active"
            /\ frozen.verifiedCommit = head
         \/ /\ ~(task.currentStage = "builder" /\ completed.status = "active" /\ sha # NoCommit)
            /\ frozen = completed
  <2>1. CASE task.currentStage = "builder" /\ completed.status = "active" /\ sha # NoCommit
    <3>1. sha \in Commits /\ sha = head
      BY <1>6, <2>1
    <3>2. frozen = RecordVerifiedCommit(completed, sha)
      BY <2>1
    <3> HIDE DEF frozen
    <3>3. QED
      BY <1>5, <2>1, <3>1, <3>2, FreezeKeepsCore
  <2>2. CASE ~(task.currentStage = "builder" /\ completed.status = "active" /\ sha # NoCommit)
    BY <1>5, <2>2
  <2>3. QED
    BY <2>1, <2>2
<1> HIDE DEF frozen
<1>8. frozen \in Task /\ frozen.dispatch.stage \in Stage
  BY <1>1, <1>7 DEF Core
<1>9. /\ finished.dispatch = NoDispatch /\ finished.status = completed.status
      /\ finished.blocker = completed.blocker /\ finished.recovery = task.recovery
      /\ finished.verifiedCommit = frozen.verifiedCommit /\ finished.stages = frozen.stages
      /\ finished.currentStage = completed.currentStage
      /\ finished.autoRetries = completed.autoRetries
  BY <1>4, <1>7, <1>8, CloseDispatchFields
<1>10. finished.dispatches = Append(task.dispatches, [id |-> task.dispatch.id,
                                                      stage |-> task.dispatch.stage,
                                                      end |-> outcome])
  <2>1. finished.dispatches = Append(frozen.dispatches, [id |-> frozen.dispatch.id,
                                                         stage |-> frozen.dispatch.stage,
                                                         end |-> outcome])
    BY <1>4, <1>8, CloseDispatchFields
  <2> HIDE DEF finished
  <2>2. QED
    BY <1>7, <2>1
<1> HIDE DEF finished
<1>11. Calm(finished) /\ finished.blocker.outcome # "paused-credits"
  BY <1>5, <1>9 DEF Calm, NoBlocker
<1>12. Closes(task, finished, outcome)
  BY <1>1, <1>9, <1>10, <1>11 DEF Closes, Outstanding
<1>13. HeadReadable => \/ task'.verifiedCommit = task.verifiedCommit /\ built' = built
                       \/ task'.verifiedCommit = built'
  BY <1>3, <1>5, <1>6, <1>7, <1>9
<1>14. ASSUME task'.status = "merge-ready"
       PROVE  /\ HeadReadable => head = task.verifiedCommit
              /\ task'.verifiedCommit = task.verifiedCommit
              /\ \A t \in Stage \cap PROVING_STAGES :
                   task'.stages[t].commit = task'.verifiedCommit
  <2>1. completed.status = "merge-ready" /\ frozen = completed
    BY <1>3, <1>7, <1>9, <1>14
  <2>2. /\ sha \in {NoCommit, completed.verifiedCommit}
        /\ \A t \in Stage \cap PROVING_STAGES :
             completed.stages[t].commit = completed.verifiedCommit
    BY <1>3, <2>1 DEF ReleaseReady
  <2>3. QED
    BY <1>3, <1>5, <1>6, <1>9, <2>1, <2>2
<1>15. Settles(task, finished, outcome)
  <2>1. CASE AsPass(outcome) = "pass"
    <3>1. outcome \in {"pass", "decision-deferred"}
      BY <2>1 DEF AsPass
    <3>2. Advances(task, completed)
      BY <1>5, <2>1
    <3>3. Advances(task, finished)
      BY <1>7, <1>9, <3>2 DEF Advances, Asks
    <3>4. QED
      BY <1>1, <3>1, <3>3 DEF Settles
  <2>2. CASE AsPass(outcome) # "pass"
    <3>1. /\ finished.autoRetries = task.autoRetries
          /\ Stands(task, completed) /\ Asks(completed)
      BY <1>5, <1>9, <2>2
    <3>2. Stands(task, finished) /\ Asks(finished)
      BY <1>7, <1>9, <3>1 DEF Stands, Fades, Unpassed, Asks
    <3>3. QED
      BY <1>9, <3>1, <3>2 DEF Settles
  <2>3. QED
    BY <2>1, <2>2
<1>16. task.currentStage # "builder" => built' = built
  BY <1>3
<1>17. QED
  BY <1>3, <1>12, <1>13, <1>14, <1>15, <1>16

\* A dispatch closed without an outcome leaves everything but its own record alone.
LEMMA LostCloses ==
  ASSUME IInv, Outstanding, NEW b \in BlockerRecord
  PROVE  LET r == [CloseDispatch(task, "lost") EXCEPT !.status = "blocked", !.blocker = b] IN
         /\ r.dispatches = Append(task.dispatches, [id |-> task.dispatch.id,
                                                    stage |-> task.dispatch.stage,
                                                    end |-> "lost"])
         /\ r.dispatch = NoDispatch /\ r.recovery = task.recovery
         /\ r.verifiedCommit = task.verifiedCommit
         /\ r.status = "blocked" /\ r.blocker = b
         /\ r.autoRetries = task.autoRetries /\ Stands(task, r)
<1> DEFINE c == CloseDispatch(task, "lost")
           r == [c EXCEPT !.status = "blocked", !.blocker = b]
<1>1. task \in Task /\ task.dispatch.stage \in Stage /\ "lost" \in End
  BY OutstandingFacts DEF End
<1>2. /\ c \in Task /\ c.dispatch = NoDispatch /\ c.recovery = task.recovery
      /\ c.verifiedCommit = task.verifiedCommit /\ c.autoRetries = task.autoRetries
      /\ c.currentStage = task.currentStage /\ c.stages = task.stages
  BY <1>1, CloseDispatchFields
<1>3. c.dispatches = Append(task.dispatches, [id |-> task.dispatch.id,
                                              stage |-> task.dispatch.stage, end |-> "lost"])
  BY <1>1, CloseDispatchFields
<1> HIDE DEF c
<1>4. /\ r.dispatches = c.dispatches /\ r.dispatch = c.dispatch /\ r.recovery = c.recovery
      /\ r.verifiedCommit = c.verifiedCommit /\ r.status = "blocked" /\ r.blocker = b
      /\ r.autoRetries = c.autoRetries
      /\ r.currentStage = c.currentStage /\ r.stages = c.stages
  BY <1>2 DEF Task
<1> HIDE DEF r
<1>5. Stands(task, r)
  BY <1>2, <1>4, OutstandingFacts, StandsStill
<1>6. QED
  BY <1>2, <1>3, <1>4, <1>5 DEF r, c

LEMMA FailCloses ==
  ASSUME IInv, Calm(task), FailDispatch
  PROVE  /\ \E end \in {"lost", "seat"} : Closes(task, task', end) /\ Settles(task, task', end)
         /\ Judges(task, task')
<1>1. /\ Outstanding /\ Placed(task) /\ task.dispatch.stage = task.currentStage
      /\ task.currentStage \in Stage /\ task.dispatch.status # "none"
      /\ task.dispatch.id.phase # "stage" => Repairing(task)
      /\ task.blocker = NoBlocker /\ {"lost", "seat"} \subseteq End
  BY OutstandingFacts DEF FailDispatch, Outstanding, Calm, End
<1>2. CASE task' = RecordSeatPause(task)
  BY <1>1, <1>2, SeatPauseCloses
<1>3. CASE /\ task.dispatch.id.phase # "stage"
           /\ task' = CloseDispatch(RecordRecoveryResult(task, "fail"), "lost")
  BY <1>1, <1>3, RecoveryCloses
<1>4. ASSUME task.dispatch.id.phase = "stage", NEW cause \in Cause,
             LET stage   == task.dispatch.stage
                 blocked == [CloseDispatch(task, "lost") EXCEPT
                               !.status = "blocked",
                               !.blocker = Blocker(stage, "fail", cause, FALSE)]
             IN task' = RouteOrRecover(blocked, stage, stage, "harness")
      PROVE  Closes(task, task', "lost") /\ Judges(task, task') /\ Settles(task, task', "lost")
  <2> DEFINE b == Blocker(task.currentStage, "fail", cause, FALSE)
             r == [CloseDispatch(task, "lost") EXCEPT !.status = "blocked", !.blocker = b]
  <2>1. b \in BlockerRecord /\ b.stage = task.currentStage
    BY <1>1 DEF Blocker, BlockerRecord
  <2>2. task' = RouteOrRecover(r, task.currentStage, task.currentStage, "harness")
    BY <1>1, <1>4
  <2> HIDE DEF b
  <2>3. Placed(r) /\ r.currentStage = task.currentStage
    BY <1>1, <2>1, LostAndBlocked
  <2>4. /\ r.dispatch = NoDispatch /\ r.recovery = task.recovery
        /\ r.verifiedCommit = task.verifiedCommit
        /\ r.autoRetries = task.autoRetries /\ Stands(task, r)
    BY <1>1, <2>1, LostCloses
  <2>5. r.dispatches = Append(task.dispatches, [id |-> task.dispatch.id,
                                                stage |-> task.dispatch.stage, end |-> "lost"])
    BY <1>1, <2>1, LostCloses
  <2> HIDE DEF r
  <2>6. Kept(r, task') /\ Sorted(task') /\ (Reroutes(r, task') \/ Recovers(r, task'))
    BY <1>1, <2>2, <2>3, RouteMoves
  <2>7. PICK s, f, n : s = task /\ f = r /\ n = task'
    OBVIOUS
  <2>8. Closes(s, n, "lost") /\ Judges(s, n) /\ Settles(s, n, "lost")
    BY <1>1, <1>4, <2>3, <2>4, <2>5, <2>6, <2>7, RoutedCloses
  <2>9. QED
    BY <2>7, <2>8
<1>5. QED
  BY <1>1, <1>2, <1>3, <1>4 DEF FailDispatch

LEMMA BlockCloses ==
  ASSUME IInv, BlockDispatch
  PROVE  Closes(task, task', "lost") /\ Judges(task, task') /\ Settles(task, task', "lost")
<1> DEFINE b == Blocker(task.currentStage, "decision-required", "other", TRUE)
           r == [CloseDispatch(task, "lost") EXCEPT !.status = "blocked", !.blocker = b]
<1>1. /\ Outstanding /\ task.dispatch.stage = task.currentStage /\ task.currentStage \in Stage
      /\ task.dispatch.status # "none"
  BY OutstandingFacts DEF BlockDispatch, Outstanding
<1>2. b \in BlockerRecord /\ b.outcome = "decision-required"
  BY <1>1 DEF Blocker, BlockerRecord, Cause
<1>3. task' = r
  BY <1>1 DEF BlockDispatch
<1> HIDE DEF b
<1>4. /\ r.dispatch = NoDispatch /\ r.recovery = task.recovery
      /\ r.verifiedCommit = task.verifiedCommit /\ r.status = "blocked" /\ r.blocker = b
      /\ r.autoRetries = task.autoRetries /\ Stands(task, r)
  BY <1>1, <1>2, LostCloses
<1>5. r.dispatches = Append(task.dispatches, [id |-> task.dispatch.id,
                                              stage |-> task.dispatch.stage, end |-> "lost"])
  BY <1>1, <1>2, LostCloses
<1> HIDE DEF r
<1>6. Sorted(r) /\ Asks(r)
  BY <1>2, <1>4 DEF Sorted, Asks
<1>7. QED
  BY <1>1, <1>3, <1>4, <1>5, <1>6, SortedIsCalm DEF Closes, Judges, Settles

LEMMA CrashRevives ==
  ASSUME IInv, Calm(task), RunnerCrash
  PROVE  Revives(task, task') /\ Judges(task, task')
<1> DEFINE b == Blocker(DispatchStage(task), "fail", "other", TRUE)
<1>1. task \in Task /\ task.status = "active" /\ task.blocker = NoBlocker
  BY DEF IInv, Core, Calm, RunnerCrash
<1>2. task' = [task EXCEPT !.status = "blocked", !.dispatch = NoDispatch, !.blocker = b]
  BY DEF RunnerCrash
<1>3. b.outcome = "fail"
  BY DEF Blocker
<1> HIDE DEF b
<1>4. /\ task'.status = "blocked" /\ task'.dispatch = NoDispatch /\ task'.blocker = b
      /\ task'.recovery = task.recovery /\ task'.dispatches = task.dispatches
      /\ task'.verifiedCommit = task.verifiedCommit
  BY <1>1, <1>2 DEF Task
<1>5. QED
  BY <1>1, <1>3, <1>4 DEF Revives, Judges, Calm, NoBlocker

LEMMA ResumeRevives ==
  ASSUME IInv, CanResume(task), NEW retries \in Nat,
         task.blocker.outcome = "paused-credits" => retries = task.autoRetries,
         task' = [ResumeState(task) EXCEPT !.autoRetries = retries]
  PROVE  Revives(task, task') /\ Judges(task, task')
<1> DEFINE r == ResumeState(task)
<1>1. /\ Placed(r) /\ r.status = "active" /\ r.dispatch = task.dispatch
      /\ r.blocker = NoBlocker
      /\ r.dispatches = task.dispatches /\ r.verifiedCommit = task.verifiedCommit
      /\ IF task.blocker.outcome = "paused-credits" THEN r.recovery = task.recovery
         ELSE /\ r.recovery.active = NoRecovery
              /\ r.recovery.attempts = task.recovery.attempts
              /\ r.recovery.incident \in {task.recovery.incident, task.recovery.incident + 1}
  BY ResumeFields DEF IInv
<1> HIDE DEF r
<1>2. /\ task'.status = "active" /\ task'.blocker = NoBlocker
      /\ task'.dispatch = task.dispatch /\ task'.dispatches = task.dispatches
      /\ task'.verifiedCommit = task.verifiedCommit /\ task'.recovery = r.recovery
      /\ task'.autoRetries = retries
  BY <1>1 DEF Placed, Task, r
<1>3. Sorted(task')
  BY <1>2 DEF Sorted
<1>4. task'.recovery = task.recovery \/ Rests(task, task')
  BY <1>1, <1>2 DEF Rests, IncidentsKept, NoRecovery
<1>5. QED
  BY <1>1, <1>2, <1>3, <1>4, SortedIsCalm DEF Revives, Judges

\* The same with the retry counter left alone.
LEMMA PlainResumeRevives ==
  ASSUME IInv, CanResume(task), task' = ResumeState(task)
  PROVE  Revives(task, task') /\ Judges(task, task')
<1> DEFINE r == ResumeState(task)
<1>1. /\ Placed(r) /\ r.autoRetries = task.autoRetries
  BY ResumeFields DEF IInv
<1> HIDE DEF r
<1>2. r \in Task /\ task.autoRetries \in Nat
  BY <1>1 DEF Placed, Task
<1>3. r = [r EXCEPT !.autoRetries = task.autoRetries]
  BY <1>1, <1>2 DEF Task
<1>4. QED
  BY <1>2, <1>3, ResumeRevives DEF r

LEMMA SweepRevives ==
  ASSUME IInv, SweepBlocked
  PROVE  Revives(task, task') /\ Judges(task, task')
<1> DEFINE r == ResumeState(task)
           n == IF task.blocker.outcome = "paused-credits" THEN r.autoRetries
                ELSE r.autoRetries + 1
<1>1. Placed(r) /\ CanResume(task) /\ r.autoRetries = task.autoRetries
  BY ResumeFields DEF IInv, SweepBlocked
<1>2. task' = [r EXCEPT !.autoRetries = n]
  BY DEF SweepBlocked
<1>3. n \in Nat /\ (task.blocker.outcome = "paused-credits" => n = task.autoRetries)
  <2>1. r.autoRetries \in Nat
    BY <1>1 DEF Placed, Task
  <2>2. QED
    BY <1>1, <2>1
<1> HIDE DEF n
<1>4. QED
  BY <1>1, <1>2, <1>3, ResumeRevives

LEMMA ApprovalRevives ==
  ASSUME IInv, Calm(task), RecordFounderApproval
  PROVE  Revives(task, task') /\ Judges(task, task')
<1> DEFINE a == [task EXCEPT !.approved = TRUE]
<1>1. task \in Task
  BY DEF IInv, Core
<1>2. /\ a \in Task /\ a.status = task.status /\ a.blocker = task.blocker
      /\ a.recovery = task.recovery /\ a.dispatch = task.dispatch /\ a.approved = TRUE
      /\ a.dispatches = task.dispatches /\ a.verifiedCommit = task.verifiedCommit
      /\ a.autoRetries = task.autoRetries
  BY <1>1 DEF Task
<1>3. task' = IF task.status = "blocked" /\ task.blocker.stage = "builder"
              THEN [a EXCEPT !.status = "active", !.blocker = NoBlocker] ELSE a
  BY DEF RecordFounderApproval
<1> HIDE DEF a
<1>4. CASE task.status = "blocked" /\ task.blocker.stage = "builder"
  <2>1. /\ task'.status = "active" /\ task'.blocker = NoBlocker
        /\ task'.recovery = task.recovery /\ task'.dispatch = task.dispatch
        /\ task'.dispatches = task.dispatches /\ task'.verifiedCommit = task.verifiedCommit
        /\ task'.autoRetries = task.autoRetries
    BY <1>2, <1>3, <1>4 DEF Task
  <2>2. Sorted(task')
    BY <2>1 DEF Sorted
  <2>3. QED
    BY <2>1, <2>2, SortedIsCalm DEF Revives, Judges
<1>5. CASE ~(task.status = "blocked" /\ task.blocker.stage = "builder")
  <2>1. task' = a
    BY <1>3, <1>5
  <2>2. Calm(a)
    BY <1>2 DEF Calm, Authorized
  <2>3. QED
    BY <1>2, <2>1, <2>2 DEF Revives, Judges
<1>6. QED
  BY <1>4, <1>5

\* An orphan's dispatch goes on the record, if it has one.
LEMMA OrphanDropped ==
  ASSUME IInv, Calm(task), task.status = "active", NEW retries,
         task' = DropOrphan(task) \/ task' = [DropOrphan(task) EXCEPT !.autoRetries = retries]
  PROVE  /\ IF task.dispatch.status = "none" THEN Revives(task, task')
            ELSE Closes(task, task', "lost")
         /\ Judges(task, task')
<1> DEFINE r == DropOrphan(task)
<1>1. /\ r \in Task /\ r.status = "active" /\ r.dispatch = NoDispatch
      /\ r.recovery = task.recovery /\ r.blocker = NoBlocker
      /\ r.verifiedCommit = task.verifiedCommit /\ task.blocker = NoBlocker
  BY DropOrphanFields DEF IInv, Placed, Calm
<1>2. r.dispatches = IF task.dispatch.status = "none" THEN task.dispatches
                     ELSE Append(task.dispatches, [id |-> task.dispatch.id,
                                                   stage |-> task.dispatch.stage,
                                                   end |-> "lost"])
  BY DropOrphanFields DEF IInv
<1>3. task' = r \/ task' = [r EXCEPT !.autoRetries = retries]
  OBVIOUS
<1> HIDE DEF r
<1>4. /\ task'.status = "active" /\ task'.dispatch = NoDispatch
      /\ task'.recovery = task.recovery /\ task'.blocker = NoBlocker
      /\ task'.verifiedCommit = task.verifiedCommit /\ task'.dispatches = r.dispatches
  BY <1>1, <1>3 DEF Task
<1>5. Sorted(task')
  BY <1>4 DEF Sorted
<1>6. CASE task.dispatch.status = "none"
  BY <1>1, <1>2, <1>4, <1>5, <1>6, SortedIsCalm DEF Revives, Judges, NoBlocker
<1>7. CASE task.dispatch.status # "none"
  BY <1>2, <1>4, <1>5, <1>7, SortedIsCalm DEF Closes, Judges
<1>8. QED
  BY <1>6, <1>7

\* The agent's rejection.
LEMMA RejectionCloses ==
  ASSUME IInv, NEW cause \in Cause, IngestVerdict("fail", cause)
  PROVE  /\ Closes(task, task', "fail") /\ Settles(task, task', "fail")
         /\ Judges(task, task') /\ built' = built
<1>1. PICK sha \in HeadReads :
        LET stage     == task.dispatch.stage
            completed == CompleteStage(task, stage, "fail", cause)
            frozen    == IF /\ stage = "builder" /\ completed.status = "active"
                            /\ sha # NoCommit
                         THEN RecordVerifiedCommit(completed, sha) ELSE completed
            finished  == CloseDispatch(frozen, "fail")
        IN /\ task' = RouteOrRecover(finished, stage, FailureTarget(finished, stage),
                                     "project")
           /\ built' = IF stage = "builder" /\ completed.status = "active"
                       THEN head ELSE built
  BY DEF IngestVerdict, AsPass
<1>2. /\ Working(task) /\ task.dispatch.stage = task.currentStage
      /\ task.dispatch.status # "none" /\ task.dispatch.id.phase = "stage"
  BY OutstandingFacts DEF IngestVerdict, Outstanding
<1> DEFINE c == CompleteStage(task, task.currentStage, "fail", cause)
<1>3. c.status = "blocked"
  <2>1. c = [Recorded(task, "fail") EXCEPT
               !.status = "blocked",
               !.blocker = Blocker(task.currentStage, "fail", cause, FALSE)]
    BY DEF CompleteStage, Recorded
  <2>2. Recorded(task, "fail") \in Task
    BY <1>2, RecordedFields DEF Working, Verdict
  <2> HIDE DEF c
  <2>3. QED
    BY <2>1, <2>2 DEF Task
<1>4. /\ task' = RouteOrRecover(CloseDispatch(c, "fail"), task.currentStage,
                   FailureTarget(CloseDispatch(c, "fail"), task.currentStage), "project")
      /\ built' = built
  <2>1. CompleteStage(task, task.dispatch.stage, "fail", cause) = c
    BY <1>2
  <2> HIDE DEF c
  <2>2. QED
    BY <1>1, <1>2, <1>3, <2>1
<1>5. QED
  BY <1>2, <1>4, RejectCloses

\* Every command of the engine that answers a dispatch closes it, at one of the costs.
LEMMA EngineCloses ==
  ASSUME IInv, Calm(task),
         IngestStage \/ IngestInfraFailure \/ IngestRecovery \/ FailDispatch \/ BlockDispatch
  PROVE  /\ \E end \in End : Closes(task, task', end) /\ Settles(task, task', end)
         /\ task.currentStage # "builder" => built' = built
         /\ \/ Judges(task, task') /\ built' = built
            \/ \E outcome \in Outcome \ {"fail"}, cause \in Cause : IngestVerdict(outcome, cause)
<1>1. CASE IngestStage
  <2>1. PICK outcome \in Outcome, cause \in Cause : IngestVerdict(outcome, cause)
    BY <1>1 DEF IngestStage
  <2>2. CASE outcome = "fail"
    BY <2>1, <2>2, RejectionCloses DEF End
  <2>3. CASE outcome # "fail"
    BY <2>1, <2>3, VerdictCloses DEF End
  <2>4. QED
    BY <2>2, <2>3
<1>2. CASE IngestInfraFailure
  <2>1. /\ Working(task) /\ Placed(task) /\ task.dispatch.stage = task.currentStage
        /\ task.dispatch.status # "none" /\ task.dispatch.id.phase = "stage" /\ built' = built
    BY <1>2, OutstandingFacts DEF IngestInfraFailure, Outstanding
  <2>2. {"infra", "seat"} \subseteq End /\ {"infra", "other"} \subseteq Cause
    BY DEF End, Cause
  <2>3. CASE task' = RecordSeatPause(task)
    BY <2>1, <2>2, <2>3, SeatPauseCloses
  <2>4. ASSUME NEW cause \in {"infra", "other"},
               LET stage    == task.dispatch.stage
                   finished == CloseDispatch(CompleteStage(task, stage, "fail", cause), "infra")
               IN task' = RouteOrRecover(finished, stage, FailureTarget(finished, stage), "project")
        PROVE  Closes(task, task', "infra") /\ Judges(task, task') /\ Settles(task, task', "infra")
    BY <2>1, <2>2, <2>4, RejectCloses
  <2>5. QED
    BY <1>2, <2>1, <2>2, <2>3, <2>4 DEF IngestInfraFailure
<1>3. CASE IngestRecovery
  <2>1. PICK outcome \in Outcome :
          task' = CloseDispatch(RecordRecoveryResult(task, AsPass(outcome)), outcome)
    BY <1>3 DEF IngestRecovery, IngestRepair
  <2>2. /\ Repairing(task) /\ task.dispatch.stage = task.currentStage
        /\ task.dispatch.status # "none" /\ task.blocker = NoBlocker /\ built' = built
    BY <1>3, OutstandingFacts DEF IngestRecovery, IngestRepair, Outstanding, Calm
  <2>3. outcome \in End
    BY DEF End
  <2>4. QED
    BY <2>1, <2>2, <2>3, RecoveryCloses
<1>4. CASE FailDispatch
  BY <1>4, FailCloses DEF FailDispatch, End
<1>5. CASE BlockDispatch
  BY <1>5, BlockCloses DEF BlockDispatch, End
<1>6. QED
  BY <1>1, <1>2, <1>3, <1>4, <1>5

-----------------------------------------------------------------------------
(* The four shapes of a step                                               *)

Prepares(s, r) ==
  /\ s.status = "active" /\ s.dispatch.status = "none"
  /\ UsesOf(s, DispatchId(s)) = {}
  /\ r.dispatch = [id |-> DispatchId(s), stage |-> s.currentStage, status |-> "ready"]
  /\ r.dispatches = s.dispatches /\ r.recovery = s.recovery
  /\ r.blocker = s.blocker /\ r.status = s.status /\ r.approved = s.approved

Marks(s, r) ==
  /\ s.dispatch.status # "none"
  /\ r.dispatch = [s.dispatch EXCEPT !.status = "running"]
  /\ r.dispatches = s.dispatches /\ r.recovery = s.recovery
  /\ r.blocker = s.blocker /\ r.status = s.status /\ r.approved = s.approved

Shaped(s, r) ==
  \/ Prepares(s, r)
  \/ Marks(s, r)
  \/ \E end \in End : Closes(s, r, end)
  \/ Revives(s, r)

\* A step that is no stage verdict judges nothing; every step has one of the shapes.
LEMMA StepShaped ==
  ASSUME IInv, Calm(task), [Next]_vars
  PROVE  /\ Shaped(task, task')
         /\ \/ Judges(task, task') /\ built' = built
            \/ \E outcome \in Outcome \ {"fail"}, cause \in Cause : IngestVerdict(outcome, cause)
<1> DEFINE Silent == Judges(task, task') /\ built' = built
<1>1. task \in Task
  BY DEF IInv, Core
<1>2. CASE PrepareDispatch
  <2> DEFINE d == [id |-> DispatchId(task), stage |-> DispatchStage(task), status |-> "ready"]
  <2>1. DispatchStage(task) = task.currentStage
    BY <1>2 DEF PrepareDispatch, DispatchStage, IInv, Core, Anchored
  <2>2. task' = [task EXCEPT !.dispatch = d] /\ built' = built
    BY <1>2 DEF PrepareDispatch
  <2>3. d = [id |-> DispatchId(task), stage |-> task.currentStage, status |-> "ready"]
    BY <2>1
  <2> HIDE DEF d
  <2>4. /\ task'.dispatch = d /\ task'.dispatches = task.dispatches
        /\ task'.recovery = task.recovery /\ task'.blocker = task.blocker
        /\ task'.status = task.status /\ task'.approved = task.approved
        /\ task'.verifiedCommit = task.verifiedCommit
    BY <1>1, <2>2 DEF Task
  <2>5. Prepares(task, task') /\ Silent
    BY <1>2, <2>2, <2>3, <2>4 DEF PrepareDispatch, Prepares, Judges
  <2>6. QED
    BY <2>5 DEF Shaped
<1>3. CASE MarkDispatchRunning
  <2> DEFINE d == [task.dispatch EXCEPT !.status = "running"]
  <2>1. task' = [task EXCEPT !.dispatch = d] /\ built' = built
    BY <1>1, <1>3 DEF MarkDispatchRunning, Task
  <2> HIDE DEF d
  <2>2. /\ task'.dispatch = d /\ task'.dispatches = task.dispatches
        /\ task'.recovery = task.recovery /\ task'.blocker = task.blocker
        /\ task'.status = task.status /\ task'.approved = task.approved
        /\ task'.verifiedCommit = task.verifiedCommit
    BY <1>1, <2>1 DEF Task
  <2>3. Marks(task, task') /\ Silent
    BY <1>3, <2>1, <2>2 DEF MarkDispatchRunning, Marks, Judges, d
  <2>4. QED
    BY <2>3 DEF Shaped
<1>4. CASE IngestStage \/ IngestInfraFailure \/ IngestRecovery \/ FailDispatch \/ BlockDispatch
  BY <1>4, EngineCloses DEF Shaped
<1>5. CASE RunnerCrash
  BY <1>5, CrashRevives DEF Shaped, RunnerCrash
<1>6. CASE FounderResume
  BY <1>6, PlainResumeRevives DEF Shaped, FounderResume
<1>7. CASE ResolveFounderDecision
  BY <1>7, PlainResumeRevives DEF Shaped, ResolveFounderDecision
<1>8. CASE RecordFounderApproval
  BY <1>8, ApprovalRevives DEF Shaped, RecordFounderApproval
<1>9. CASE SweepBlocked
  BY <1>9, SweepRevives DEF Shaped, SweepBlocked
<1>10. CASE SweepOrphan
  <2>1. PICK n : n = DropOrphan(task).autoRetries + 1
    OBVIOUS
  <2>2. task' = [DropOrphan(task) EXCEPT !.autoRetries = n] /\ built' = built
    BY <1>10, <2>1 DEF SweepOrphan
  <2>3. task.status = "active" /\ "lost" \in End
    BY <1>10 DEF SweepOrphan, End
  <2>4. QED
    BY <2>2, <2>3, OrphanDropped DEF Shaped
<1>11. CASE RecoverOrphanNode
  <2>1. task' = DropOrphan(task) /\ built' = built /\ task.status = "active" /\ "lost" \in End
    BY <1>11 DEF RecoverOrphanNode, End
  <2>2. QED
    BY <2>1, OrphanDropped DEF Shaped
<1>12. CASE NewCommit \/ UNCHANGED vars
  <2>1. task' = task /\ built' = built
    BY <1>12 DEF NewCommit, vars
  <2>2. QED
    BY <2>1 DEF Shaped, Revives, Judges
<1>13. QED
  BY <1>2, <1>3, <1>4, <1>5, <1>6, <1>7, <1>8, <1>9, <1>10, <1>11, <1>12
  DEF Next, Engine, Sweep, Founder

-----------------------------------------------------------------------------
(* Who has a stopped task, and what a seat pause costs                     *)

CalmInv == IInv /\ Calm(task)

LEMMA InitCalm == Init => CalmInv
BY InitEstablishes DEF Init, CalmInv, Calm, NoBlocker

LEMMA StepCalm == CalmInv /\ [Next]_vars => CalmInv'
<1> SUFFICES ASSUME CalmInv, [Next]_vars PROVE CalmInv'
  OBVIOUS
<1>1. IInv' /\ Shaped(task, task')
  BY StepPreserves, StepShaped DEF CalmInv
<1>2. Calm(task')
  BY <1>1 DEF CalmInv, Shaped, Prepares, Marks, Closes, Revives, Calm, Authorized
<1>3. QED
  BY <1>1, <1>2 DEF CalmInv

LEMMA AlwaysCalm == Spec => []CalmInv
BY InitCalm, StepCalm, PTL DEF Spec

\* A stopped task is the founder's or the sweep's, never both and never nobody's:
\* the inbox of buildFounderOverview and the sweep's classifyBlocker agree on every
\* blocker a command leaves behind.
THEOREM AlwaysSomebodys == Spec => []StoppedIsSomebodys
<1>1. ASSUME CalmInv PROVE StoppedIsSomebodys
  <2>1. /\ task.status \in {"active", "blocked", "merge-ready"}
        /\ task.blocker.outcome \in {"none", "fail", "decision-required", "paused-credits"}
    BY <1>1 DEF CalmInv, IInv, Core, Task, BlockerRecord
  <2>2. InboxKinds(task) # {} <=> IsDecision(task) \/ IsStop(task)
    BY DEF InboxKinds
  <2>3. ASSUME task.status = "blocked"
        PROVE  InboxKinds(task) = {} <=> Revivable(task, TRUE)
    <3>1. CASE task.blocker.outcome = "decision-required"
      BY <2>2, <2>3, <3>1 DEF IsDecision, Revivable, ClassifyBlocker
    <3>2. CASE task.blocker.outcome = "paused-credits"
      BY <1>1, <2>2, <2>3, <3>2
      DEF CalmInv, Calm, IsDecision, IsStop, Revivable, CanResume, ClassifyBlocker
    <3>3. CASE task.blocker.outcome = "fail"
      <4>1. task.blocker.founderAction
        BY <1>1, <2>3, <3>3 DEF CalmInv, IInv, Core, Waits
      <4>2. QED
        BY <2>2, <2>3, <3>3, <4>1 DEF IsStop, Revivable, ClassifyBlocker
    <3>4. QED
      BY <1>1, <2>1, <2>3, <3>1, <3>2, <3>3 DEF CalmInv, Calm
  <2>4. ASSUME NEW stale \in BOOLEAN, AutoRecovering(task, stale)
        PROVE  InboxKinds(task) = {}
    <3>1. CASE task.status = "active"
      BY <1>1, <2>2, <3>1 DEF CalmInv, Calm, NoBlocker, IsDecision, IsStop
    <3>2. CASE task.status = "blocked"
      <4>1. ClassifyBlocker(task.blocker) = "infra" /\ task.autoRetries < MaxRetries
        BY <2>4, <3>2 DEF AutoRecovering
      <4>2. ~(task.autoRetries >= MaxRetries)
        BY <1>1, <4>1, BudgetAssumption DEF CalmInv, IInv, Core, Task
      <4>3. QED
        BY <2>2, <4>1, <4>2 DEF IsDecision, IsStop, ClassifyBlocker
    <3>3. QED
      BY <2>4, <3>1, <3>2 DEF AutoRecovering
  <2>5. QED
    BY <2>3, <2>4 DEF StoppedIsSomebodys
<1>2. QED
  BY <1>1, AlwaysCalm, PTL

\* A dispatch parked on an exhausted seat is in neither budget.
LEMMA SeatUncounted ==
  ASSUME NEW s, s \in Task, NEW r, NEW d, d.end = "seat", r.dispatches = Append(s.dispatches, d),
         NEW stage, NEW ends, "seat" \notin ends
  PROVE  StageDispatches(r, stage, ends) = StageDispatches(s, stage, ends)
<1>1. s.dispatches \in Seq(DispatchRecord)
  BY DEF Task
<1>2. /\ DOMAIN s.dispatches = 1 .. Len(s.dispatches) /\ Len(s.dispatches) \in Nat
      /\ DOMAIN r.dispatches = 1 .. Len(s.dispatches) + 1
      /\ r.dispatches[Len(s.dispatches) + 1] = d
      /\ \A i \in 1 .. Len(s.dispatches) : r.dispatches[i] = s.dispatches[i]
  BY <1>1
<1>3. QED
  BY <1>2 DEF StageDispatches

\* "Nothing is charged": a seat pause, and the sweep's resume out of it, cost neither
\* a recovery attempt, nor a stage budget, nor a retry.
THEOREM SeatPausesAreFree == Spec => SeatPauseIsFree
<1> DEFINE Free == (task.blocker.outcome = "paused-credits") # (task'.blocker.outcome = "paused-credits") =>
       \/ task'.blocker.founderAction
       \/ /\ task'.recovery.attempts = task.recovery.attempts
          /\ task'.recovery.active = task.recovery.active
          /\ task'.autoRetries = task.autoRetries
          /\ \A t \in Stage : /\ VerdictCount(task', t) = VerdictCount(task, t)
                              /\ InfraCount(task', t) = InfraCount(task, t)
<1>1. ASSUME CalmInv, [Next]_vars PROVE [Free]_vars
  <2>1. Shaped(task, task') /\ task \in Task
    BY <1>1, StepShaped DEF CalmInv, IInv, Core
  <2>2. CASE task.blocker.outcome = "paused-credits"
    <3>1. task.status = "blocked" /\ task.dispatch.status = "none"
      BY <1>1, <2>2 DEF CalmInv, Calm, NoBlocker, IInv, Owned
    <3>2. Revives(task, task')
      BY <2>1, <3>1 DEF Shaped, Prepares, Marks, Closes
    <3>3. /\ task'.recovery = task.recovery /\ task'.autoRetries = task.autoRetries
          /\ task'.dispatches = task.dispatches
      BY <2>2, <3>2 DEF Revives
    <3>4. QED
      BY <3>3 DEF VerdictCount, InfraCount, StageDispatches
  <2>3. CASE task.blocker.outcome # "paused-credits" /\ task'.blocker.outcome = "paused-credits"
    <3>1. PICK end \in End : Closes(task, task', end)
      BY <2>1, <2>3 DEF Shaped, Prepares, Marks, Revives
    <3>2. /\ end = "seat" /\ task'.recovery = task.recovery
          /\ task'.autoRetries = task.autoRetries
      BY <2>3, <3>1 DEF Closes
    <3>3. PICK d : d = [id |-> task.dispatch.id, stage |-> task.dispatch.stage, end |-> end]
      OBVIOUS
    <3>4. task'.dispatches = Append(task.dispatches, d) /\ d.end = "seat"
      BY <3>1, <3>2, <3>3 DEF Closes
    <3>5. ASSUME NEW t, NEW ends, "seat" \notin ends
          PROVE  StageDispatches(task', t, ends) = StageDispatches(task, t, ends)
      <4>1. PICK s, r : s = task /\ r = task'
        OBVIOUS
      <4>2. s \in Task /\ r.dispatches = Append(s.dispatches, d) /\ d.end = "seat"
        BY <2>1, <3>4, <4>1
      <4>3. StageDispatches(r, t, ends) = StageDispatches(s, t, ends)
        BY <3>5, <4>2, SeatUncounted
      <4>4. QED
        BY <4>1, <4>3
    <3>6. "seat" \notin {"lost", "infra"} /\ "seat" \notin Outcome \ SUCCESS_OUTCOMES
      BY DEF Outcome
    <3>7. ASSUME NEW t \in Stage
          PROVE  /\ VerdictCount(task', t) = VerdictCount(task, t)
                 /\ InfraCount(task', t) = InfraCount(task, t)
      <4>1. StageDispatches(task', t, {"lost", "infra"}) =
              StageDispatches(task, t, {"lost", "infra"})
        BY <3>5, <3>6
      <4>2. StageDispatches(task', t, Outcome \ SUCCESS_OUTCOMES) =
              StageDispatches(task, t, Outcome \ SUCCESS_OUTCOMES)
        BY <3>5, <3>6
      <4>3. QED
        BY <4>1, <4>2 DEF VerdictCount, InfraCount
    <3>8. QED
      BY <3>2, <3>7
  <2>4. QED
    BY <2>2, <2>3
<1>2. QED
  BY <1>1, AlwaysCalm, PTL DEF Spec, SeatPauseIsFree

-----------------------------------------------------------------------------
(* What is released                                                        *)

\* With a readable HEAD the frozen commit is the one the builder last left.
FrozenInv == CalmInv /\ task.verifiedCommit = built

\* The task becomes merge-ready only on the tree the builder last left, with every
\* gate's manifest bound to it, provided HEAD can be read (assertReleaseReady skips
\* the comparison when it cannot).
THEOREM ReleasesAreReviewed ==
  ASSUME HeadReadable
  PROVE  Spec => ReleasesReviewedTree
<1> DEFINE Released == task'.status = "merge-ready" /\ task.status # "merge-ready" =>
       /\ head = built
       /\ task'.verifiedCommit = built
       /\ \A t \in Stage \cap PROVING_STAGES : task'.stages[t].commit = built
<1>1. Init => FrozenInv
  BY InitCalm DEF Init, FrozenInv
<1>2. ASSUME FrozenInv, [Next]_vars PROVE FrozenInv' /\ [Released]_vars
  <2>1. CalmInv'
    BY <1>2, StepCalm DEF FrozenInv
  <2>2. CASE Judges(task, task') /\ built' = built
    BY <1>2, <2>1, <2>2 DEF FrozenInv, Judges
  <2>3. CASE \E outcome \in Outcome \ {"fail"}, cause \in Cause : IngestVerdict(outcome, cause)
    <3>1. /\ \/ task'.verifiedCommit = task.verifiedCommit /\ built' = built
             \/ task'.verifiedCommit = built'
          /\ task'.status = "merge-ready" =>
               /\ head = task.verifiedCommit
               /\ task'.verifiedCommit = task.verifiedCommit
               /\ \A t \in Stage \cap PROVING_STAGES :
                    task'.stages[t].commit = task'.verifiedCommit
      BY <1>2, <2>3, VerdictCloses DEF FrozenInv, CalmInv
    <3>2. QED
      BY <1>2, <2>1, <3>1 DEF FrozenInv
  <2>4. QED
    BY <1>2, <2>2, <2>3, StepShaped DEF FrozenInv, CalmInv
<1>3. QED
  BY <1>1, <1>2, PTL DEF Spec, ReleasesReviewedTree

-----------------------------------------------------------------------------
(* Repair is bounded                                                       *)

IncidentAttempts(s, k) ==
  {i \in DOMAIN s.recovery.attempts : s.recovery.attempts[i].incident = k}

\* No attempt belongs to an incident yet to come, so a new incident starts with none;
\* that is what keeps the count of every incident, and not just of the open one, bounded.
Bounded(s) ==
  /\ Len(s.recovery.attempts) <= 3 * MaxRecovery
  /\ \A i \in 1 .. Len(s.recovery.attempts) :
       s.recovery.attempts[i].incident <= s.recovery.incident
  /\ \A k \in Nat : Cardinality(IncidentAttempts(s, k)) <= MaxRecovery

LEMMA AttemptsFacts ==
  ASSUME NEW s, s \in Task
  PROVE  /\ Len(s.recovery.attempts) \in Nat /\ s.recovery.incident \in Nat
         /\ DOMAIN s.recovery.attempts = 1 .. Len(s.recovery.attempts)
         /\ \A i \in 1 .. Len(s.recovery.attempts) : s.recovery.attempts[i].incident \in Nat
         /\ \A k : IsFiniteSet(IncidentAttempts(s, k))
<1>1. /\ Len(s.recovery.attempts) \in Nat /\ s.recovery.incident \in Nat
      /\ DOMAIN s.recovery.attempts = 1 .. Len(s.recovery.attempts)
      /\ s.recovery.attempts \in Seq(Attempt)
  BY RecoveryTyped
<1>2. \A i \in 1 .. Len(s.recovery.attempts) : s.recovery.attempts[i] \in Attempt
  BY <1>1
<1>3. ASSUME NEW k PROVE IsFiniteSet(IncidentAttempts(s, k))
  <2>1. IncidentAttempts(s, k) \in SUBSET (1 .. Len(s.recovery.attempts))
    BY <1>1 DEF IncidentAttempts
  <2>2. IsFiniteSet(1 .. Len(s.recovery.attempts))
    BY <1>1, FS_Interval
  <2>3. QED
    BY <2>1, <2>2, FS_Subset
<1>4. QED
  BY <1>1, <1>2, <1>3 DEF Attempt

\* With the same incidents of the same attempts, every count stays what it was.
LEMMA KeptBounded ==
  ASSUME NEW s, NEW r, s \in Task, r \in Task, Bounded(s), IncidentsKept(s, r),
         Len(r.recovery.attempts) = Len(s.recovery.attempts),
         r.recovery.incident \in {s.recovery.incident, s.recovery.incident + 1}
  PROVE  Bounded(r)
<1>1. \A k : IncidentAttempts(r, k) = IncidentAttempts(s, k)
  BY AttemptsFacts DEF IncidentAttempts, IncidentsKept
<1>2. ASSUME NEW i \in 1 .. Len(r.recovery.attempts)
      PROVE  r.recovery.attempts[i].incident <= r.recovery.incident
  <2>1. i \in 1 .. Len(s.recovery.attempts)
    OBVIOUS
  <2>2. /\ r.recovery.attempts[i].incident = s.recovery.attempts[i].incident
        /\ s.recovery.attempts[i].incident <= s.recovery.incident
    BY <2>1 DEF Bounded, IncidentsKept
  <2>3. s.recovery.attempts[i].incident \in Nat /\ s.recovery.incident \in Nat
    BY <2>1, AttemptsFacts
  <2>4. QED
    BY <2>2, <2>3
<1>3. \A k \in Nat : Cardinality(IncidentAttempts(r, k)) <= MaxRecovery
  BY <1>1 DEF Bounded
<1>4. QED
  BY <1>2, <1>3 DEF Bounded

\* An attempt opened within the budget.
LEMMA OpenedBounded ==
  ASSUME NEW s, NEW r, s \in Task, r \in Task, Bounded(s), RecoveryBudgetLeft(s), Opens(s, r)
  PROVE  Bounded(r)
<1> DEFINE L == Len(s.recovery.attempts)
           c == s.recovery.incident
<1>1. /\ L \in Nat /\ c \in Nat /\ Len(r.recovery.attempts) = L + 1
      /\ r.recovery.incident = c
      /\ DOMAIN s.recovery.attempts = 1 .. L /\ DOMAIN r.recovery.attempts = 1 .. L + 1
      /\ r.recovery.attempts[L + 1].incident = c
      /\ \A i \in 1 .. L : r.recovery.attempts[i].incident = s.recovery.attempts[i].incident
  BY AttemptsFacts DEF Opens, IncidentsKept
<1>2. L < 3 * MaxRecovery /\ MaxRecovery \in Nat
  BY BudgetAssumption DEF RecoveryBudgetLeft
<1>3. Cardinality(IncidentAttempts(s, c)) < MaxRecovery
  BY DEF RecoveryBudgetLeft, OpenIncidentAttempts, IncidentAttempts
<1> HIDE DEF L, c
<1>4. \A k : k # c => IncidentAttempts(r, k) = IncidentAttempts(s, k)
  BY <1>1 DEF IncidentAttempts
<1>5. /\ IncidentAttempts(r, c) = IncidentAttempts(s, c) \cup {L + 1}
      /\ L + 1 \notin IncidentAttempts(s, c)
  BY <1>1 DEF IncidentAttempts
<1>6. Cardinality(IncidentAttempts(r, c)) = Cardinality(IncidentAttempts(s, c)) + 1
  BY <1>5, AttemptsFacts, FS_AddElement
<1>7. Cardinality(IncidentAttempts(s, c)) \in Nat
  BY AttemptsFacts, FS_CardinalityType
<1>8. \A k \in Nat : Cardinality(IncidentAttempts(r, k)) <= MaxRecovery
  <2> TAKE k \in Nat
  <2>1. CASE k = c
    BY <1>2, <1>3, <1>6, <1>7, <2>1
  <2>2. CASE k # c
    BY <1>4, <2>2 DEF Bounded
  <2>3. QED
    BY <2>1, <2>2
<1>9. \A i \in 1 .. L + 1 : r.recovery.attempts[i].incident <= c
  <2>1. \A i \in 1 .. L : s.recovery.attempts[i].incident <= c
    BY DEF Bounded, L, c
  <2>2. \A i \in 1 .. L : r.recovery.attempts[i].incident <= c
    BY <1>1, <2>1
  <2>3. \A i \in 1 .. L + 1 : i \in 1 .. L \/ i = L + 1
    BY <1>1
  <2>4. QED
    BY <1>1, <2>2, <2>3
<1>10. L + 1 <= 3 * MaxRecovery
  BY <1>1, <1>2
<1>11. QED
  BY <1>1, <1>8, <1>9, <1>10 DEF Bounded

BoundedInv == CalmInv /\ Bounded(task)

LEMMA InitBounded == Init => BoundedInv
<1> SUFFICES ASSUME Init PROVE Bounded(task)
  BY InitCalm DEF BoundedInv
<1>1. task.recovery.attempts = <<>>
  BY DEF Init
<1>2. \A k : IncidentAttempts(task, k) = {}
  BY <1>1 DEF IncidentAttempts
<1>3. \A k : Cardinality(IncidentAttempts(task, k)) = 0
  BY <1>2, FS_EmptySet, Zenon
<1>4. MaxRecovery \in Nat
  BY BudgetAssumption
<1>5. Len(task.recovery.attempts) = 0
  BY <1>1
<1>6. QED
  BY <1>3, <1>4, <1>5 DEF Bounded

LEMMA StepBounded == BoundedInv /\ [Next]_vars => BoundedInv'
<1> SUFFICES ASSUME BoundedInv, [Next]_vars PROVE Bounded(task')
  BY StepCalm DEF BoundedInv
<1>1. Shaped(task, task') /\ task \in Task /\ CalmInv'
  BY StepShaped, StepCalm DEF BoundedInv, CalmInv, IInv, Core
<1>2. PICK s, r : s = task /\ r = task'
  OBVIOUS
<1>3. s \in Task /\ r \in Task /\ Bounded(s)
  BY <1>1, <1>2 DEF BoundedInv, CalmInv, IInv, Core
<1>4. r.recovery = s.recovery \/ Moves(s, r)
  BY <1>1, <1>2 DEF Shaped, Prepares, Marks, Closes, Revives, Moves
<1> SUFFICES Bounded(r)
  BY <1>2
<1>5. CASE r.recovery = s.recovery
  BY <1>3, <1>5 DEF Bounded, IncidentAttempts
<1>6. CASE RecoveryBudgetLeft(s) /\ Opens(s, r)
  BY <1>3, <1>6, OpenedBounded
<1>7. CASE Rests(s, r)
  <2>1. /\ IncidentsKept(s, r) /\ Len(r.recovery.attempts) = Len(s.recovery.attempts)
        /\ r.recovery.incident \in {s.recovery.incident, s.recovery.incident + 1}
    BY <1>7 DEF Rests
  <2>2. QED
    BY <1>3, <2>1, KeptBounded
<1>8. CASE Proceeds(s, r)
  <2>1. r.recovery.attempts = s.recovery.attempts /\ r.recovery.incident = s.recovery.incident
    BY <1>8 DEF Proceeds
  <2>2. QED
    BY <1>3, <2>1, KeptBounded DEF IncidentsKept
<1>9. Bounded(r)
  BY <1>4, <1>5, <1>6, <1>7, <1>8 DEF Moves
<1>10. QED
  BY <1>2, <1>9

\* Automated repair ends: no incident gets more attempts than its budget, and no task
\* more than the ceiling, however many incidents resumes and verified repairs close.
THEOREM RepairIsBounded == Spec => []RecoveryBounded
<1>1. ASSUME BoundedInv PROVE RecoveryBounded
  <2>1. \A k \in 1 .. task.recovery.incident : k \in Nat
    BY <1>1, AttemptsFacts DEF BoundedInv, CalmInv, IInv, Core
  <2>2. QED
    BY <1>1, <2>1 DEF BoundedInv, Bounded, RecoveryBounded, IncidentAttempts
<1>2. QED
  BY <1>1, InitBounded, StepBounded, PTL DEF Spec

-----------------------------------------------------------------------------
(* No dispatch id is used twice                                            *)

StageCount(s, stage) == Cardinality(StageDispatches(s, stage, End))
Answered(end) == end \notin {"lost", "seat"}

Distinct(s) ==
  \A i, j \in 1 .. Len(s.dispatches) : s.dispatches[i].id = s.dispatches[j].id => i = j

\* An id on the record is no later than the next of its kind.  The attempt under way has
\* no answer on the record yet, except its diagnosis once it is to be verified.
Dated(s, d) ==
  /\ d.id.phase = "stage" => d.id.stage = d.stage /\ d.id.n <= StageCount(s, d.stage)
  /\ d.id.phase # "stage" =>
       /\ d.id.n <= Len(s.recovery.attempts)
       /\ /\ d.id.n = Len(s.recovery.attempts)
          /\ Answered(d.end)
          /\ s.recovery.active.phase # "none"
          => d.id.phase = "diagnose" /\ s.recovery.active.phase = "verify"

\* The dispatch that is out is the next of its kind.
OutIsNext(s) ==
  s.dispatch.status # "none" =>
    /\ UsesOf(s, s.dispatch.id) = {}
    /\ s.dispatch.id.phase = "stage" =>
         /\ s.dispatch.id.stage = s.dispatch.stage
         /\ s.dispatch.id.n = StageCount(s, s.dispatch.stage) + 1
    /\ s.dispatch.id.phase # "stage" => s.dispatch.id.n = Len(s.recovery.attempts)

Ids(s) ==
  /\ Distinct(s)
  /\ \A i \in 1 .. Len(s.dispatches) : Dated(s, s.dispatches[i])
  /\ OutIsNext(s)

LEMMA RecordFacts ==
  ASSUME NEW s, s \in Task
  PROVE  /\ Len(s.dispatches) \in Nat
         /\ DOMAIN s.dispatches = 1 .. Len(s.dispatches)
         /\ \A i \in 1 .. Len(s.dispatches) : s.dispatches[i] \in DispatchRecord
         /\ \A i \in 1 .. Len(s.dispatches) : s.dispatches[i].id.n \in Nat
<1>1. s.dispatches \in Seq(DispatchRecord)
  BY DEF Task
<1>2. \A i \in 1 .. Len(s.dispatches) : s.dispatches[i] \in DispatchRecord
  BY <1>1
<1>3. \A d \in DispatchRecord : d.id.n \in Nat
  BY DEF DispatchRecord, Id
<1>4. QED
  BY <1>1, <1>2, <1>3

\* The next id counts the stage's dispatches, or the attempts.
LEMMA DispatchIdNumber ==
  ASSUME NEW s, s \in Task, s.currentStage \in Stage, Anchored(s)
  PROVE  /\ s.recovery.active.phase = "none" =>
              /\ DispatchId(s).phase = "stage" /\ DispatchId(s).stage = s.currentStage
              /\ DispatchId(s).n = StageCount(s, s.currentStage) + 1
         /\ s.recovery.active.phase # "none" =>
              /\ DispatchId(s).phase = s.recovery.active.phase
              /\ DispatchId(s).phase # "stage"
              /\ DispatchId(s).n = Len(s.recovery.attempts)
<1>1. CASE s.recovery.active.phase = "none"
  BY <1>1 DEF DispatchId, StageCount
<1>2. CASE s.recovery.active.phase # "none"
  <2>1. \E n : DispatchId(s) = [phase |-> s.recovery.active.phase, stage |-> NoStage,
                                n |-> s.recovery.active.ordinal, re |-> n]
    BY <1>2, Zenon DEF DispatchId
  <2>2. /\ DispatchId(s).phase = s.recovery.active.phase
        /\ DispatchId(s).n = s.recovery.active.ordinal
    BY <2>1
  <2>3. s.recovery.active.phase # "stage"
    BY RecoveryTyped DEF ActiveRecovery
  <2>4. QED
    BY <1>2, <2>2, <2>3 DEF Anchored
<1>3. QED
  BY <1>1, <1>2

\* One more record counts once, where it belongs.
LEMMA DispatchesAppend ==
  ASSUME NEW s, s \in Task, NEW r, NEW d, r.dispatches = Append(s.dispatches, d),
         NEW stage, NEW ends
  PROVE  Cardinality(StageDispatches(r, stage, ends)) =
           Cardinality(StageDispatches(s, stage, ends)) +
             (IF d.id.phase = "stage" /\ d.stage = stage /\ d.end \in ends THEN 1 ELSE 0)
<1> DEFINE L == Len(s.dispatches)
           A == StageDispatches(s, stage, ends)
           Counts == d.id.phase = "stage" /\ d.stage = stage /\ d.end \in ends
<1>1. /\ DOMAIN s.dispatches = 1 .. L /\ L \in Nat
      /\ DOMAIN r.dispatches = 1 .. L + 1
      /\ r.dispatches[L + 1] = d
      /\ \A i \in 1 .. L : r.dispatches[i] = s.dispatches[i]
  <2>1. s.dispatches \in Seq(DispatchRecord)
    BY DEF Task
  <2>2. QED
    BY <2>1
<1>2. A \in SUBSET (1 .. L) /\ L + 1 \notin A
  BY <1>1 DEF StageDispatches
<1>3. IsFiniteSet(A) /\ Cardinality(A) \in Nat
  <2>1. IsFiniteSet(1 .. L)
    BY <1>1, FS_Interval
  <2> HIDE DEF A, L
  <2>2. QED
    BY <1>2, <2>1, FS_Subset, FS_CardinalityType
<1> HIDE DEF L
<1>4. CASE Counts
  <2>1. StageDispatches(r, stage, ends) = A \cup {L + 1}
    BY <1>1, <1>4 DEF StageDispatches
  <2> HIDE DEF A
  <2>2. Cardinality(A \cup {L + 1}) = Cardinality(A) + 1
    BY <1>2, <1>3, FS_AddElement
  <2>3. QED
    BY <1>4, <2>1, <2>2 DEF A
<1>5. CASE ~Counts
  <2>1. StageDispatches(r, stage, ends) = A
    BY <1>1, <1>5 DEF StageDispatches
  <2> HIDE DEF A
  <2>2. QED
    BY <1>3, <1>5, <2>1 DEF A
<1>6. QED
  BY <1>4, <1>5

LEMMA StageCountAppend ==
  ASSUME NEW s, s \in Task, NEW r, NEW d, r.dispatches = Append(s.dispatches, d),
         d.end \in End, NEW stage
  PROVE  /\ StageCount(s, stage) \in Nat
         /\ StageCount(r, stage) = StageCount(s, stage) +
              (IF d.id.phase = "stage" /\ d.stage = stage THEN 1 ELSE 0)
<1>1. StageCount(s, stage) \in Nat
  BY CountTyped DEF StageCount
<1>2. Cardinality(StageDispatches(r, stage, End)) =
        Cardinality(StageDispatches(s, stage, End)) +
          (IF d.id.phase = "stage" /\ d.stage = stage /\ d.end \in End THEN 1 ELSE 0)
  BY DispatchesAppend
<1>3. QED
  BY <1>1, <1>2 DEF StageCount

\* The record, the counts of its stages and the attempts are what they were; an attempt
\* under way, if there is one, is the one that was.
LEMMA StandingDated ==
  ASSUME NEW s, NEW r, NEW d, Dated(s, d), r.dispatches = s.dispatches,
         r.recovery = s.recovery \/ Rests(s, r)
  PROVE  Dated(r, d)
<1>1. \A t : StageCount(r, t) = StageCount(s, t)
  BY DEF StageCount, StageDispatches
<1>2. CASE r.recovery = s.recovery
  BY <1>1, <1>2 DEF Dated
<1>3. CASE Rests(s, r)
  BY <1>1, <1>3 DEF Dated, Rests
<1>4. QED
  BY <1>2, <1>3

LEMMA ClosedDated ==
  ASSUME NEW s, s \in Task, NEW r, NEW d, NEW end \in End, Closes(s, r, end),
         d \in DispatchRecord, Dated(s, d)
  PROVE  Dated(r, d)
<1> DEFINE c == [id |-> s.dispatch.id, stage |-> s.dispatch.stage, end |-> end]
<1>1. r.dispatches = Append(s.dispatches, c) /\ c.end \in End
  BY DEF Closes
<1> HIDE DEF c
<1>2. \A t : /\ StageCount(s, t) \in Nat
             /\ StageCount(r, t) \in {StageCount(s, t), StageCount(s, t) + 1}
  BY <1>1, StageCountAppend
<1>3. d.id.n \in Nat /\ Len(s.recovery.attempts) \in Nat
  BY AttemptsFacts DEF DispatchRecord, Id
<1>4. r.recovery = s.recovery \/ Moves(s, r)
  BY DEF Closes
<1>5. ASSUME d.id.phase = "stage"
      PROVE  d.id.stage = d.stage /\ d.id.n <= StageCount(r, d.stage)
  <2>1. d.id.stage = d.stage /\ d.id.n <= StageCount(s, d.stage)
    BY <1>5 DEF Dated
  <2>2. QED
    BY <1>2, <1>3, <2>1
<1>6. ASSUME d.id.phase # "stage" PROVE Dated(r, d)
  <2>1. /\ d.id.n <= Len(s.recovery.attempts)
        /\ d.id.n = Len(s.recovery.attempts) /\ Answered(d.end)
             /\ s.recovery.active.phase # "none" =>
           d.id.phase = "diagnose" /\ s.recovery.active.phase = "verify"
    BY <1>6 DEF Dated
  <2>2. CASE r.recovery = s.recovery
    BY <1>6, <2>1, <2>2 DEF Dated
  <2>3. CASE Opens(s, r)
    <3>1. Len(r.recovery.attempts) = Len(s.recovery.attempts) + 1
      BY <2>3 DEF Opens
    <3>2. d.id.n <= Len(r.recovery.attempts) /\ d.id.n # Len(r.recovery.attempts)
      BY <1>3, <2>1, <3>1
    <3>3. QED
      BY <1>6, <3>2 DEF Dated
  <2>4. CASE Rests(s, r)
    <3>1. Len(r.recovery.attempts) = Len(s.recovery.attempts)
          /\ r.recovery.active.phase = "none"
      BY <2>4 DEF Rests
    <3>2. QED
      BY <1>6, <2>1, <3>1 DEF Dated
  <2>5. CASE Proceeds(s, r)
    <3>1. /\ r.recovery.attempts = s.recovery.attempts
          /\ s.recovery.active.phase = "diagnose" /\ r.recovery.active.phase = "verify"
      BY <2>5 DEF Proceeds
    <3>2. ~(d.id.n = Len(s.recovery.attempts) /\ Answered(d.end))
      BY <2>1, <3>1
    <3>3. QED
      BY <1>6, <2>1, <3>1, <3>2 DEF Dated
  <2>6. QED
    BY <1>4, <2>2, <2>3, <2>4, <2>5 DEF Moves
<1>7. QED
  BY <1>5, <1>6 DEF Dated

\* What the closed dispatch leaves on the record.
LEMMA JustClosedDated ==
  ASSUME NEW s, s \in Task, Owned(s), OutIsNext(s), NEW r, NEW end \in End, Closes(s, r, end)
  PROVE  Dated(r, [id |-> s.dispatch.id, stage |-> s.dispatch.stage, end |-> end])
<1> DEFINE d == [id |-> s.dispatch.id, stage |-> s.dispatch.stage, end |-> end]
<1>1. /\ r.dispatches = Append(s.dispatches, d) /\ s.dispatch.status # "none"
      /\ d.id = s.dispatch.id /\ d.stage = s.dispatch.stage /\ d.end = end
  BY DEF Closes
<1>2. s.dispatch.id.phase = IF s.recovery.active.phase = "none" THEN "stage"
                            ELSE s.recovery.active.phase
  BY <1>1 DEF Owned
<1> HIDE DEF d
<1>3. ASSUME d.id.phase = "stage"
      PROVE  d.id.stage = d.stage /\ d.id.n <= StageCount(r, d.stage)
  <2>1. d.id.stage = d.stage /\ d.id.n = StageCount(s, d.stage) + 1
    BY <1>1, <1>3 DEF OutIsNext
  <2>2. StageCount(s, d.stage) \in Nat /\ StageCount(r, d.stage) = StageCount(s, d.stage) + 1
    BY <1>1, <1>3, StageCountAppend, SMTT(20)
  <2>3. QED
    BY <2>1, <2>2
<1>4. ASSUME d.id.phase # "stage" PROVE Dated(r, d)
  <2>1. d.id.n = Len(s.recovery.attempts) /\ Len(s.recovery.attempts) \in Nat
    BY <1>1, <1>4, AttemptsFacts DEF OutIsNext
  <2>2. d.id.phase = s.recovery.active.phase /\ s.recovery.active.phase # "none"
    BY <1>1, <1>2, <1>4
  <2>3. Answered(end) => Moves(s, r)
    BY <1>1, <1>4 DEF Closes, Answered
  <2>4. CASE Opens(s, r)
    <3>1. Len(r.recovery.attempts) = Len(s.recovery.attempts) + 1
      BY <2>4 DEF Opens
    <3>2. d.id.n <= Len(r.recovery.attempts) /\ d.id.n # Len(r.recovery.attempts)
      BY <2>1, <3>1
    <3>3. QED
      BY <1>4, <3>2 DEF Dated
  <2>5. CASE Rests(s, r)
    <3>1. /\ Len(r.recovery.attempts) = Len(s.recovery.attempts)
          /\ r.recovery.active.phase = "none"
      BY <2>5 DEF Rests
    <3>2. QED
      BY <1>4, <2>1, <3>1 DEF Dated
  <2>6. CASE Proceeds(s, r)
    <3>1. /\ r.recovery.attempts = s.recovery.attempts
          /\ s.recovery.active.phase = "diagnose" /\ r.recovery.active.phase = "verify"
      BY <2>6 DEF Proceeds
    <3>2. QED
      BY <1>4, <2>1, <2>2, <3>1 DEF Dated
  <2>7. CASE r.recovery = s.recovery /\ ~Answered(end)
    BY <1>1, <1>4, <2>1, <2>7 DEF Dated
  <2>8. QED
    BY <2>3, <2>4, <2>5, <2>6, <2>7 DEF Moves, Closes
<1>5. Dated(r, d)
  BY <1>3, <1>4 DEF Dated
<1>6. QED
  BY <1>5 DEF d

LEMMA ClosedIds ==
  ASSUME NEW s, s \in Task, Owned(s), Ids(s), NEW r, NEW end \in End, Closes(s, r, end)
  PROVE  Ids(r)
<1> DEFINE d == [id |-> s.dispatch.id, stage |-> s.dispatch.stage, end |-> end]
           L == Len(s.dispatches)
<1>1. /\ s.dispatch.status # "none" /\ r.dispatches = Append(s.dispatches, d)
      /\ r.dispatch = NoDispatch /\ d.id = s.dispatch.id
  BY DEF Closes
<1>2. Dated(r, d)
  BY JustClosedDated DEF Ids
<1> HIDE DEF d
<1>3. /\ L \in Nat /\ s.dispatches \in Seq(DispatchRecord)
      /\ DOMAIN s.dispatches = 1 .. L
      /\ \A i \in 1 .. L : s.dispatches[i] \in DispatchRecord
  BY RecordFacts DEF Task
<1>4. /\ Len(r.dispatches) = L + 1 /\ r.dispatches[L + 1] = d
      /\ \A i \in 1 .. L : r.dispatches[i] = s.dispatches[i]
  BY <1>1, <1>3
<1>5. \A i \in 1 .. L : s.dispatches[i].id # d.id
  BY <1>1, <1>3 DEF Ids, OutIsNext, UsesOf
<1>6. \A i \in 1 .. L : Dated(r, s.dispatches[i])
  BY <1>3, ClosedDated DEF Ids
<1> HIDE DEF L
<1>7. \A i \in 1 .. L + 1 : i \in 1 .. L \/ i = L + 1
  BY <1>3
<1>8. \A i \in 1 .. L + 1 : Dated(r, r.dispatches[i])
  BY <1>2, <1>4, <1>6, <1>7
<1>9. ASSUME NEW i \in 1 .. L + 1, NEW j \in 1 .. L + 1,
             r.dispatches[i].id = r.dispatches[j].id
      PROVE  i = j
  <2>1. CASE i \in 1 .. L /\ j \in 1 .. L
    BY <1>4, <1>9, <2>1 DEF Ids, Distinct, L
  <2>2. CASE i = L + 1 /\ j \in 1 .. L
    BY <1>4, <1>5, <1>9, <2>2
  <2>3. CASE i \in 1 .. L /\ j = L + 1
    BY <1>4, <1>5, <1>9, <2>3
  <2>4. QED
    BY <1>7, <2>1, <2>2, <2>3
<1>10. OutIsNext(r)
  BY <1>1 DEF OutIsNext, NoDispatch
<1>11. QED
  BY <1>4, <1>8, <1>9, <1>10 DEF Ids, Distinct

LEMMA ShapedIds ==
  ASSUME NEW s, Core(s), Owned(s), Ids(s), NEW r, Shaped(s, r)
  PROVE  Ids(r)
<1>1. s \in Task /\ Anchored(s) /\ (s.status = "active" => s.currentStage \in Stage)
  BY DEF Core, Task
<1>2. ASSUME r.dispatches = s.dispatches, r.recovery = s.recovery \/ Rests(s, r)
      PROVE  /\ Distinct(r) /\ \A i \in 1 .. Len(r.dispatches) : Dated(r, r.dispatches[i])
             /\ \A t : StageCount(r, t) = StageCount(s, t)
             /\ \A id : UsesOf(r, id) = UsesOf(s, id)
             /\ Len(r.recovery.attempts) = Len(s.recovery.attempts)
  <2>1. Distinct(r) /\ (\A id : UsesOf(r, id) = UsesOf(s, id))
        /\ \A t : StageCount(r, t) = StageCount(s, t)
    BY <1>2 DEF Ids, Distinct, UsesOf, StageCount, StageDispatches
  <2>2. \A i \in 1 .. Len(r.dispatches) : Dated(r, r.dispatches[i])
    BY <1>2, StandingDated DEF Ids
  <2>3. Len(r.recovery.attempts) = Len(s.recovery.attempts)
    BY <1>2 DEF Rests
  <2>4. QED
    BY <2>1, <2>2, <2>3
<1>3. CASE Prepares(s, r)
  <2>1. /\ s.currentStage \in Stage /\ UsesOf(s, DispatchId(s)) = {}
        /\ r.dispatch.id = DispatchId(s) /\ r.dispatch.stage = s.currentStage
        /\ r.dispatches = s.dispatches /\ r.recovery = s.recovery
    BY <1>1, <1>3 DEF Prepares
  <2>2. OutIsNext(r)
    BY <1>1, <1>2, <2>1, DispatchIdNumber DEF OutIsNext
  <2>3. QED
    BY <1>2, <2>1, <2>2 DEF Ids
<1>4. CASE Marks(s, r)
  <2>1. /\ r.dispatch = [s.dispatch EXCEPT !.status = "running"]
        /\ r.dispatches = s.dispatches /\ r.recovery = s.recovery /\ s.dispatch.status # "none"
    BY <1>4 DEF Marks
  <2>2. r.dispatch.id = s.dispatch.id /\ r.dispatch.stage = s.dispatch.stage
    BY <1>1, <2>1 DEF Task, Dispatch
  <2>3. OutIsNext(r)
    BY <1>2, <2>1, <2>2 DEF Ids, OutIsNext
  <2>4. QED
    BY <1>2, <2>1, <2>3 DEF Ids
<1>5. CASE Revives(s, r)
  <2>1. /\ r.dispatches = s.dispatches /\ r.dispatch \in {s.dispatch, NoDispatch}
        /\ (r.recovery = s.recovery \/ Rests(s, r))
    BY <1>5 DEF Revives
  <2>2. OutIsNext(r)
    BY <1>2, <2>1 DEF Ids, OutIsNext, NoDispatch
  <2>3. QED
    BY <1>2, <2>1, <2>2 DEF Ids
<1>6. CASE \E end \in End : Closes(s, r, end)
  BY <1>1, <1>6, ClosedIds
<1>7. QED
  BY <1>3, <1>4, <1>5, <1>6 DEF Shaped

IdsInv == CalmInv /\ Ids(task)

LEMMA StepIds == IdsInv /\ [Next]_vars => IdsInv'
<1> SUFFICES ASSUME IdsInv, [Next]_vars PROVE Ids(task')
  BY StepCalm DEF IdsInv
<1>1. Core(task) /\ Owned(task) /\ Ids(task) /\ Shaped(task, task')
  BY StepShaped DEF IdsInv, CalmInv, IInv
<1>2. PICK s, r : s = task /\ r = task'
  OBVIOUS
<1>3. Core(s) /\ Owned(s) /\ Ids(s) /\ Shaped(s, r)
  BY <1>1, <1>2
<1>4. Ids(r)
  BY <1>3, ShapedIds
<1>5. QED
  BY <1>2, <1>4

\* prepareDispatch never refuses a spent id: the id an active task computes next is not
\* on its record, and the record holds no id twice, whatever was lost, paused or resumed.
THEOREM IdsAreFresh == Spec => []NextIdIsFresh
<1>1. Init => IdsInv
  <2> SUFFICES ASSUME Init PROVE Ids(task)
    BY InitCalm DEF IdsInv
  <2>1. task.dispatches = <<>> /\ task.dispatch = NoDispatch
    BY DEF Init
  <2>2. QED
    BY <2>1 DEF Ids, Distinct, OutIsNext, NoDispatch
<1>2. ASSUME IdsInv PROVE NextIdIsFresh
  <2>1. /\ task \in Task /\ Anchored(task) /\ Ids(task)
        /\ task.status = "active" => task.currentStage \in Stage
    BY <1>2 DEF IdsInv, CalmInv, IInv, Core, Task
  <2>2. DOMAIN task.dispatches = 1 .. Len(task.dispatches)
    BY <2>1, RecordFacts
  <2>3. ASSUME task.status = "active", NEW i \in UsesOf(task, DispatchId(task)),
               task.recovery.active.phase = "none"
        PROVE  FALSE
    <3>1. /\ i \in 1 .. Len(task.dispatches)
          /\ task.dispatches[i].id = DispatchId(task)
      BY <2>2, <2>3 DEF UsesOf
    <3>2. Dated(task, task.dispatches[i])
      BY <2>1, <3>1 DEF Ids
    <3>3. DispatchId(task).n <= StageCount(task, task.currentStage)
      BY <2>1, <2>3, <3>1, <3>2, DispatchIdNumber DEF Dated
    <3>4. DispatchId(task).n = StageCount(task, task.currentStage) + 1
      BY <2>1, <2>3, DispatchIdNumber
    <3>5. StageCount(task, task.currentStage) \in Nat
      BY <2>1, CountTyped DEF StageCount
    <3>6. QED
      BY <3>3, <3>4, <3>5
  <2>4. ASSUME task.status = "active", task.recovery.active.phase # "none",
               UsesOf(task, DispatchId(task)) # {}
        PROVE  FALSE
    <3>1. ~Interrupted(task, DispatchId(task))
      BY <2>1, <2>4, DispatchIdTyped
    <3>2. PICK i \in UsesOf(task, DispatchId(task)) : Answered(task.dispatches[i].end)
      BY <3>1 DEF Interrupted, Answered
    <3>3. /\ i \in 1 .. Len(task.dispatches)
          /\ task.dispatches[i].id = DispatchId(task)
      BY <2>2 DEF UsesOf
    <3>4. Dated(task, task.dispatches[i])
      BY <2>1, <3>3 DEF Ids
    <3>5. /\ DispatchId(task).phase = task.recovery.active.phase
          /\ DispatchId(task).phase # "stage"
          /\ DispatchId(task).n = Len(task.recovery.attempts)
      BY <2>1, <2>4, DispatchIdNumber
    <3>6. QED
      BY <2>4, <3>2, <3>3, <3>4, <3>5 DEF Dated
  <2>5. QED
    BY <2>1, <2>2, <2>3, <2>4 DEF NextIdIsFresh, Ids, Distinct
<1>3. QED
  BY <1>1, <1>2, StepIds, PTL DEF Spec

=============================================================================
