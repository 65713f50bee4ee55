----------------------------- MODULE TaskConsole -----------------------------
(***************************************************************************)
(* What the founder's console makes of a task document: the decisions, the  *)
(* inbox and the list of work the system is recovering on its own           *)
(* (founderControlPlane.mjs, buildFounderOverview), beside what the         *)
(* auto-retry sweep really revives (hq/auto-retry.mjs).                     *)
(*                                                                         *)
(* They are read-only projections, so this module adds no state to          *)
(* TaskWorkflow.  The task is of no objective, so that nothing but the      *)
(* sweep revives it.  What a card says, and the decisions a finished task   *)
(* deferred, are left out.                                                  *)
(***************************************************************************)
EXTENDS TaskWorkflow

\* isAwaitingFounderApproval: parked before a high-risk build, and not yet signed
AwaitingFounderApproval(s) ==
  /\ HighRisk /\ ~s.approved
  /\ s.status = "blocked"
  /\ s.blocker.stage = "builder" /\ s.blocker.outcome = "decision-required"

\* blockedDecisions of the overview; a closed task keeps its blocker as a record
IsDecision(s) == s.status # "merge-ready" /\ s.blocker.outcome = "decision-required"

\* Mutant: a failure the runner flagged for the founder is left out with the
\* infrastructure's.
IsStop_Flagged(s) ==
  /\ s.status = "blocked" /\ s.blocker.outcome = "fail"
  /\ ClassifyBlocker(s.blocker) = "hard" \/ s.autoRetries >= MaxRetries

\* The second part of buildFounderInbox: a failure that is not the
\* infrastructure's, or that used up the automatic retries.
IsStop(s) ==
  /\ s.status = "blocked" /\ s.blocker.outcome = "fail"
  /\ ClassifyBlocker(s.blocker) # "infra" \/ s.autoRetries >= MaxRetries

InboxKinds(s) ==
  {kind \in {"approval", "decision", "blocked"} :
     CASE kind = "approval" -> IsDecision(s) /\ AwaitingFounderApproval(s)
       [] kind = "decision" -> IsDecision(s) /\ ~AwaitingFounderApproval(s)
       [] kind = "blocked"  -> IsStop(s)}

\* autoRecovering of the overview; `stale': nobody wrote the task for 90 minutes
AutoRecovering(s, stale) ==
  \/ s.status = "blocked" /\ ClassifyBlocker(s.blocker) = "infra" /\ s.autoRetries < MaxRetries
  \/ s.status = "active" /\ stale

\* What retryStuckTasks takes: SweepBlocked and SweepOrphan of TaskWorkflow.
Revivable(s, stale) ==
  \/ /\ CanResume(s) /\ ClassifyBlocker(s.blocker) = "infra"
     /\ s.blocker.outcome = "paused-credits" \/ s.autoRetries < MaxRetries
  \/ s.status = "active" /\ stale /\ s.autoRetries < MaxRetries

\* A stopped task is somebody's, and one party's only: the founder finds it in the
\* inbox or the sweep takes it up; never both, so nobody is asked about what is being
\* retried, and never neither, "so it cannot disappear silently" (buildFounderInbox).
\* What the overview calls recovering on its own is not in the inbox as well.
StoppedIsSomebodys ==
  /\ task.status = "blocked" => (InboxKinds(task) = {} <=> Revivable(task, TRUE))
  /\ \A stale \in BOOLEAN : AutoRecovering(task, stale) => InboxKinds(task) = {}

=============================================================================
