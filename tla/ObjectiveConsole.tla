--------------------------- MODULE ObjectiveConsole ---------------------------
(***************************************************************************)
(* Where the founder finds the parts of an objective that have stopped:     *)
(* the inbox (founderControlPlane.mjs, buildFounderInbox), which speaks of  *)
(* a part through its task once there is one and through the objective      *)
(* before.  A read-only projection: it adds no state to Objective.  How a   *)
(* card is worded, ordered and aged is left out.                            *)
(***************************************************************************)
EXTENDS Objective

Known(n) == task[n] # "absent"

\* Mutant: what failed for infrastructure reasons is always left to the sweep.
TaskAsks_NeverInfra(n) == task[n] \in {"decision", "hard"}

\* The scans of the tasks: a decision, a failure that is not the infrastructure's, or
\* one that used up the automatic retries.
TaskAsks(n) ==
  \/ task[n] \in {"decision", "hard"}
  \/ task[n] = "infra" /\ count.retries[n] >= MaxRetries

\* The scan of the objectives passes over a part whose task it knows.
NodeAsks(n) == ~Known(n) /\ blocker[n] \in {"decision", "publish"}

InInbox(n) == status # "cancelled" /\ (TaskAsks(n) \/ NodeAsks(n))

\* What the auto-retry sweep will take, now or when nobody wrote it for 90 minutes.
SweepTakes(n) == task[n] \in {"infra", "active"} /\ count.retries[n] < MaxRetries

\* Whatever is driven, swept or restarted, a part of a live objective that has stopped
\* is somebody's: it is in the inbox, or the sweep will run its task, or the reconciler
\* will run the part (Revivable).  It does not hold of a part whose task is merge-ready,
\* so it does not say it of one: a publish that failed, and a part whose task the sweep
\* finished, are in no list (README).
StopsAreSomebodys ==
  status # "cancelled" =>
    \A n \in Part :
      Stopped(n) /\ task[n] # "merge-ready" => InInbox(n) \/ SweepTakes(n) \/ n \in Revivable

===============================================================================
