--------------------------- MODULE MCWakeupWorker ---------------------------
(***************************************************************************)
(* One instance, two questions.  In part "wakeups" the workers run         *)
(* processNextWakeup over the queue, the locks and the leases.  In part    *)
(* "lease" the same processes call the operations of task-lease.mjs in any *)
(* order (a worker never renews), the queue rests, and the history of      *)
(* TaskLeaseHistory is kept: OneOwnerUnlessStrayed is asked there only.    *)
(* The fairness is the workers' and constrains nothing they do not do.     *)
(***************************************************************************)
EXTENDS WakeupWorker, TaskLeaseHistory

VARIABLES part

\* Whichever worker comes next takes whichever wakeup is due.
AnyWakeup == [p \in Process |-> Run]

Init ==
  /\ part \in {"wakeups", "lease"}
  /\ WorkerInit
  /\ strayed = (part = "wakeups")

WakeupStep == part = "wakeups" /\ WorkerNext
LeaseCall == part = "lease" /\ LeaseNext /\ UNCHANGED <<queueVars, timeVars, pc, on>>

Next ==
  /\ WakeupStep \/ LeaseCall
  /\ strayed' = (strayed \/ Strays)
  /\ UNCHANGED part

Spec == Init /\ [][Next]_<<workerVars, strayed, part>> /\ WorkerFairness

=============================================================================
