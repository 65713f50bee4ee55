---------------------------- MODULE WakeupWorker ----------------------------
(***************************************************************************)
(* The wakeup queue and its workers: factory/lib/wakeups/queue.mjs (one    *)
(* JSON file behind a lock directory), worker.mjs (processNextWakeup) and  *)
(* the verdict of hq/rewake-throttle.mjs.  The wakeups of the model name   *)
(* one task, so that its lease (TaskLease) decides who runs it; wakeups of *)
(* different tasks meet only in the queue file.                            *)
(*                                                                         *)
(* A worker claims, asks the throttle, leases, runs one stage, finishes,   *)
(* and releases the lease last.  Every worker has the actor id the script  *)
(* gives it, so the run of a lease is the wakeup (RunsOf is every wakeup). *)
(* Nobody renews: runOneStage takes no heartbeat.                          *)
(*                                                                         *)
(* Abstracted: a wakeup is its idempotency key; which of the due wakeups   *)
(* is oldest; clock values.                                                *)
(***************************************************************************)
EXTENDS TaskLease

CONSTANTS
  MaxAttempts,  \* maxAttempts of a wakeup
  MayHold       \* the throttle is in `enforce' mode

Free == "free"  \* nobody holds the lock

ASSUME WorkerAssumption ==
  MaxAttempts \in 1 .. 10 /\ MayHold \in BOOLEAN /\ Free \notin Process

Wakeup == Run

VARIABLES
  queue,   \* wakeup -> its item in the queue file
  lock,    \* the process that made the queue's lock directory
  seen,    \* process -> the queue it read under the lock, and will write
  pc,      \* process -> where it is in processNextWakeup
  on,      \* process -> the wakeup it claimed
  failed,  \* history: runs of a wakeup finished as failed
  later,   \* wakeups whose notBefore is ahead
  held     \* wakeups held back since the last run, until its cooldown is over

queueVars == <<queue, lock, seen, failed>>
timeVars == <<later, held>>
workerVars == <<made, lease, at, as, forced, sound, queue, lock, seen, pc, on, failed, later, held>>

NoItem == [status |-> "absent", attempt |-> 0]
Empty  == [w \in Wakeup |-> NoItem]

WorkerInit ==
  /\ LeaseInit
  /\ queue = Empty
  /\ lock = Free
  /\ seen = [p \in Process |-> Empty]
  /\ pc = [p \in Process |-> "idle"]
  /\ on = [p \in Process |-> NoRun]
  /\ failed = [w \in Wakeup |-> 0]
  /\ later = {} /\ held = {}

Go(p, to) == pc' = [pc EXCEPT ![p] = to]
Mine(p)   == seen[p][on[p]]

-----------------------------------------------------------------------------
(* queue.mjs: mutate                                                       *)

\* Mutant: the lock directory is made with `recursive'.
Lock_Recursive(p) ==
  /\ pc[p] \in {"idle", "defer", "succeed", "fail"}
  /\ lock' = p
  /\ seen' = [seen EXCEPT ![p] = queue]
  /\ Go(p, CASE pc[p] = "idle"    -> "claiming"   [] pc[p] = "defer" -> "deferring"
             [] pc[p] = "succeed" -> "succeeding" [] OTHER -> "failing")
  /\ UNCHANGED <<leaseVars, timeVars, queue, on, failed>>

\* mkdir of the lock directory, then the read.
Lock(p) ==
  /\ pc[p] \in {"idle", "defer", "succeed", "fail"} /\ lock = Free
  /\ lock' = p
  /\ seen' = [seen EXCEPT ![p] = queue]
  /\ Go(p, CASE pc[p] = "idle"    -> "claiming"   [] pc[p] = "defer" -> "deferring"
             [] pc[p] = "succeed" -> "succeeding" [] OTHER -> "failing")
  /\ UNCHANGED <<leaseVars, timeVars, queue, on, failed>>

\* `finally' releases a lease this worker was given.
Leave(p) == Go(p, IF at[p] = "own" THEN "release" ELSE "idle")

\* "Wakeup queue is busy" is thrown: while claiming it ends the worker, while
\* deferring or finishing it is one more failure to finish, and a failure that
\* cannot be finished leaves the item claimed.
Busy(p) ==
  /\ lock # Free
  /\ \/ pc[p] \in {"defer", "succeed"} /\ Go(p, "fail")
     \/ pc[p] = "fail" /\ Leave(p)
  /\ UNCHANGED <<leaseVars, timeVars, queueVars, on>>

\* The rename of the new file, and the lock goes.
Save(p, items) ==
  /\ queue' = items
  /\ lock' = Free
  /\ seen' = [seen EXCEPT ![p] = Empty]
  /\ UNCHANGED leaseVars

\* enqueueWakeup by the founder's console or an objective; a known key is only
\* answered.
Enqueue(w) ==
  /\ lock = Free /\ queue[w].status = "absent"
  /\ queue' = [queue EXCEPT ![w].status = "queued"]
  /\ UNCHANGED <<leaseVars, timeVars, lock, seen, pc, on, failed>>

-----------------------------------------------------------------------------
(* worker.mjs: processNextWakeup                                           *)

Ready(p) == {w \in Wakeup \ later : seen[p][w].status = "queued"}

Claim(p) ==
  /\ pc[p] = "claiming"
  /\ \/ Ready(p) = {} /\ Save(p, seen[p]) /\ Go(p, "idle") /\ UNCHANGED on
     \/ \E w \in Ready(p) :
          /\ Save(p, [seen[p] EXCEPT ![w].status = "claimed", ![w].attempt = @ + 1])
          /\ on' = [on EXCEPT ![p] = w]
          /\ Go(p, "check")
  /\ UNCHANGED <<timeVars, failed>>

\* A wakeup held back since the last run whose time has come: `cooldown-elapsed'.
CooledDown == held \ later # {}

\* No state file, or the throttle holds the wake back.
Check(p) ==
  /\ pc[p] = "check"
  /\ \/ Go(p, "fail")
     \/ MayHold /\ ~CooledDown /\ Go(p, "defer")
  /\ UNCHANGED <<leaseVars, timeVars, queueVars, on>>

\* Mutant: the claim's attempt is kept.
Defer_KeepsAttempt(p) ==
  /\ pc[p] = "deferring"
  /\ Save(p, [seen[p] EXCEPT ![on[p]].status = "queued", ![on[p]].attempt = @])
  /\ later' = later \cup {on[p]} /\ held' = held \cup {on[p]}
  /\ Go(p, "idle")
  /\ UNCHANGED <<on, failed>>

\* deferWakeup: queued again for later, the claim's attempt given back.
Defer(p) ==
  /\ pc[p] = "deferring"
  /\ IF Mine(p).status = "claimed"
     THEN /\ Save(p, [seen[p] EXCEPT ![on[p]].status = "queued",
                                     ![on[p]].attempt = IF @ = 0 THEN 0 ELSE @ - 1])
          /\ later' = later \cup {on[p]} /\ held' = held \cup {on[p]}
          /\ Go(p, "idle")
     ELSE Save(p, seen[p]) /\ Go(p, "fail") /\ UNCHANGED timeVars
  /\ UNCHANGED <<on, failed>>

\* acquireTaskLease, step by step; any throw is a failed wakeup.
Acquire(p) ==
  /\ pc[p] \in {"check", "lease"}
  /\ \/ pc[p] = "check" /\ AcquireReads(p, on[p])
     \/ pc[p] = "lease" /\ (AcquireRetires(p) \/ AcquireMakes(p) \/ AcquireWrites(p))
  /\ Go(p, CASE at'[p] = "own" -> "run" [] at'[p] = "out" -> "fail" [] OTHER -> "lease")
  /\ UNCHANGED <<queueVars, timeVars, on>>

\* runOneStage returns or throws; a cooldown is counted from here.
RunEnds(p) ==
  /\ pc[p] = "run"
  /\ \E to \in {"succeed", "fail"} : Go(p, to)
  /\ held' = {}
  /\ UNCHANGED <<leaseVars, queueVars, later, on>>

\* finishWakeup(succeeded).
Succeed(p) ==
  /\ pc[p] = "succeeding"
  /\ IF Mine(p).status = "claimed"
     THEN Save(p, [seen[p] EXCEPT ![on[p]].status = "succeeded"]) /\ Go(p, "release")
     ELSE Save(p, seen[p]) /\ Go(p, "fail")
  /\ UNCHANGED <<timeVars, on, failed>>

\* Mutant: a failure gives its attempt back, as a deferral does.
Fail_GivesAttemptBack(p) ==
  /\ pc[p] = "failing"
  /\ Save(p, [seen[p] EXCEPT ![on[p]].status = "queued", ![on[p]].attempt = @ - 1])
  /\ Leave(p)
  /\ UNCHANGED <<timeVars, on, failed>>

\* finishWakeup(failed): queued again while attempts are left.
Fail(p) ==
  /\ pc[p] = "failing"
  /\ IF Mine(p).status = "claimed"
     THEN /\ Save(p, [seen[p] EXCEPT ![on[p]].status =
                        IF Mine(p).attempt < MaxAttempts THEN "queued" ELSE "dead-letter"])
          /\ failed' = [failed EXCEPT ![on[p]] = @ + 1]
     ELSE Save(p, seen[p]) /\ UNCHANGED failed
  /\ Leave(p)
  /\ UNCHANGED <<timeVars, on>>

\* releaseTaskLease, after the wakeup was finished; its errors are swallowed.
Release(p) ==
  /\ pc[p] = "release"
  /\ ReleaseReads(p) \/ ReleaseRemoves(p)
  /\ IF at'[p] = "out" THEN Go(p, "idle") ELSE UNCHANGED pc
  /\ UNCHANGED <<queueVars, timeVars, on>>

\* A deferral's time comes.
Due(w) ==
  /\ w \in later
  /\ later' = later \ {w}
  /\ UNCHANGED <<leaseVars, queueVars, held, pc, on>>

\* A worker is killed wherever it is; what it made stays.
Killed(p) ==
  /\ Die(p)
  /\ Go(p, "dead")
  /\ UNCHANGED <<queueVars, timeVars, on>>

LeaseLapses ==
  /\ Expire \/ ForceReads \/ ForceRemoves
  /\ UNCHANGED <<queueVars, timeVars, pc, on>>

WorkerStep(p) ==
  \/ Lock(p) \/ Busy(p) \/ Claim(p) \/ Check(p) \/ Defer(p) \/ Acquire(p)
  \/ RunEnds(p) \/ Succeed(p) \/ Fail(p) \/ Release(p)

WorkerNext ==
  \/ \E p \in Process : WorkerStep(p) \/ Killed(p)
  \/ \E w \in Wakeup : Enqueue(w) \/ Due(w)
  \/ LeaseLapses

WorkerFairness ==
  /\ \A p \in Process : WF_workerVars(WorkerStep(p))
  /\ \A w \in Wakeup : WF_workerVars(Due(w))

\* Somebody keeps invoking the worker and time passes.
WorkerSpec == WorkerInit /\ [][WorkerNext]_workerVars /\ WorkerFairness

-----------------------------------------------------------------------------
(* Properties                                                              *)

Working == {p \in Process : pc[p] \in {"check", "defer", "deferring", "lease", "run",
                                       "succeed", "succeeding", "fail", "failing"}}

\* A wakeup is in the hands of one worker, from its claim to its finish, and the
\* file says it is claimed (claimNextWakeup under the lock directory).
OneWorkerPerWakeup ==
  \A p, q \in Working :
    /\ queue[on[p]].status = "claimed"
    /\ on[p] = on[q] => p = q

\* Attempts are failures: a deferral costs none ("no retry is consumed, and the
\* item never drifts toward a dead letter", PAPERCLIP_REWAKE_THROTTLE.md:71),
\* and a wakeup is dead only after MaxAttempts failed runs.
AttemptsAreFailures ==
  \A w \in Wakeup :
    LET item == queue[w] IN
    /\ item.status \in {"absent", "queued"} => item.attempt = failed[w] /\ failed[w] < MaxAttempts
    /\ item.status = "claimed" => item.attempt = failed[w] + 1
    /\ item.status = "dead-letter" <=> failed[w] = MaxAttempts

Ended(w) == queue[w].status \in {"succeeded", "dead-letter"}
Stranded(w) == queue[w].status = "claimed" /\ \A p \in Working : on[p] # w

\* Nothing waits in the queue for ever, as long as a worker is left and no killed
\* one holds the queue's lock: no conflict over the lease or the lock, and no
\* throttle, makes the workers give a wakeup back and forth.
SomeoneIsLeft == \E p \in Process : pc[p] # "dead"
LockLeftBehind == lock # Free /\ pc[lock] = "dead"
EveryWakeupIsSettled ==
  \A w \in Wakeup : queue[w].status = "queued" ~>
    Ended(w) \/ Stranded(w) \/ LockLeftBehind \/ ~SomeoneIsLeft

=============================================================================
