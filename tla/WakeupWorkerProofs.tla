-------------------------- MODULE WakeupWorkerProofs --------------------------
(***************************************************************************)
(* The lease of a task and the queue of wakeups, for any number of         *)
(* processes, wakeups and attempts.                                        *)
(*                                                                         *)
(* The lease (TaskLease, with its history): whatever expires, is forced or *)
(* dies, two processes own the lease of a task only after an operation hit *)
(* a lease other than the one it had read.  The invariant: until then what *)
(* an owner was given is on disk, and who writes has made the directory    *)
(* that is there, alone.                                                   *)
(*                                                                         *)
(* The queue (WakeupWorker): whatever the leases do and whichever workers  *)
(* are killed, a claimed wakeup is in one worker's hands and its attempts  *)
(* are its failures.  The invariant: who is between the lock and the write *)
(* holds the lock and has read the queue as it is.                         *)
(***************************************************************************)
EXTENDS WakeupWorker, TaskLeaseHistory, TLAPS

-----------------------------------------------------------------------------
(* The lease *)

LeasePlaces == {"out", "retire", "mkdir", "write", "own", "renew", "remove", "dead"}

\* A process inside an operation, or with a lease, acts for a run.
LeaseShape ==
  /\ LeaseTypeOK
  /\ \A p \in Process : at[p] \notin {"out", "dead"} => as[p] \in Run

Writers == {p \in Process : at[p] = "write"}

\* What is so as long as no operation has strayed: who writes has made the directory that is
\* there, alone, and what an owner was given is on disk.
Exclusive ==
  /\ \A p \in Writers : made /\ ~Held /\ \A q \in Writers : q = p
  /\ \A p \in Owners : lease = [run |-> as[p], expired |-> FALSE]

LeaseInv == LeaseShape /\ (strayed \/ Exclusive)

LEMMA LeaseInitHolds == HistoryInit => LeaseInv
<1> SUFFICES ASSUME HistoryInit PROVE LeaseInv
  OBVIOUS
<1>1. \A p \in Process : at[p] = "out" /\ ~sound[p]
  BY DEF HistoryInit, LeaseInit
<1>2. Owners = {} /\ Writers = {} /\ ~Held
  BY <1>1 DEF HistoryInit, LeaseInit, Owners, Writers, Held
<1>3. LeaseTypeOK
  BY <1>2 DEF HistoryInit, LeaseInit, LeaseTypeOK
<1>4. QED
  BY <1>1, <1>2, <1>3 DEF LeaseInv, LeaseShape, Exclusive

\* A lease with a run in it is a lease on disk.
LEMMA LeaseFacts ==
  /\ \A r \in Run : [run |-> r, expired |-> FALSE] # NoLease
  /\ NoLease.run = NoRun /\ ~NoLease.expired /\ NoRun \notin Run
  /\ \A p \in Process : RunsOf[p] \subseteq Run
<1>1. NoLease.run = NoRun /\ ~NoLease.expired /\ NoRun \notin Run
  BY LeaseAssumption DEF NoLease, LeaseAssumption
<1>2. \A r \in Run : [run |-> r, expired |-> FALSE].run = r
  OBVIOUS
<1>3. \A p \in Process : RunsOf[p] \subseteq Run
  BY LeaseAssumption DEF LeaseAssumption
<1>4. QED
  BY <1>1, <1>2, <1>3

LEMMA OwnerHolds ==
  ASSUME LeaseShape, Exclusive, NEW p \in Owners
  PROVE  Held /\ made /\ lease.run = as[p] /\ ~lease.expired /\ Writers = {}
<1>1. as[p] \in Run /\ lease = [run |-> as[p], expired |-> FALSE]
  BY DEF Owners, Exclusive, LeaseShape
<1>2. Held
  BY <1>1, LeaseFacts DEF Held
<1>3. QED
  BY <1>1, <1>2 DEF LeaseShape, LeaseTypeOK, Exclusive, Writers

\* Where one process goes, the others stay.
LEMMA OneMoves ==
  ASSUME LeaseTypeOK, NEW p \in Process, NEW to, Move(p, to)
  PROVE  \A q \in Process : at'[q] = IF q = p THEN to ELSE at[q]
BY DEF Move, LeaseTypeOK

LEMMA ShapeStep ==
  ASSUME LeaseShape, [LeaseNext]_leaseVars
  PROVE  LeaseShape'
<1> USE LeaseFacts DEF LeaseShape, LeaseTypeOK, Held, Move, Own
<1>1. ASSUME NEW p \in Process, NEW r \in RunsOf[p], AcquireReads(p, r)
      PROVE  LeaseShape'
  <2>1. r \in Run /\ as' = [as EXCEPT ![p] = r] /\ UNCHANGED <<made, lease, forced>>
    BY <1>1 DEF AcquireReads
  <2>2. PICK to \in {"own", "out", "retire", "mkdir"} : at' = [at EXCEPT ![p] = to]
    BY <1>1 DEF AcquireReads
  <2>3. sound' \in [Process -> BOOLEAN]
    BY <1>1 DEF AcquireReads
  <2>4. QED
    BY <2>1, <2>2, <2>3
<1>2. ASSUME NEW p \in Process, AcquireRetires(p) \/ AcquireMakes(p) \/ ReleaseRemoves(p)
      PROVE  LeaseShape'
  BY <1>2 DEF AcquireRetires, AcquireMakes, ReleaseRemoves
<1>3. ASSUME NEW p \in Process, AcquireWrites(p) \/ RenewWrites(p)
      PROVE  LeaseShape'
  <2>1. as[p] \in Run /\ [run |-> as[p], expired |-> FALSE] \in [run : Run, expired : BOOLEAN]
    BY <1>3 DEF AcquireWrites, RenewWrites
  <2>2. PICK to \in {"own", "out"} : at' = [at EXCEPT ![p] = to]
    BY <1>3 DEF AcquireWrites, RenewWrites
  <2>3. /\ lease' = lease \/ (made /\ lease' = [run |-> as[p], expired |-> FALSE])
        /\ UNCHANGED <<made, as, forced>> /\ sound' \in [Process -> BOOLEAN]
    BY <1>3 DEF AcquireWrites, RenewWrites
  <2>4. QED
    BY <1>3, <2>1, <2>2, <2>3 DEF AcquireWrites, RenewWrites
<1>4. ASSUME NEW p \in Process, RenewReads(p) \/ ReleaseReads(p) \/ Die(p)
      PROVE  LeaseShape'
  BY <1>4 DEF RenewReads, ReleaseReads, Die
<1>5. CASE ForceReads \/ ForceRemoves \/ Expire
  BY <1>5 DEF ForceReads, ForceRemoves, Expire
<1>6. CASE UNCHANGED leaseVars
  BY <1>6 DEF leaseVars
<1>7. QED
  BY <1>1, <1>2, <1>3, <1>4, <1>5, <1>6 DEF LeaseNext, LeaseStep

\* A step that hits the lease it was decided on keeps the lease exclusive.
LEMMA ExclusiveStep ==
  ASSUME LeaseShape, Exclusive, [LeaseNext]_leaseVars, ~Strays
  PROVE  Exclusive'
<1> USE LeaseFacts DEF Writers, Owners
<1>0. LeaseTypeOK /\ \A p \in Owners : lease.run = as[p] /\ ~lease.expired /\ Held
  BY OwnerHolds DEF LeaseShape
<1>1. ASSUME NEW p \in Process, NEW r \in RunsOf[p], AcquireReads(p, r)
      PROVE  Exclusive'
  <2>1. /\ at[p] = "out" /\ UNCHANGED <<made, lease>>
        /\ \A q \in Process \ {p} : at'[q] = at[q] /\ as'[q] = as[q] /\ sound'[q] = sound[q]
    BY <1>0, <1>1, OneMoves DEF AcquireReads, Own, Move, LeaseTypeOK
  <2>2. /\ as'[p] = r /\ at'[p] \in {"own", "out", "retire", "mkdir"}
        /\ at'[p] = "own" => Held /\ ~lease.expired /\ lease.run = r
    BY <1>0, <1>1 DEF AcquireReads, Own, Move, LeaseTypeOK
  <2>3. at'[p] = "own" => lease = [run |-> r, expired |-> FALSE]
    BY <1>0, <2>2 DEF LeaseTypeOK, Held
  <2>4. QED
    BY <2>1, <2>2, <2>3 DEF Exclusive, Held
<1>2. ASSUME NEW p \in Process, AcquireRetires(p)
      PROVE  Exclusive'
  <2>1. ~made \/ lease.expired
    BY <1>2 DEF Strays, RetiresAnother
  <2>2. Owners = {} /\ Writers = {}
    BY <1>0, <2>1 DEF Exclusive, LeaseTypeOK, Held
  <2>3. \A q \in Process : /\ at'[q] = IF q = p THEN "mkdir" ELSE at[q]
                           /\ sound'[q] = sound[q]
    BY <1>0, <1>2, OneMoves DEF AcquireRetires
  <2>4. Owners' = {} /\ Writers' = {}
    BY <2>2, <2>3
  <2>5. QED
    BY <2>4 DEF Exclusive
<1>3. ASSUME NEW p \in Process, AcquireMakes(p)
      PROVE  Exclusive'
  <2>1. /\ UNCHANGED <<lease, as, sound>> /\ made' = TRUE /\ at[p] = "mkdir"
        /\ \A q \in Process : at'[q] = IF q # p THEN at[q] ELSE IF made THEN "out" ELSE "write"
    BY <1>0, <1>3, OneMoves DEF AcquireMakes
  <2>2. ~made => Writers = {} /\ ~Held
    BY <1>0 DEF Exclusive, LeaseTypeOK
  <2>3. QED
    BY <2>1, <2>2 DEF Exclusive, Held
<1>4. ASSUME NEW p \in Process, AcquireWrites(p)
      PROVE  Exclusive'
  <2>1. p \in Writers /\ made /\ ~Held
    BY <1>4 DEF AcquireWrites, Exclusive
  <2>2. Owners = {} /\ \A q \in Writers : q = p
    BY <1>0, <2>1 DEF Exclusive
  <2>3. /\ lease' = [run |-> as[p], expired |-> FALSE] /\ UNCHANGED as
        /\ \A q \in Process : /\ at'[q] = IF q = p THEN "own" ELSE at[q]
                              /\ q # p => sound'[q] = sound[q]
    BY <1>0, <1>4, <2>1, OneMoves DEF AcquireWrites, Own, LeaseTypeOK
  <2>4. Writers' = {} /\ Owners' \subseteq {p}
    BY <2>2, <2>3
  <2>5. QED
    BY <2>3, <2>4 DEF Exclusive
<1>5. ASSUME NEW p \in Process, RenewReads(p) \/ ReleaseReads(p) \/ Die(p)
      PROVE  Exclusive'
  <2>1. /\ UNCHANGED <<made, lease, as>>
        /\ at'[p] \notin {"write", "own"}
        /\ at'[p] = "renew" => at[p] = "own"
        /\ \A q \in Process : (q # p => at'[q] = at[q]) /\ (sound'[q] => sound[q])
    <3>1. CASE RenewReads(p)
      BY <1>0, <3>1, OneMoves DEF RenewReads
    <3>2. CASE ReleaseReads(p)
      <4>1. PICK to \in {"remove", "out"} : Move(p, to)
        BY <3>2 DEF ReleaseReads
      <4>2. QED
        BY <1>0, <3>2, <4>1, OneMoves DEF ReleaseReads, LeaseTypeOK
    <3>3. CASE Die(p)
      <4>1. Move(p, "dead") /\ sound' = [sound EXCEPT ![p] = FALSE] /\ UNCHANGED <<made, lease, as>>
        BY <3>3 DEF Die
      <4>2. \A q \in Process : sound'[q] => sound[q]
        BY <1>0, <4>1 DEF LeaseTypeOK
      <4>3. \A q \in Process : at'[q] = IF q = p THEN "dead" ELSE at[q]
        BY <1>0, <4>1, OneMoves
      <4>4. QED
        BY <4>1, <4>2, <4>3
    <3>4. QED
      BY <1>5, <3>1, <3>2, <3>3
  <2>2. Writers' \subseteq Writers /\ Owners' \subseteq Owners
    BY <2>1
  <2>3. QED
    BY <2>1, <2>2 DEF Exclusive, Held
<1>6. ASSUME NEW p \in Process, RenewWrites(p)
      PROVE  Exclusive'
  <2>1. /\ at[p] = "renew" /\ UNCHANGED <<made, as, sound>>
        /\ lease' = IF made THEN [run |-> as[p], expired |-> FALSE] ELSE lease
        /\ \A q \in Process : at'[q] = IF q = p THEN "own" ELSE at[q]
    BY <1>0, <1>6, OneMoves DEF RenewWrites
  <2>2. made => lease.run = as[p] /\ as[p] \in Run
    BY <1>6, <2>1 DEF Strays, HitsAnother, LeaseShape
  <2>3. made => Held
    BY <2>2 DEF Held
  <2>4. Writers' = {} /\ Owners' = Owners
    <3>1. Writers = {}
      BY <2>3 DEF Exclusive
    <3>2. QED
      BY <2>1, <3>1
  <2>5. \A q \in Owners : lease' = [run |-> as[q], expired |-> FALSE]
    BY <1>0, <2>1, <2>2 DEF Exclusive
  <2>6. QED
    BY <2>1, <2>4, <2>5 DEF Exclusive
<1>7. ASSUME NEW p \in Process, ReleaseRemoves(p)
      PROVE  Exclusive'
  <2>1. /\ at[p] = "remove" /\ UNCHANGED <<as, sound>>
        /\ \A q \in Process : at'[q] = IF q = p THEN "out" ELSE at[q]
    BY <1>0, <1>7, OneMoves DEF ReleaseRemoves
  <2>2. /\ made => lease.run = as[p] /\ as[p] \in Run
        /\ \A q \in Owners \ {p} : as[q] # as[p]
    BY <1>7, <2>1 DEF Strays, HitsAnother, LeavesPartner, LeaseShape
  <2>3. Owners = {}
    BY <1>0, <2>1, <2>2 DEF LeaseTypeOK
  <2>4. Writers = {}
    BY <1>0, <2>2 DEF Exclusive, Held
  <2>5. Owners' = {} /\ Writers' = {}
    BY <2>1, <2>3, <2>4
  <2>6. QED
    BY <2>5 DEF Exclusive
<1>8. CASE ForceReads
  BY <1>8 DEF ForceReads, Exclusive, Held
<1>9. CASE ForceRemoves
  <2>1. /\ UNCHANGED <<at, as>> /\ forced \in Run
        /\ \A q \in Process : sound'[q] => sound[q] /\ ~made
    BY <1>0, <1>9 DEF ForceRemoves, LeaseTypeOK
  <2>2. made => lease.run = forced
    BY <1>9 DEF Strays, ForcesAnother
  <2>3. Writers = {}
    BY <2>1, <2>2 DEF Exclusive, Held
  <2>4. Owners' = {}
    BY <1>0, <2>1 DEF LeaseTypeOK
  <2>5. QED
    BY <2>1, <2>3, <2>4 DEF Exclusive
<1>10. CASE Expire
  <2>1. /\ UNCHANGED <<made, at, as>> /\ Held
        /\ \A q \in Process : sound'[q] => sound[q] /\ as[q] # lease.run
    BY <1>0, <1>10 DEF Expire, LeaseTypeOK
  <2>2. Writers = {} /\ Owners' = {}
    BY <1>0, <2>1 DEF Exclusive
  <2>3. QED
    BY <2>1, <2>2 DEF Exclusive
<1>11. CASE UNCHANGED leaseVars
  BY <1>11 DEF leaseVars, Exclusive, Held
<1>12. QED
  BY <1>1, <1>2, <1>3, <1>4, <1>5, <1>6, <1>7, <1>8, <1>9, <1>10, <1>11 DEF LeaseNext, LeaseStep

LEMMA LeaseStepHolds ==
  ASSUME LeaseInv, [HistoryNext]_<<leaseVars, strayed>>
  PROVE  LeaseInv'
<1>1. [LeaseNext]_leaseVars
  BY DEF HistoryNext
<1>2. LeaseShape'
  BY <1>1, ShapeStep DEF LeaseInv
<1>3. ASSUME ~strayed'
      PROVE  Exclusive'
  <2>1. CASE HistoryNext
    <3>1. ~strayed /\ ~Strays
      BY <1>3, <2>1 DEF HistoryNext
    <3>2. QED
      BY <1>1, <3>1, ExclusiveStep DEF LeaseInv
  <2>2. CASE UNCHANGED <<leaseVars, strayed>>
    BY <1>3, <2>2 DEF LeaseInv, leaseVars, Exclusive, Held, Writers, Owners
  <2>3. QED
    BY <2>1, <2>2
<1>4. QED
  BY <1>2, <1>3 DEF LeaseInv

\* The lease on disk and the places of its processes keep their shape, and a lease.json lies in
\* a directory, for any processes and runs (readLease, acquireTaskLease, releaseTaskLease).
THEOREM LeaseTypeCorrect == HistorySpec => []LeaseTypeOK
<1>1. LeaseInv => LeaseTypeOK
  BY DEF LeaseInv, LeaseShape
<1>2. QED
  BY LeaseInitHolds, LeaseStepHolds, <1>1, PTL DEF HistorySpec

\* Mutual exclusion of the lease (acquireTaskLease, renewTaskLease, releaseTaskLease,
\* forceReleaseTaskLease) with leases that expire at any moment, operators that force them and
\* processes that die between any two file operations, for any processes and runs: there are
\* two owners only after an operation hit a lease other than the one it was decided on.
THEOREM LeaseIsExclusiveUnlessStrayed == HistorySpec => []OneOwnerUnlessStrayed
<1>1. LeaseInv => OneOwnerUnlessStrayed
  <2>1. ASSUME LeaseShape, Exclusive PROVE OneOwner
    BY <2>1, OwnerHolds DEF OneOwner
  <2>2. QED
    BY <2>1 DEF LeaseInv, OneOwnerUnlessStrayed
<1>2. QED
  BY LeaseInitHolds, LeaseStepHolds, <1>1, PTL DEF HistorySpec

-----------------------------------------------------------------------------
(* The queue *)

Statuses == {"absent", "queued", "claimed", "succeeded", "dead-letter"}
Items == [Wakeup -> [status : Statuses, attempt : Nat]]
InHand   == {"check", "defer", "deferring", "lease", "run", "succeed", "succeeding", "fail", "failing"}
InLock   == {"claiming", "deferring", "succeeding", "failing"}

QueueTypes ==
  /\ queue \in Items
  /\ lock \in Process \cup {Free}
  /\ seen \in [Process -> Items]
  /\ pc \in [Process -> InHand \cup InLock \cup {"idle", "release", "dead"}]
  /\ on \in [Process -> Wakeup \cup {NoRun}]
  /\ failed \in [Wakeup -> Nat]

QueueInv ==
  /\ QueueTypes
  /\ \A p \in Process : pc[p] \in InLock => lock = p /\ seen[p] = queue
  /\ \A p \in Working : on[p] \in Wakeup
  /\ OneWorkerPerWakeup
  /\ AttemptsAreFailures
  /\ \A w \in Wakeup : queue[w].status = "claimed" => failed[w] < MaxAttempts

LEMMA QueueInitHolds == WorkerInit => QueueInv
<1> SUFFICES ASSUME WorkerInit PROVE QueueInv
  OBVIOUS
<1>1. Working = {}
  BY DEF WorkerInit, Working
<1>2. QueueTypes
  BY DEF WorkerInit, QueueTypes, Empty, NoItem, Items, Statuses, InHand, InLock
<1>3. AttemptsAreFailures
  BY WorkerAssumption DEF WorkerInit, AttemptsAreFailures, Empty, NoItem, WorkerAssumption
<1>4. QED
  BY <1>1, <1>2, <1>3 DEF QueueInv, WorkerInit, InLock, OneWorkerPerWakeup, Empty, NoItem

\* A step that writes no queue and takes no lock keeps the invariant, when the process that
\* moves stays with its wakeup or is done with it.
LEMMA OutsideTheLock ==
  ASSUME QueueInv, UNCHANGED <<queue, lock, seen, failed, on>>, NEW p \in Process, NEW to,
         Go(p, to), to \in (InHand \cup {"idle", "release", "dead"}) \ InLock,
         to \in InHand => pc[p] \in InHand
  PROVE  QueueInv'
<1>1. pc' \in [Process -> InHand \cup InLock \cup {"idle", "release", "dead"}]
  BY DEF QueueInv, QueueTypes, Go
<1>2. \A q \in Process : pc'[q] = IF q = p THEN to ELSE pc[q]
  BY DEF QueueInv, QueueTypes, Go
<1>3. Working' \subseteq Working
  BY <1>2 DEF Working, InHand
<1>4. QED
  BY <1>1, <1>2, <1>3 DEF QueueInv, QueueTypes, OneWorkerPerWakeup, AttemptsAreFailures

\* A process that holds the lock is alone in it, so that what it writes is what the queue is
\* but for the wakeup w it is about.
LEMMA WriteInTheLock ==
  ASSUME QueueInv, NEW p \in Process, pc[p] \in InLock, NEW w \in Wakeup, NEW item, NEW to,
         NEW items \in Items, \A v \in Wakeup : items[v] = IF v = w THEN item ELSE queue[v],
         Save(p, items), Go(p, to),
         to \in (InHand \cup {"idle", "release"}) \ InLock
  PROVE  /\ failed' \in [Wakeup -> Nat] /\ on' \in [Process -> Wakeup \cup {NoRun}] => QueueTypes'
         /\ \A q \in Process : pc'[q] = IF q = p THEN to ELSE pc[q]
         /\ \A q \in Process : pc'[q] \notin InLock
         /\ \A v \in Wakeup : queue'[v] = IF v = w THEN item ELSE queue[v]
<1>1. \A q \in Process : pc'[q] = IF q = p THEN to ELSE pc[q]
  BY DEF QueueInv, QueueTypes, Go
<1>2. \A q \in Process : pc'[q] \notin InLock
  BY <1>1 DEF QueueInv
<1>3. \A v \in Wakeup : queue'[v] = IF v = w THEN item ELSE queue[v]
  BY DEF QueueInv, QueueTypes, Save, Items
<1>4. queue' \in Items /\ lock' \in Process \cup {Free}
  BY DEF QueueInv, QueueTypes, Save, Items
<1>5. seen' \in [Process -> Items]
  <2>1. Empty \in Items
    BY DEF Empty, NoItem, Items, Statuses
  <2>2. QED
    BY <2>1 DEF QueueInv, QueueTypes, Save
<1>6. pc' \in [Process -> InHand \cup InLock \cup {"idle", "release", "dead"}]
  BY DEF QueueInv, QueueTypes, Go
<1>7. QED
  BY <1>1, <1>2, <1>3, <1>4, <1>5, <1>6 DEF QueueTypes

LEMMA QueueStepHolds ==
  ASSUME QueueInv, [WorkerNext]_workerVars
  PROVE  QueueInv'
<1> USE DEF queueVars, timeVars, leaseVars
<1>1. ASSUME NEW p \in Process, Lock(p)
      PROVE  QueueInv'
  <2>1. PICK to \in InLock : /\ Go(p, to)
                             /\ to \in InHand => pc[p] \in InHand
    BY <1>1 DEF Lock, InLock, InHand
  <2>2. /\ \A q \in Process : pc'[q] = IF q = p THEN to ELSE pc[q]
        /\ pc' \in [Process -> InHand \cup InLock \cup {"idle", "release", "dead"}]
    BY <2>1 DEF QueueInv, QueueTypes, Go
  <2>3. /\ lock = Free /\ lock' = p /\ seen' = [seen EXCEPT ![p] = queue]
        /\ UNCHANGED <<queue, on, failed>>
    BY <1>1 DEF Lock
  <2>4. \A q \in Process : pc[q] \notin InLock
    BY <2>3, WorkerAssumption DEF QueueInv, WorkerAssumption
  <2>5. QueueTypes'
    BY <2>2, <2>3 DEF QueueInv, QueueTypes
  <2>6. \A q \in Process : pc'[q] \in InLock => lock' = q /\ seen'[q] = queue'
    BY <2>2, <2>3, <2>4 DEF QueueInv, QueueTypes
  <2>7. Working' \subseteq Working
    BY <2>1, <2>2 DEF Working, InHand
  <2>8. QED
    BY <2>3, <2>5, <2>6, <2>7 DEF QueueInv, OneWorkerPerWakeup, AttemptsAreFailures
<1>2. ASSUME NEW p \in Process, Busy(p)
      PROVE  QueueInv'
  <2>1. PICK to \in {"fail", "release", "idle"} : Go(p, to) /\ (to = "fail" => pc[p] \in InHand)
    BY <1>2 DEF Busy, Leave, InHand
  <2>2. QED
    BY <1>2, <2>1, OutsideTheLock DEF Busy, InHand, InLock
<1>3. ASSUME NEW p \in Process, Check(p) \/ RunEnds(p)
      PROVE  QueueInv'
  <2>1. PICK to \in {"fail", "defer", "succeed"} : Go(p, to) /\ pc[p] \in InHand
    BY <1>3 DEF Check, RunEnds, InHand
  <2>2. QED
    BY <1>3, <2>1, OutsideTheLock DEF Check, RunEnds, InHand, InLock
<1>4. ASSUME NEW p \in Process, Acquire(p)
      PROVE  QueueInv'
  <2>1. PICK to \in {"run", "fail", "lease"} : Go(p, to) /\ pc[p] \in InHand
    BY <1>4 DEF Acquire, InHand
  <2>2. QED
    BY <1>4, <2>1, OutsideTheLock DEF Acquire, InHand, InLock
<1>5. ASSUME NEW p \in Process, Release(p)
      PROVE  QueueInv'
  <2>1. CASE at'[p] = "out"
    BY <1>5, <2>1, OutsideTheLock DEF Release, InHand, InLock
  <2>2. CASE UNCHANGED pc
    BY <1>5, <2>2 DEF Release, QueueInv, QueueTypes, Working, OneWorkerPerWakeup, AttemptsAreFailures
  <2>3. QED
    BY <1>5, <2>1, <2>2 DEF Release
<1>6. ASSUME NEW p \in Process, Killed(p)
      PROVE  QueueInv'
  BY <1>6, OutsideTheLock DEF Killed, InHand, InLock
<1>7. ASSUME LeaseLapses \/ \E w \in Wakeup : Due(w)
      PROVE  QueueInv'
  <2>1. UNCHANGED <<queue, lock, seen, failed, pc, on>>
    BY <1>7 DEF LeaseLapses, Due
  <2>2. QED
    BY <2>1 DEF QueueInv, QueueTypes, Working, OneWorkerPerWakeup, AttemptsAreFailures
<1>8. ASSUME NEW w \in Wakeup, Enqueue(w)
      PROVE  QueueInv'
  <2>1. \A p \in Process : pc[p] \notin InLock
    BY <1>8, WorkerAssumption DEF QueueInv, WorkerAssumption, Enqueue
  <2>2. queue' \in Items
    BY <1>8 DEF QueueInv, QueueTypes, Enqueue, Items, Statuses
  <2>3. \A v \in Wakeup : queue'[v] = [queue[v] EXCEPT !.status = IF v = w THEN "queued" ELSE @]
    BY <1>8 DEF QueueInv, QueueTypes, Enqueue, Items
  <2>4. QED
    BY <1>8, <2>1, <2>2, <2>3
       DEF QueueInv, QueueTypes, Working, OneWorkerPerWakeup, AttemptsAreFailures, Enqueue, Items
<1>9. ASSUME NEW p \in Process, Save(p, seen[p]), pc[p] \in InLock, UNCHANGED <<on, failed>>,
             NEW to \in {"idle", "fail", "release"}, Go(p, to), to = "fail" => pc[p] \in InHand
      PROVE  QueueInv'
  <2>1. seen[p] = queue /\ queue' = queue
    BY <1>9 DEF QueueInv, Save
  <2>2. QueueTypes'
    <3>1. Empty \in Items
      BY DEF Empty, NoItem, Items, Statuses
    <3>2. QED
      BY <1>9, <2>1, <3>1 DEF QueueInv, QueueTypes, Save, Go, InHand
  <2>3. \A q \in Process : pc'[q] = IF q = p THEN to ELSE pc[q]
    BY <1>9 DEF QueueInv, QueueTypes, Go
  <2>4. \A q \in Process : pc'[q] \notin InLock
    BY <1>9, <2>3 DEF QueueInv, InLock
  <2>5. Working' \subseteq Working
    BY <1>9, <2>3 DEF Working, InHand
  <2>6. QED
    BY <1>9, <2>1, <2>2, <2>4, <2>5 DEF QueueInv, OneWorkerPerWakeup, AttemptsAreFailures
<1>10. ASSUME NEW p \in Process, Claim(p)
       PROVE  QueueInv'
  <2>1. CASE Save(p, seen[p]) /\ Go(p, "idle") /\ UNCHANGED on
    BY <1>9, <1>10, <2>1 DEF Claim, InLock
  <2>2. ASSUME NEW w \in Ready(p),
               Save(p, [seen[p] EXCEPT ![w].status = "claimed", ![w].attempt = @ + 1]),
               on' = [on EXCEPT ![p] = w], Go(p, "check")
        PROVE  QueueInv'
    <3> DEFINE item == [status |-> "claimed", attempt |-> queue[w].attempt + 1]
    <3>1. w \in Wakeup /\ seen[p] = queue /\ queue[w].status = "queued" /\ pc[p] \in InLock
      BY <1>10, <2>2 DEF Claim, InLock, Ready, QueueInv
    <3> DEFINE items == [queue EXCEPT ![w].status = "claimed", ![w].attempt = @ + 1]
    <3>2. items \in Items /\ \A v \in Wakeup : items[v] = IF v = w THEN item ELSE queue[v]
      <4>1. queue \in Items /\ queue[w] \in [status : Statuses, attempt : Nat]
        BY <3>1 DEF QueueInv, QueueTypes, Items
      <4>2. queue[w].attempt + 1 \in Nat
        BY <4>1
      <4>3. items[w] = item
        BY <3>1, <4>1 DEF Items
      <4>4. \A v \in Wakeup \ {w} : items[v] = queue[v]
        BY <4>1 DEF Items
      <4>5. items \in Items
        <5>1. item \in [status : Statuses, attempt : Nat]
          BY <4>2 DEF Statuses
        <5>2. \A v \in Wakeup : items[v] \in [status : Statuses, attempt : Nat]
          BY <4>1, <4>3, <4>4, <5>1 DEF Items
        <5>3. QED
          BY <4>1, <5>2 DEF Items
      <4>6. QED
        BY <3>1, <4>3, <4>4, <4>5
    <3>9. item.status = "claimed" /\ item.attempt = queue[w].attempt + 1
      OBVIOUS
    <3> HIDE DEF items, item
    <3>3. UNCHANGED failed
      BY <1>10 DEF Claim
    <3>4. /\ QueueTypes'
          /\ \A q \in Process : pc'[q] = IF q = p THEN "check" ELSE pc[q]
          /\ \A q \in Process : pc'[q] \notin InLock
          /\ \A v \in Wakeup : queue'[v] = IF v = w THEN item ELSE queue[v]
      <4>1. failed' \in [Wakeup -> Nat] /\ on' \in [Process -> Wakeup \cup {NoRun}]
        BY <2>2, <3>1, <3>3 DEF QueueInv, QueueTypes
      <4>2. "check" \in (InHand \cup {"idle", "release"}) \ InLock
        BY DEF InHand, InLock
      <4>3. Save(p, items)
        BY <2>2, <3>1 DEF items
      <4>4. Go(p, "check")
        BY <2>2
      <4>5. QED
        BY <3>1, <3>2, <4>1, <4>2, <4>3, <4>4, WriteInTheLock
    <3>5. \A q \in Process : on'[q] = IF q = p THEN w ELSE on[q]
      BY <2>2 DEF QueueInv, QueueTypes
    <3>6. Working' = Working \cup {p} /\ \A q \in Working : on[q] # w
      BY <3>1, <3>4 DEF Working, QueueInv, OneWorkerPerWakeup
    <3>7. OneWorkerPerWakeup' /\ \A q \in Working' : on'[q] \in Wakeup
      <4>1. \A q \in Working' : on'[q] \in Wakeup /\ queue'[on'[q]].status = "claimed"
        <5>1. on'[p] = w /\ queue'[w].status = "claimed"
          BY <3>1, <3>4, <3>5, <3>9
        <5>2. \A q \in Working \ {p} : on'[q] = on[q] /\ on[q] \in Wakeup /\ on[q] # w
                                      /\ queue[on[q]].status = "claimed" /\ q \in Process
          BY <3>5, <3>6 DEF QueueInv, OneWorkerPerWakeup, Working
        <5>3. \A q \in Working \ {p} : queue'[on[q]] = queue[on[q]]
          BY <3>4, <5>2
        <5>4. QED
          BY <3>1, <3>6, <5>1, <5>2, <5>3
      <4>2. \A q, r \in Working' : on'[q] = on'[r] => q = r
        BY <3>1, <3>5, <3>6 DEF QueueInv, OneWorkerPerWakeup, Working
      <4>3. QED
        BY <4>1, <4>2 DEF OneWorkerPerWakeup
    <3>8. AttemptsAreFailures' /\ \A v \in Wakeup : queue'[v].status = "claimed" => failed'[v] < MaxAttempts
      <4>1. queue[w].attempt = failed[w] /\ failed[w] < MaxAttempts /\ failed[w] # MaxAttempts
        BY <3>1, WorkerAssumption DEF QueueInv, AttemptsAreFailures, QueueTypes, WorkerAssumption
      <4>2. \A v \in Wakeup \ {w} : queue'[v] = queue[v] /\ failed'[v] = failed[v]
        BY <3>3, <3>4
      <4>3. queue'[w] = item /\ failed'[w] = failed[w]
        BY <3>1, <3>3, <3>4
      <4>4. QED
        BY <3>9, <4>1, <4>2, <4>3 DEF QueueInv, AttemptsAreFailures
    <3>10. QED
      BY <3>4, <3>7, <3>8 DEF QueueInv
  <2>3. QED
    BY <1>10, <2>1, <2>2 DEF Claim
<1>11. ASSUME NEW p \in Process, pc[p] \in InHand \cap InLock, NEW to \in {"idle", "release"},
              NEW item \in [status : Statuses, attempt : Nat],
              NEW items \in Items,
              \A v \in Wakeup : items[v] = IF v = on[p] THEN item ELSE queue[v],
              Save(p, items), Go(p, to), UNCHANGED on,
              failed' \in [Wakeup -> Nat], \A v \in Wakeup \ {on[p]} : failed'[v] = failed[v],
              item.status # "claimed",
              item.status \in {"absent", "queued"}
                => item.attempt = failed'[on[p]] /\ failed'[on[p]] < MaxAttempts,
              item.status = "dead-letter" <=> failed'[on[p]] = MaxAttempts
       PROVE  QueueInv'
  <2>1. on[p] \in Wakeup /\ p \in Working
    BY <1>11 DEF QueueInv, Working, InHand
  <2>2. /\ QueueTypes'
        /\ \A q \in Process : pc'[q] = IF q = p THEN to ELSE pc[q]
        /\ \A q \in Process : pc'[q] \notin InLock
        /\ \A v \in Wakeup : queue'[v] = IF v = on[p] THEN item ELSE queue[v]
    <3>1. on' \in [Process -> Wakeup \cup {NoRun}]
      BY <1>11 DEF QueueInv, QueueTypes
    <3>2. to \in (InHand \cup {"idle", "release"}) \ InLock
      BY <1>11 DEF InLock
    <3>3. QED
      BY <1>11, <2>1, <3>1, <3>2, WriteInTheLock
  <2>3. Working' = Working \ {p} /\ \A q \in Working \ {p} : on[q] # on[p]
    BY <1>11, <2>1, <2>2 DEF Working, QueueInv, OneWorkerPerWakeup
  <2>4. OneWorkerPerWakeup' /\ \A q \in Working' : on'[q] \in Wakeup
    BY <1>11, <2>2, <2>3 DEF QueueInv, OneWorkerPerWakeup
  <2>5. AttemptsAreFailures' /\ \A v \in Wakeup : queue'[v].status = "claimed" => failed'[v] < MaxAttempts
    <3>1. \A v \in Wakeup \ {on[p]} : queue'[v] = queue[v] /\ failed'[v] = failed[v]
      BY <1>11, <2>2
    <3>2. queue'[on[p]] = item
      BY <2>1, <2>2
    <3>3. QED
      BY <1>11, <2>1, <3>1, <3>2 DEF QueueInv, AttemptsAreFailures
  <2>6. QED
    BY <2>2, <2>4, <2>5 DEF QueueInv
<1>12. ASSUME NEW p \in Process, Defer(p) \/ Succeed(p) \/ Fail(p)
       PROVE  QueueInv'
  <2>1. /\ pc[p] \in InHand \cap InLock /\ on[p] \in Wakeup /\ seen[p] = queue /\ UNCHANGED on
        /\ p \in Working /\ queue[on[p]].status = "claimed"
    BY <1>12 DEF Defer, Succeed, Fail, InHand, InLock, QueueInv, Working, OneWorkerPerWakeup
  <2>2. /\ queue[on[p]].attempt = failed[on[p]] + 1 /\ failed[on[p]] < MaxAttempts
        /\ queue[on[p]] \in [status : Statuses, attempt : Nat] /\ failed[on[p]] \in Nat
        /\ failed \in [Wakeup -> Nat] /\ queue \in Items
    BY <2>1 DEF QueueInv, AttemptsAreFailures, QueueTypes, Items
  <2>3. CASE Defer(p)
    <3> DEFINE item == [status |-> "queued", attempt |-> failed[on[p]]]
    <3> DEFINE items == [queue EXCEPT ![on[p]].status = "queued",
                                      ![on[p]].attempt = IF @ = 0 THEN 0 ELSE @ - 1]
    <3>1. items \in Items /\ \A v \in Wakeup : items[v] = IF v = on[p] THEN item ELSE queue[v]
      BY <2>1, <2>2 DEF Items, Statuses
    <3>2. Save(p, items) /\ Go(p, "idle") /\ UNCHANGED failed
      BY <2>1, <2>3, <3>1 DEF Defer, Mine
    <3>3. item \in [status : Statuses, attempt : Nat]
      BY <2>2 DEF Statuses
    <3> HIDE DEF items
    <3>4. QED
      BY <1>11, <2>1, <2>2, <3>1, <3>2, <3>3, WorkerAssumption DEF WorkerAssumption
  <2>4. CASE Succeed(p)
    <3> DEFINE item == [status |-> "succeeded", attempt |-> queue[on[p]].attempt]
    <3> DEFINE items == [queue EXCEPT ![on[p]].status = "succeeded"]
    <3>1. items \in Items /\ \A v \in Wakeup : items[v] = IF v = on[p] THEN item ELSE queue[v]
      BY <2>1, <2>2 DEF Items, Statuses
    <3>2. Save(p, items) /\ Go(p, "release") /\ UNCHANGED failed
      BY <2>1, <2>4, <3>1 DEF Succeed, Mine
    <3>3. item \in [status : Statuses, attempt : Nat]
      BY <2>2 DEF Statuses
    <3> HIDE DEF items
    <3>4. QED
      BY <1>11, <2>1, <2>2, <3>1, <3>2, <3>3, WorkerAssumption DEF WorkerAssumption
  <2>5. CASE Fail(p)
    <3> DEFINE next == IF queue[on[p]].attempt < MaxAttempts THEN "queued" ELSE "dead-letter"
               item == [status |-> next, attempt |-> queue[on[p]].attempt]
    <3> DEFINE items == [queue EXCEPT ![on[p]].status = next]
    <3>1. items \in Items /\ \A v \in Wakeup : items[v] = IF v = on[p] THEN item ELSE queue[v]
      BY <2>1, <2>2 DEF Items, Statuses
    <3>2. /\ Save(p, items) /\ Leave(p)
          /\ failed' = [failed EXCEPT ![on[p]] = @ + 1]
      BY <2>1, <2>5, <3>1 DEF Fail, Mine
    <3>3. item \in [status : Statuses, attempt : Nat]
      BY <2>2 DEF Statuses
    <3> HIDE DEF items
    <3>4. PICK to \in {"idle", "release"} : Go(p, to)
      BY <3>2 DEF Leave
    <3>5. /\ failed' \in [Wakeup -> Nat] /\ failed'[on[p]] = failed[on[p]] + 1
          /\ \A v \in Wakeup \ {on[p]} : failed'[v] = failed[v]
      BY <2>1, <2>2, <3>2
    <3>6. /\ item.status # "claimed"
          /\ item.status = "queued" => failed[on[p]] + 1 < MaxAttempts
          /\ item.status = "dead-letter" <=> failed[on[p]] + 1 = MaxAttempts
      BY <2>2, WorkerAssumption DEF WorkerAssumption
    <3>7. QED
      BY <1>11, <2>1, <2>2, <3>1, <3>2, <3>3, <3>4, <3>5, <3>6
  <2>6. QED
    BY <1>12, <2>3, <2>4, <2>5
<1>13. CASE UNCHANGED workerVars
  BY <1>13 DEF workerVars, QueueInv, QueueTypes, Working, OneWorkerPerWakeup, AttemptsAreFailures
<1>14. QED
  BY <1>1, <1>2, <1>3, <1>4, <1>5, <1>6, <1>7, <1>8, <1>10, <1>12, <1>13
     DEF WorkerNext, WorkerStep

\* A claimed wakeup is in the hands of one worker (claimNextWakeup under the lock directory),
\* whatever the leases do, whichever workers are killed and wherever.
THEOREM AlwaysOneWorkerPerWakeup == WorkerSpec => []OneWorkerPerWakeup
<1>1. QueueInv => OneWorkerPerWakeup
  BY DEF QueueInv
<1>2. QED
  BY QueueInitHolds, QueueStepHolds, <1>1, PTL DEF WorkerSpec

\* A deferral costs no attempt and a dead letter has failed MaxAttempts times (deferWakeup,
\* finishWakeup).
THEOREM AttemptsAlwaysFailures == WorkerSpec => []AttemptsAreFailures
<1>1. QueueInv => AttemptsAreFailures
  BY DEF QueueInv
<1>2. QED
  BY QueueInitHolds, QueueStepHolds, <1>1, PTL DEF WorkerSpec

===============================================================================
