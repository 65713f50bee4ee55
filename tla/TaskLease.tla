------------------------------ MODULE TaskLease ------------------------------
(***************************************************************************)
(* The lease of one task (factory/lib/leases/task-lease.mjs): a directory  *)
(* <taskId>.lease holding lease.json.  Acquire, renew and release are      *)
(* sequences of file operations by separate processes; each operation is a *)
(* step.  Leases of different tasks share nothing.                         *)
(*                                                                         *)
(* Abstracted: audit events, validation of identifiers and versions, clock *)
(* values (a lease is expired or it is not), who the operator is.          *)
(***************************************************************************)
EXTENDS Naturals, FiniteSets

CONSTANTS
  Process,    \* the processes that may want the lease
  Run,        \* (actorId, runId) pairs
  RunsOf,     \* the runs a process may act for
  Lapses      \* how a lease may end early: its ttl, an operator's force

NoRun   == "none"

ASSUME LeaseAssumption ==
  /\ RunsOf \in [Process -> SUBSET Run] /\ NoRun \notin Run
  /\ Lapses \subseteq {"expiry", "force"}

NoLease == [run |-> NoRun, expired |-> FALSE]

VARIABLES
  made,   \* the lease directory exists
  lease,  \* its lease.json, NoLease before it is written
  at,     \* where a process is inside the lease operations
  as,     \* the run a process acts for
  forced, \* the run whose lease an operator has read, to remove it
  sound   \* history: the process's last acquire was not expired or forced since

leaseVars == <<made, lease, at, as, forced, sound>>

LeaseInit ==
  /\ made = FALSE /\ lease = NoLease
  /\ at = [p \in Process |-> "out"]
  /\ as = [p \in Process |-> NoRun] /\ forced = NoRun
  /\ sound = [p \in Process |-> FALSE]

Move(p, to) == at' = [at EXCEPT ![p] = to]
Own(p) == Move(p, "own") /\ sound' = [sound EXCEPT ![p] = TRUE]

\* readLease: the lease on disk, none while lease.json is missing.
Held == lease # NoLease

\* acquireTaskLease up to its first write.  The caller's own unexpired lease is
\* returned as it is; another's unexpired one is a conflict.
AcquireReads(p, run) ==
  /\ at[p] = "out"
  /\ as' = [as EXCEPT ![p] = run]
  /\ \/ Held /\ ~lease.expired /\ lease.run = run /\ Own(p)
     \/ Held /\ ~lease.expired /\ lease.run # run /\ Move(p, "out") /\ UNCHANGED sound
     \/ Held /\ lease.expired /\ Move(p, "retire") /\ UNCHANGED sound
     \/ ~Held /\ Move(p, "mkdir") /\ UNCHANGED sound
  /\ UNCHANGED <<made, lease, forced>>

\* retireExpired renames the directory that is at the path now.
AcquireRetires(p) ==
  /\ at[p] = "retire"
  /\ made' = FALSE /\ lease' = NoLease
  /\ Move(p, "mkdir")
  /\ UNCHANGED <<as, forced, sound>>

\* Mutant: mkdir tolerates a directory that is there.
AcquireMakes_Recursive(p) ==
  /\ at[p] = "mkdir"
  /\ made' = TRUE
  /\ Move(p, "write")
  /\ UNCHANGED <<lease, as, forced, sound>>

\* mkdir is the atomic step; EEXIST is a conflict.
AcquireMakes(p) ==
  /\ at[p] = "mkdir"
  /\ made' = TRUE
  /\ Move(p, IF made THEN "out" ELSE "write")
  /\ UNCHANGED <<lease, as, forced, sound>>

\* writeLease; without its directory it throws.
AcquireWrites(p) ==
  /\ at[p] = "write"
  /\ IF made THEN /\ lease' = [run |-> as[p], expired |-> FALSE]
                  /\ Own(p)
             ELSE Move(p, "out") /\ UNCHANGED <<lease, sound>>
  /\ UNCHANGED <<made, as, forced>>

\* renewTaskLease: the owner is checked, then the lease is written.
RenewReads(p) ==
  /\ at[p] = "own" /\ lease.run = as[p] /\ ~lease.expired
  /\ Move(p, "renew")
  /\ UNCHANGED <<made, lease, as, forced, sound>>

RenewWrites(p) ==
  /\ at[p] = "renew"
  /\ lease' = IF made THEN [run |-> as[p], expired |-> FALSE] ELSE lease
  /\ Move(p, "own")
  /\ UNCHANGED <<made, as, forced, sound>>

\* releaseTaskLease: the owner is checked, an expired lease included; a caller
\* that is not the owner is told and gives up.
ReleaseReads(p) ==
  /\ at[p] = "own"
  /\ Move(p, IF lease.run = as[p] THEN "remove" ELSE "out")
  /\ sound' = [sound EXCEPT ![p] = FALSE]
  /\ UNCHANGED <<made, lease, as, forced>>

ReleaseRemoves(p) ==
  /\ at[p] = "remove"
  /\ made' = FALSE /\ lease' = NoLease
  /\ Move(p, "out")
  /\ UNCHANGED <<as, forced, sound>>

\* forceReleaseTaskLease: an operator, for a reason; without a lease nothing is done.
ForceReads ==
  /\ "force" \in Lapses /\ forced = NoRun /\ Held
  /\ forced' = lease.run
  /\ UNCHANGED <<made, lease, at, as, sound>>

\* The directory that is at the path now goes.
ForceRemoves ==
  /\ forced # NoRun /\ forced' = NoRun
  /\ made' = FALSE /\ lease' = NoLease
  /\ sound' = [p \in Process |-> sound[p] /\ ~made]
  /\ UNCHANGED <<at, as>>

\* The ttl of the lease runs out.
Expire ==
  /\ "expiry" \in Lapses /\ Held /\ ~lease.expired
  /\ lease' = [lease EXCEPT !.expired = TRUE]
  /\ sound' = [p \in Process |-> sound[p] /\ as[p] # lease.run]
  /\ UNCHANGED <<made, at, as, forced>>

Die(p) ==
  /\ at[p] # "dead"
  /\ Move(p, "dead")
  /\ sound' = [sound EXCEPT ![p] = FALSE]
  /\ UNCHANGED <<made, lease, as, forced>>

LeaseStep(p) ==
  \/ AcquireRetires(p) \/ AcquireMakes(p) \/ AcquireWrites(p)
  \/ RenewWrites(p) \/ ReleaseRemoves(p)

LeaseNext ==
  \/ \E p \in Process :
       \/ \E run \in RunsOf[p] : AcquireReads(p, run)
       \/ LeaseStep(p) \/ RenewReads(p) \/ ReleaseReads(p) \/ Die(p)
  \/ ForceReads \/ ForceRemoves \/ Expire

-----------------------------------------------------------------------------
(* Properties                                                              *)

\* What is on disk and where the processes are.
LeaseTypeOK ==
  /\ made \in BOOLEAN /\ sound \in [Process -> BOOLEAN]
  /\ lease \in [run : Run, expired : BOOLEAN] \cup {NoLease}
  /\ as \in [Process -> Run \cup {NoRun}] /\ forced \in Run \cup {NoRun}
  /\ at \in [Process -> {"out", "retire", "mkdir", "write", "own", "renew", "remove", "dead"}]
  /\ Held => made

Owners == {p \in Process : at[p] \in {"own", "renew"} /\ sound[p]}

\* Two processes never both have a lease that acquire returned and that neither
\* expired nor was forced since, unless they act for the same run: "100 contenders
\* produce exactly one owner", "expired owner can be atomically replaced"
\* (factory/test/task-lease.test.mjs:10, :25).
OneOwner == \A p, q \in Owners : as[p] = as[q]

=============================================================================
