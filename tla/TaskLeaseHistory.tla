--------------------------- MODULE TaskLeaseHistory ---------------------------
(***************************************************************************)
(* The lease of a task with its history: has an operation ever hit a lease *)
(* other than the one it was decided on?  Every operation of TaskLease     *)
(* looks at lease.json in one step and acts on the path in a later one,    *)
(* and neither rename, rm nor the write asks again what is there.  The     *)
(* history variable constrains nothing.                                    *)
(***************************************************************************)
EXTENDS TaskLease

VARIABLES strayed

\* A claimant saw an expired lease and retires one that is not, or not written yet.
RetiresAnother(p) == AcquireRetires(p) /\ made /\ ~lease.expired

\* An owner whose lease has lapsed and was taken over releases or renews the new one.
HitsAnother(p) == (ReleaseRemoves(p) \/ RenewWrites(p)) /\ made /\ lease.run # as[p]

\* A process gives back what another process of the same run was given too.
LeavesPartner(p) == ReleaseRemoves(p) /\ \E q \in Owners \ {p} : as[q] = as[p]

\* An operator removes a lease other than the one that was read.
ForcesAnother == ForceRemoves /\ made /\ lease.run # forced

Strays ==
  \/ \E p \in Process : RetiresAnother(p) \/ HitsAnother(p) \/ LeavesPartner(p)
  \/ ForcesAnother

HistoryInit == LeaseInit /\ strayed = FALSE
HistoryNext == LeaseNext /\ strayed' = (strayed \/ Strays)
HistorySpec == HistoryInit /\ [][HistoryNext]_<<leaseVars, strayed>>

\* Two owners come about in these four ways only: with leases that expire at any
\* moment, operators that force them and processes that die between any two file
\* operations, the lease is exclusive as long as no operation hits a lease other
\* than the one it was decided on (mkdir of acquireTaskLease is the one test that
\* is made where the directory is made).
OneOwnerUnlessStrayed == strayed \/ OneOwner

=============================================================================
