----------------------------- MODULE MCServices -----------------------------
(***************************************************************************)
(* Three services in one run: the overnight queue, the delivery of finished *)
(* work and the mirror of the company.  They share no state, so in a        *)
(* behaviour one of them is at work and the others are at rest; `part' says *)
(* which.                                                                   *)
(***************************************************************************)
EXTENDS OvernightQueue, Delivery, Mirror

VARIABLES part

\* One process with two items and two restarts, or two processes with one item.
Both       == {"dashboard", "worker"}
MCUsers    == {{"dashboard"}, Both}
MCMaxItems == [u \in MCUsers |-> IF Cardinality(u) = 1 THEN 2 ELSE 1]
MCMaxPids  == [u \in MCUsers |-> IF Cardinality(u) = 1 THEN 3 ELSE 2]

\* At rest a part is in one of its initial states, always the same.
Init ==
  /\ part \in {"night", "work", "mirror"}
  /\ NightInit /\ DeliveryInit /\ MirrorInit
  /\ part # "night" => users = Both
  /\ part # "work"  => diff = AllTasks /\ hosted

Next ==
  /\ UNCHANGED part
  /\ \/ part = "night" /\ NightNext /\ UNCHANGED <<deliveryVars, mirrorVars>>
     \/ part = "work" /\ DeliveryNext /\ UNCHANGED <<nightVars, mirrorVars>>
     \/ part = "mirror" /\ MirrorNext /\ UNCHANGED <<nightVars, deliveryVars>>

\* At rest nothing that a part owes is enabled.
Spec ==
  /\ Init /\ [][Next]_<<part, nightVars, deliveryVars, mirrorVars>>
  /\ NightFairness /\ DeliveryFairness /\ MirrorFairness
=============================================================================
