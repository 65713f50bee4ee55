----------------------------- MODULE MCObjective -----------------------------
(***************************************************************************)
(* Instances of Objective for TLC: one node, or two in a row; one call of  *)
(* runObjective, or two in the dashboard.                                  *)
(***************************************************************************)
EXTENDS ObjectiveConsole, TLC

CONSTANTS a, b, d1, d2

Alone == a :> {}
Chain == a :> {} @@ b :> {a}
InDashboard  == d1 :> Dashboard @@ d2 :> Dashboard
JustOne      == d1 :> Dashboard

=============================================================================
