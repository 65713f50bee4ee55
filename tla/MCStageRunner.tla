---------------------------- MODULE MCStageRunner ----------------------------
(***************************************************************************)
(* Instances of StageRunner for TLC: a pipeline with one concurrent group  *)
(* of two gates.                                                           *)
(***************************************************************************)
EXTENDS StageRunner

ReviewedStages == <<"architect", "builder", "reviewer", "qa", "release">>
ReviewGroup    == <<"reviewer", "qa">>
ShortStages    == <<"architect", "builder", "release">>
NoGroup        == <<>>

=============================================================================
