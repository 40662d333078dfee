--------------------------- MODULE MCBuildManager ---------------------------
(* Instances of BuildManager for TLC. *)
EXTENDS BuildManager

(* Every phase of ExecuteBuild is entered in the same way.  A single one is *)
(* both the first and the last; of two, the first is not the last.          *)
OnePhase == <<"packaging">>
TwoPhases == <<"building", "packaging">>
=============================================================================
