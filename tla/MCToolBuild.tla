----------------------------- MODULE MCToolBuild ----------------------------
(* Small instances of ToolBuild for TLC.                                   *)
EXTENDS ToolBuild, TLC

CONSTANTS c1, c2, c3

Alike == Permutations(Calls)
=============================================================================
