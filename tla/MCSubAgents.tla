---------------------------- MODULE MCSubAgents -----------------------------
(* Small instances of SubAgents for TLC.                                   *)
EXTENDS SubAgents, TLC

CONSTANTS j1, j2

OneJob    == {j1}
TwoJobs   == {j1, j2}
TwoGuards == {"router", "tools"}
=============================================================================
