---------------------------- MODULE MCSupervisor ----------------------------
(* A small instance of Supervisor for TLC.                                 *)
EXTENDS Supervisor, TLC

CONSTANTS g1, g2

TwoGoals == {g1, g2}
RankTwo  == g1 :> 1 @@ g2 :> 2
=============================================================================
