---------------------------- MODULE MCChatRelay -----------------------------
(* Small instances of ChatRelay for TLC.                                   *)
EXTENDS ChatRelay, TLC

CONSTANTS r1, r2, r3, t1, t2
=============================================================================
