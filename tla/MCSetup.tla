------------------------------ MODULE MCSetup -------------------------------
(* Small instances of Setup for TLC.                                       *)
EXTENDS Setup, TLC

CONSTANTS u1, u2, p1, p2

\* Each user may push to a repository of their own.
MCCanWrite == {<<u1, p1>>, <<u2, p2>>}
=============================================================================
