----------------------------- MODULE MCVerifier -----------------------------
(* Small instances of Verifier for TLC.                                    *)
EXTENDS Verifier, TLC

CONSTANTS v1, v2

TwoChanges == {v1, v2}
Apart      == (v1 :> 1) @@ (v2 :> 2)
=============================================================================
