---------------------------- MODULE MCPromotion -----------------------------
(* Small instances of Promotion for TLC.                                   *)
EXTENDS Promotion, TLC

CONSTANTS c1, c2, f1, f2

TwoChanges == {c1, c2}
TwoFiles   == {f1, f2}
SameFile   == c1 :> f1 @@ c2 :> f1
=============================================================================
