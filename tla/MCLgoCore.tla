----------------------------- MODULE MCLgoCore -----------------------------
(* Small instances of LgoCore for TLC. *)
EXTENDS LgoCoreInv

CONSTANTS g1, g2     \* goroutines, as model values

OneSub  == {g1}
TwoSubs == {g1, g2}
=============================================================================
