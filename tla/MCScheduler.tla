---------------------------- MODULE MCScheduler -----------------------------
(* Two nodes, whose identifiers may be the same, and an interferer, whose  *)
(* synthetic identifier, 3, is one a node may want too; or a node and two  *)
(* interferers, 4 and 3.  Powers 0 and 2 are level with themselves and     *)
(* apart by the threshold.                                                 *)
EXTENDS TimerContract, TLC

Symmetry == Permutations(Bands)
=============================================================================
