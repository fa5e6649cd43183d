---------------------------- MODULE MCPastWakes -----------------------------
(* The scheduler without the timer contract: one node and one interferer   *)
(* that may ask for a wake an instant back, with one band and frames that  *)
(* are all level with each other.                                          *)
EXTENDS Scheduler

OneBackToOneAhead == {-1, 0, 1}
=============================================================================
