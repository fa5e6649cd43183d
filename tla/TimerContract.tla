--------------------------- MODULE TimerContract ----------------------------
(***************************************************************************)
(* The scheduler when its callers keep their side of the timer contract:   *)
(* no wake, first poll or next poll is asked for in the past.              *)
(***************************************************************************)
EXTENDS Scheduler

ASSUME TimerContract == Delays \subseteq Nat
=============================================================================
