----------------------------- MODULE MCChannel ------------------------------
(* Three frames from one sender, on two bands and at three powers: 0 and 1 *)
(* are level, 3 beats both.  A frame lasts no time at all or two ticks.    *)
EXTENDS Channel, TLC

Symmetry == Permutations(Bands)
=============================================================================
