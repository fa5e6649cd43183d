------------------------------ MODULE MCAloha -------------------------------
(* Traffic slower than, as fast as and faster than the node polls for it;  *)
(* an interval or a poll interval of zero is within what the code accepts. *)
EXTENDS Aloha
=============================================================================
