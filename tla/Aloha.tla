-------------------------------- MODULE Aloha -------------------------------
(***************************************************************************)
(* An ALOHA node as the scheduler drives it: woken exactly when it asked   *)
(* to be, and polled for a transmission in the handler of each callback.   *)
(* Module AlohaNetwork shows that the scheduler treats its nodes so.       *)
(***************************************************************************)
EXTENDS AlohaNode, Sequences

CONSTANTS
  Intervals,  \* interval_us of the traffic
  Polls,      \* poll_interval_us of the node
  Counts      \* payloads the traffic is made to produce

ASSUME AlohaAssumption ==
  Intervals \subseteq Nat /\ Polls \subseteq Nat /\ Counts \subseteq Nat

VARIABLES
  node,  \* the node
  wake   \* its queued wake: << >> or <<time>>

vars == <<node, wake>>

Init ==
  /\ \E interval \in Intervals, poll \in Polls, count \in Counts :
       node = NewNode(interval, poll, count)
  /\ wake = <<0>>

(* The handler of a wake: update, then poll_transmit.                      *)
Update ==
  /\ wake # << >>
  /\ LET answer == TryGenerateTx(node, wake[1])
     IN  node' = PollTransmit(answer.node) /\ wake' = answer.wake

(* The handler of a frame: on_receive ignores it.                          *)
Receive == node' = PollTransmit(node) /\ UNCHANGED wake

Next == Update \/ Receive

(* The wake is queued, and the scheduler pops it.                          *)
Spec == Init /\ [][Next]_vars /\ WF_vars(Update)

-----------------------------------------------------------------------------
TypeOK ==
  /\ node \in [interval : Intervals, poll : Polls, remaining : Nat, nextTime : Nat,
               pending : BOOLEAN, sent : Nat, probed : Nat]
  /\ wake \in Seq(Nat) /\ Len(wake) <= 1

(* The payloads the traffic of this node was made to produce.              *)
Produced == node.remaining + (IF node.pending THEN 1 ELSE 0) + node.sent + node.probed

(***************************************************************************)
(* No payload is invented or sent twice: each one is still to come, is     *)
(* pending, was sent, or was taken by a probe.                             *)
(***************************************************************************)
PayloadAccounting == [][Produced' = Produced]_vars

(***************************************************************************)
(* The node stops asking to be woken, as try_generate_tx promises, instead *)
(* of keeping the queue of the scheduler busy for ever.                    *)
(***************************************************************************)
FallsSilent == <>[](wake = << >>)

(***************************************************************************)
(* The doc of try_generate_tx: it returns the next wake time, "or None if  *)
(* traffic is permanently exhausted".                                      *)
(***************************************************************************)
StopsOnlyWhenExhausted == wake = << >> => node.remaining = 0
=============================================================================
