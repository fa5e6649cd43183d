------------------------------ MODULE AlohaNode -----------------------------
(***************************************************************************)
(* The pure ALOHA node of examples/aloha/aloha_node.rs with its            *)
(* PeriodicTraffic, as a value and the functions its callbacks apply to    *)
(* it.  Every frame of a node is the same, so only its presence is kept.   *)
(* A wake time that a callback may or may not return is a sequence.        *)
(***************************************************************************)
EXTENDS Naturals

NewNode(interval, poll, count) ==
  [interval  |-> interval,  \* interval_us of the traffic
   poll      |-> poll,      \* poll_interval_us
   remaining |-> count,     \* payloads not produced yet
   nextTime  |-> 0,         \* next_time
   pending   |-> FALSE,     \* pending_tx is Some
   sent      |-> 0,         \* payloads handed over to be transmitted
   probed    |-> 0]         \* payloads taken by a probe

(* Mutation of Yields: an empty budget is not noticed.                     *)
YieldsUnchecked(node, time) == time >= node.nextTime

(* PeriodicTraffic::next_payload returns Some.                             *)
Yields(node, time) == node.remaining > 0 /\ time >= node.nextTime

(* What it does then.                                                      *)
TakePayload(node, time) ==
  [node EXCEPT !.remaining = @ - 1, !.nextTime = time + node.interval]

(* Mutation of Probe: the node asks to be woken again all the same.        *)
ProbeAwake(node, time) ==
  LET future == time + node.poll
  IN  IF Yields(node, future)
      THEN [node |-> [TakePayload(node, future) EXCEPT !.probed = @ + 1],
            wake |-> <<future>>]
      ELSE [node |-> node, wake |-> <<time>>]

(* The probe calls next_payload too, and drops what it is given.           *)
Probe(node, time) ==
  LET future == time + node.poll
  IN  IF Yields(node, future)
      THEN [node |-> [TakePayload(node, future) EXCEPT !.probed = @ + 1],
            wake |-> <<future>>]
      ELSE [node |-> node, wake |-> << >>]

(* update, that is try_generate_tx.                                        *)
TryGenerateTx(node, time) ==
  IF node.pending THEN [node |-> node, wake |-> <<time>>]
  ELSE IF Yields(node, time)
       THEN [node |-> [TakePayload(node, time) EXCEPT !.pending = TRUE],
             wake |-> <<time>>]
       ELSE Probe(node, time)

(* Mutation of PollTransmit: the transmission is cloned, not taken.        *)
PollTransmitCloned(node) ==
  IF node.pending THEN [node EXCEPT !.sent = @ + 1] ELSE node

(* poll_transmit takes what is pending.                                    *)
PollTransmit(node) ==
  IF node.pending THEN [node EXCEPT !.pending = FALSE, !.sent = @ + 1] ELSE node
=============================================================================
