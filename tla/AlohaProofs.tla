----------------------------- MODULE AlohaProofs ----------------------------
(***************************************************************************)
(* Theorems about an ALOHA node, for all intervals, all poll intervals and *)
(* all numbers of payloads.                                                *)
(***************************************************************************)
EXTENDS Aloha, SequenceTheorems, TLAPS

Nodes ==
  [interval : Intervals, poll : Polls, remaining : Nat, nextTime : Nat,
   pending : BOOLEAN, sent : Nat, probed : Nat]

Wakes == {w \in Seq(Nat) : Len(w) <= 1}

(* The payloads that traffic and node account for.                         *)
Payloads(n) == n.remaining + (IF n.pending THEN 1 ELSE 0) + n.sent + n.probed

LEMMA ShortWakes ==
  /\ << >> \in Wakes
  /\ \A time \in Nat : <<time>> \in Wakes
BY DEF Wakes

LEMMA WakeIsOneTime ==
  ASSUME NEW w \in Wakes, w # << >>
  PROVE  w = <<w[1]>> /\ w[1] \in Nat
<1>1. w \in Seq(Nat) /\ Len(w) = 1
  <2> DEFINE length == Len(w)
  <2>1. w \in Seq(Nat) /\ length <= 1
    BY DEF Wakes
  <2>2. length \in Nat /\ length # 0
    BY <2>1, EmptySeq
  <2> HIDE DEF length
  <2>3. length = 1
    BY <2>1, <2>2
  <2> QED
    BY <2>1, <2>3 DEF length
<1>2. w[1] \in Nat
  BY <1>1
<1>3. <<w[1]>> \in Seq(Nat) /\ Len(<<w[1]>>) = 1 /\ <<w[1]>>[1] = w[1]
  BY <1>2
<1>4. \A i \in 1..1 : i = 1
  OBVIOUS
<1> QED
  BY <1>1, <1>2, <1>3, <1>4, SeqEqual

(* What is known of the fields of a node.                                  *)
LEMMA NodeFields ==
  ASSUME NEW n \in Nodes
  PROVE  /\ n.interval \in Intervals /\ n.interval \in Nat
         /\ n.poll \in Polls /\ n.poll \in Nat
         /\ n.remaining \in Nat /\ n.nextTime \in Nat /\ n.pending \in BOOLEAN
         /\ n.sent \in Nat /\ n.probed \in Nat
BY AlohaAssumption DEF AlohaAssumption, Nodes

(* next_payload leaves one payload less to come, and the rest as it was.   *)
LEMMA TakingAPayload ==
  ASSUME NEW n \in Nodes, NEW time \in Nat, Yields(n, time)
  PROVE  LET t == TakePayload(n, time)
         IN  /\ t \in Nodes
             /\ t.remaining = n.remaining - 1
             /\ t.pending = n.pending /\ t.sent = n.sent /\ t.probed = n.probed
<1> DEFINE less == n.remaining - 1
           later == time + n.interval
           t == [n EXCEPT !.remaining = less, !.nextTime = later]
<1>1. less \in Nat /\ later \in Nat
  BY NodeFields DEF Yields
<1>2. TakePayload(n, time) = t
  BY DEF TakePayload
<1> HIDE DEF less, later
<1>3. /\ t \in Nodes /\ t.remaining = less
      /\ t.pending = n.pending /\ t.sent = n.sent /\ t.probed = n.probed
  BY <1>1 DEF Nodes
<1> HIDE DEF t
<1> QED BY <1>2, <1>3 DEF less

(***************************************************************************)
(* update: it moves payloads about and asks for a wake or for none.        *)
(***************************************************************************)
LEMMA TryingKeepsPayloads ==
  ASSUME NEW n \in Nodes, NEW time \in Nat
  PROVE  /\ TryGenerateTx(n, time).node \in Nodes
         /\ TryGenerateTx(n, time).wake \in Wakes
         /\ Payloads(TryGenerateTx(n, time).node) = Payloads(n)
         /\ TryGenerateTx(n, time).node.sent = n.sent
<1> DEFINE future == time + n.poll
<1>1. future \in Nat
  BY NodeFields
<1>2. CASE n.pending
  BY <1>2, ShortWakes DEF TryGenerateTx
<1>3. CASE ~ n.pending /\ Yields(n, time)
  <2> DEFINE t == TakePayload(n, time)
             m == [t EXCEPT !.pending = TRUE]
  <2>1. /\ t \in Nodes /\ t.remaining = n.remaining - 1
        /\ t.sent = n.sent /\ t.probed = n.probed
    BY <1>3, TakingAPayload
  <2>2. TryGenerateTx(n, time) = [node |-> m, wake |-> <<time>>]
    BY <1>3 DEF TryGenerateTx
  <2> HIDE DEF t
  <2>3. /\ m \in Nodes /\ m.pending = TRUE /\ m.remaining = t.remaining
        /\ m.sent = t.sent /\ m.probed = t.probed
    BY <2>1 DEF Nodes
  <2> HIDE DEF m
  <2>4. Payloads(m) = Payloads(n) /\ m.sent = n.sent
    BY <1>3, <2>1, <2>3, NodeFields DEF Payloads
  <2> QED BY <2>2, <2>3, <2>4, ShortWakes
<1>4. CASE ~ n.pending /\ ~ Yields(n, time) /\ Yields(n, future)
  <2> DEFINE t == TakePayload(n, future)
             m == [t EXCEPT !.probed = t.probed + 1]
  <2>1. /\ t \in Nodes /\ t.remaining = n.remaining - 1
        /\ t.pending = n.pending /\ t.sent = n.sent /\ t.probed = n.probed
    BY <1>1, <1>4, TakingAPayload
  <2>2. TryGenerateTx(n, time) = [node |-> m, wake |-> <<future>>]
    BY <1>4 DEF TryGenerateTx, Probe
  <2> HIDE DEF t
  <2>3. /\ m \in Nodes /\ m.pending = t.pending /\ m.remaining = t.remaining
        /\ m.sent = t.sent /\ m.probed = t.probed + 1
    BY <2>1 DEF Nodes
  <2> HIDE DEF m, future
  <2>4. Payloads(m) = Payloads(n) /\ m.sent = n.sent
    BY <1>4, <2>1, <2>3, NodeFields DEF Payloads
  <2> QED BY <1>1, <2>2, <2>3, <2>4, ShortWakes
<1>5. CASE ~ n.pending /\ ~ Yields(n, time) /\ ~ Yields(n, future)
  BY <1>5, ShortWakes DEF TryGenerateTx, Probe
<1> QED BY <1>2, <1>3, <1>4, <1>5

(* poll_transmit moves the pending payload to those that were sent.        *)
LEMMA PollingKeepsPayloads ==
  ASSUME NEW n \in Nodes
  PROVE  /\ PollTransmit(n) \in Nodes /\ Payloads(PollTransmit(n)) = Payloads(n)
         /\ PollTransmit(n).sent = n.sent + (IF n.pending THEN 1 ELSE 0)
<1>1. CASE n.pending
  <2> DEFINE more == n.sent + 1
             m == [n EXCEPT !.pending = FALSE, !.sent = more]
  <2>1. PollTransmit(n) = m /\ more \in Nat
    BY <1>1, NodeFields DEF PollTransmit
  <2> HIDE DEF more
  <2>2. /\ m \in Nodes /\ m.pending = FALSE /\ m.remaining = n.remaining
        /\ m.sent = more /\ m.probed = n.probed
    BY <2>1 DEF Nodes
  <2> HIDE DEF m
  <2>3. Payloads(m) = Payloads(n)
    BY <1>1, <2>2, NodeFields DEF Payloads, more
  <2>4. m.sent = n.sent + (IF n.pending THEN 1 ELSE 0)
    BY <1>1, <2>2 DEF more
  <2> QED BY <2>1, <2>2, <2>3, <2>4
<1>2. CASE ~ n.pending
  BY <1>2, NodeFields DEF PollTransmit
<1> QED BY <1>1, <1>2

(* The node has its type, and its wakes are at most one.                   *)
Typed == node \in Nodes /\ wake \in Wakes

LEMMA TypedMeansTypeOK == TypeOK <=> Typed
BY DEF TypeOK, Typed, Nodes, Wakes

LEMMA InitTyped == Init => Typed
<1> SUFFICES ASSUME Init PROVE Typed
  OBVIOUS
<1> PICK interval \in Intervals, poll \in Polls, count \in Counts :
      node = NewNode(interval, poll, count)
  BY DEF Init
<1>1. node \in Nodes
  BY AlohaAssumption DEF AlohaAssumption, NewNode, Nodes
<1> QED BY <1>1, ShortWakes DEF Init, Typed

(* What either handler does.                                               *)
LEMMA StepKeepsPayloads ==
  ASSUME Typed, [Next]_vars
  PROVE  Typed' /\ Payloads(node') = Payloads(node)
<1>1. CASE Update
  <2>1. wake[1] \in Nat
    BY <1>1 DEF Update, Typed, Wakes
  <2> QED BY <1>1, <2>1, TryingKeepsPayloads, PollingKeepsPayloads DEF Update, Typed
<1>2. CASE Receive
  BY <1>2, PollingKeepsPayloads DEF Receive, Typed
<1>3. CASE UNCHANGED vars
  BY <1>3 DEF vars, Typed
<1> QED BY <1>1, <1>2, <1>3 DEF Next

-----------------------------------------------------------------------------
(***************************************************************************)
(* A node has one wake at most and its budget never goes below zero, which *)
(* for the usize of the code would be a panic.                             *)
(***************************************************************************)
THEOREM AlohaTypeCorrect == Spec => []TypeOK
<1>1. Typed /\ [Next]_vars => Typed'
  BY StepKeepsPayloads
<1> QED BY <1>1, InitTyped, TypedMeansTypeOK, PTL DEF Spec

(***************************************************************************)
(* No payload is invented, lost or sent twice, whatever the traffic and    *)
(* the order of wakes and receptions: update, probe and poll_transmit only *)
(* move a payload from one account to another.                             *)
(***************************************************************************)
THEOREM PayloadsAreAccountedFor == Spec => PayloadAccounting
<1>1. Typed /\ [Next]_vars => [Produced' = Produced]_vars
  BY StepKeepsPayloads DEF Produced, Payloads
<1>2. Typed /\ [Next]_vars => Typed'
  BY StepKeepsPayloads
<1> QED BY <1>1, <1>2, InitTyped, PTL DEF Spec, PayloadAccounting
=============================================================================
