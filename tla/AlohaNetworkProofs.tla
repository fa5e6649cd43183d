------------------------- MODULE AlohaNetworkProofs -------------------------
(***************************************************************************)
(* What the ALOHA simulation guarantees for every number of senders, all   *)
(* their intervals and every length of the run.  The argument: a step of   *)
(* the network is a step of the scheduler, so all that is proved of the    *)
(* scheduler holds; a sender has one wake in the queue and hands a payload *)
(* over exactly when the scheduler puts a frame on the air; the receiver   *)
(* takes each frame that came through in the step in which its cursor      *)
(* passes the receiver.                                                    *)
(***************************************************************************)
EXTENDS AlohaNetwork, AccountingProofs

(* The lemmas of AlohaProofs about what a node does with a value hold      *)
(* whatever its variables are; those of the first sender stand in.         *)
AP == INSTANCE AlohaProofs WITH
  node <- senders[1], wake <- WakeOf(1), Polls <- {Poll}, Counts <- {Count}

(* The nodes are registered in the order of their identifiers, the         *)
(* receiver first, and no simulation runs before all of them are.          *)
InPlace ==
  /\ \A i \in DOMAIN nodes : nodes[i] = i - 1
  /\ pc # "setup" => Len(nodes) = NumSenders + 1

(* Each sender has one wake at most, and the receiver none.                *)
OneWakeEach ==
  /\ \A e \in events : e.kind = "Wake" => e.who \in SenderIds
  /\ \A id \in SenderIds : \A e, f \in WakesOf(id) : e = f

(* What was handed over is on the air, frame by frame, and counted.        *)
HandedOver ==
  /\ senders \in [SenderIds -> AP!Nodes]
  /\ \A id \in SenderIds : metrics.tx[id] = senders[id].sent
  /\ \A f \in Ch!FrameIds : frames[f].sender \in SenderIds
  /\ IsFiniteSet(Handed) /\ Cardinality(Handed) = Len(frames)

(* The frames that came through and have passed the receiver, the first of *)
(* the nodes that each is delivered to.                                    *)
Passed ==
  {f \in (Settled \cup {delivering}) \ {NoFrame} :
     f \notin collided /\ (f = delivering => cursor > 1)}

(* They are what the receiver has, in the order of their ends.             *)
Kept ==
  /\ received \in Seq(Nat)
  /\ {received[n] : n \in DOMAIN received} = Passed
  /\ Len(received) = Cardinality(Passed)
  /\ \A m, n \in DOMAIN received : m < n => EarlierEnd(received[m], received[n])
  /\ metrics.rx[Receiver] = Len(received)

(* The inductive invariant, next to those of the scheduler.                *)
NInv == InPlace /\ OneWakeEach /\ HandedOver /\ Kept

-----------------------------------------------------------------------------
(* What the assumptions say of the constants.                              *)
LEMMA NetworkConstants ==
  /\ NumSenders \in Nat /\ Intervals \subseteq Nat /\ Count \in Nat /\ Poll \in Nat
  /\ Duration \in Nat /\ Duration \in Durations /\ MaxInterferers = 0
  /\ Receiver \notin SenderIds /\ Receiver \in NodeIds /\ SenderIds \subseteq NodeIds
  /\ SenderIds \subseteq Nat
  /\ NodeIds \subseteq Senders
  /\ Starts \subseteq Nat
<1>1. /\ NumSenders \in Nat /\ Intervals \subseteq Nat /\ Count \in Nat
      /\ Duration \in Durations /\ Durations \subseteq Nat /\ MaxInterferers = 0
      /\ NodeIds = {Receiver} \cup SenderIds
      /\ Poll \in Delays /\ Starts \subseteq Delays /\ Delays \subseteq Nat
  BY AlohaNetworkAssumption, SchedulerAssumption, TimerContract
<1> QED
  BY <1>1 DEF Receiver, SenderIds, Senders

(* What the callbacks of a sender make of it.                              *)
LEMMA SenderFunctions ==
  ASSUME NEW n \in AP!Nodes, NEW time \in Nat
  PROVE  /\ n.sent \in Nat /\ n.pending \in BOOLEAN
         /\ TryGenerateTx(n, time).node \in AP!Nodes
         /\ TryGenerateTx(n, time).wake \in AP!Wakes
         /\ TryGenerateTx(n, time).node.sent = n.sent
         /\ PollTransmit(n) \in AP!Nodes
         /\ PollTransmit(n).sent = n.sent + (IF n.pending THEN 1 ELSE 0)
<1>1. /\ TryGenerateTx(n, time) = AP!TryGenerateTx(n, time)
      /\ PollTransmit(n) = AP!PollTransmit(n)
  BY DEF TryGenerateTx, Yields, TakePayload, Probe, PollTransmit,
         AP!TryGenerateTx, AP!Yields, AP!TakePayload, AP!Probe, AP!PollTransmit
<1>2. Intervals \subseteq Nat /\ {Poll} \subseteq Nat /\ {Count} \subseteq Nat
  BY NetworkConstants
<1>3. /\ n.sent \in Nat /\ n.pending \in BOOLEAN
      /\ AP!TryGenerateTx(n, time).node \in AP!Nodes
      /\ AP!TryGenerateTx(n, time).wake \in AP!Wakes
      /\ AP!TryGenerateTx(n, time).node.sent = n.sent
      /\ AP!PollTransmit(n) \in AP!Nodes
      /\ AP!PollTransmit(n).sent = n.sent + (IF n.pending THEN 1 ELSE 0)
  BY <1>2, AP!NodeFields, AP!TryingKeepsPayloads, AP!PollingKeepsPayloads
<1> QED
  BY <1>1, <1>3, Zenon

-----------------------------------------------------------------------------
(***************************************************************************)
(* A step of the network is a step of the scheduler.                       *)
(***************************************************************************)
LEMMA NetworkStepIsStep == [NetworkNext]_networkVars => [Next]_vars
<1> SUFFICES ASSUME [NetworkNext]_networkVars
             PROVE  [Next]_vars
  OBVIOUS
<1>1. CASE NetworkSetup
  <2>1. CASE AddReceiver
    BY <2>1, NetworkConstants DEF AddReceiver, Setup, Next
  <2>2. ASSUME NEW id \in SenderIds, NEW start, AddSender(id, start)
        PROVE  Next
    BY <2>2, NetworkConstants DEF AddSender, Setup, Next
  <2> QED
    BY <1>1, <2>1, <2>2 DEF NetworkSetup, RunNetwork, Setup, Next
<1>2. CASE NetworkLoop
  BY <1>2 DEF NetworkLoop, SenderWoken, Loop, Next
<1>3. CASE NetworkDelivery
  BY <1>3 DEF NetworkDelivery, SenderHears, ReceiverHears, Delivery, Next
<1>4. CASE UNCHANGED networkVars
  BY <1>4 DEF networkVars
<1> QED
  BY <1>1, <1>2, <1>3, <1>4 DEF NetworkNext

LEMMA NetworkIsScheduler == NetworkSpec => Spec
<1>1. NetworkInit => Init
  BY DEF NetworkInit
<1> QED
  BY <1>1, NetworkStepIsStep, PTL DEF NetworkSpec, Spec

(* So the invariants of the scheduler hold, and the flags tell the truth.  *)
SInv == IInv /\ AInv /\ Ordered /\ Ch!CollidedIffDestroyed

LEMMA SchedulerIsKept == NetworkSpec => []SInv
<1>1. Spec => []Ordered
  BY OrderIsKept, TimerContract
<1>2. Spec => [](Ch!CollidedIffDestroyed /\ Ch!CapturedIffSurvived)
  BY DeliveryGoesByTrueVerdicts, TimerContract
<1> QED
  BY <1>1, <1>2, NetworkIsScheduler, Inductive, AccountsAreKept, PTL DEF SInv

-----------------------------------------------------------------------------
(***************************************************************************)
(* What the handler of a sender leaves in the queue.                       *)
(***************************************************************************)

(* The requests of a sender: its wake, and the completion of its frame.    *)
Asked(id, wake, node, time) ==
  Requests(wake, "Wake", id)
    \o IF node.pending THEN <<Request(time + Duration, "TxComplete", id)>> ELSE << >>

WakesIn(queue, id) == {e \in queue : e.kind = "Wake" /\ e.who = id}

WakeEvent(time, id) == [time |-> time, seq |-> seq, kind |-> "Wake", who |-> id]

(* A short sequence and another one.                                       *)
LEMMA ShortSequences ==
  ASSUME NEW S, NEW a \in S, NEW b \in S
  PROVE  /\ << >> \o << >> = << >> /\ <<a>> \o << >> = <<a>>
         /\ << >> \o <<b>> = <<b>> /\ <<a>> \o <<b>> = <<a, b>>
         /\ << >> \in Seq(S) /\ <<a>> \in Seq(S) /\ <<a, b>> \in Seq(S)
<1>1. << >> \in Seq(S) /\ <<a>> \in Seq(S) /\ <<b>> \in Seq(S) /\ <<a, b>> \in Seq(S)
  OBVIOUS
<1>2. <<a>> \o <<b>> = <<a, b>>
  <2>1. /\ <<a>> \o <<b>> \in Seq(S)
        /\ Len(<<a>> \o <<b>>) = 2
        /\ (<<a>> \o <<b>>)[1] = a /\ (<<a>> \o <<b>>)[2] = b
    BY <1>1, ConcatProperties
  <2>2. Len(<<a, b>>) = 2 /\ <<a, b>>[1] = a /\ <<a, b>>[2] = b
    OBVIOUS
  <2>3. \A i \in 1..2 : i = 1 \/ i = 2
    OBVIOUS
  <2> QED
    BY <1>1, <2>1, <2>2, <2>3, SeqEqual
<1> QED
  BY <1>1, <1>2, ConcatEmptySeq, EmptySeq

(* The requests one by one.                                                *)
Done(id, time) == Request(time + Duration, "TxComplete", id)

LEMMA AskedRequests ==
  ASSUME NEW id \in SenderIds, NEW wake \in AP!Wakes, NEW node \in AP!Nodes,
         NEW time \in Nat
  PROVE  /\ Asked(id, wake, node, time) \in Seq(RequestSet)
         /\ wake = << >> =>
              Asked(id, wake, node, time) =
                IF node.pending THEN <<Done(id, time)>> ELSE << >>
         /\ wake # << >> =>
              /\ wake = <<wake[1]>> /\ wake[1] \in Nat
              /\ Asked(id, wake, node, time) =
                   IF node.pending THEN <<Request(wake[1], "Wake", id), Done(id, time)>>
                                   ELSE <<Request(wake[1], "Wake", id)>>
<1> DEFINE done == Done(id, time)
           woken == Request(wake[1], "Wake", id)
           last == IF node.pending THEN <<done>> ELSE << >>
<1>1. done \in RequestSet
  BY NetworkConstants DEF Done, Request, RequestSet
<1>2. Asked(id, wake, node, time) = Requests(wake, "Wake", id) \o last
  BY DEF Asked, Done
<1>3. CASE wake = << >>
  <2>1. Requests(wake, "Wake", id) = << >>
    BY <1>3 DEF Requests
  <2> HIDE DEF done
  <2>2. << >> \o last = last /\ last \in Seq(RequestSet)
    BY <1>1, ShortSequences
  <2> QED
    BY <1>2, <1>3, <2>1, <2>2 DEF done
<1>4. CASE wake # << >>
  <2>1. wake = <<wake[1]>> /\ wake[1] \in Nat
    BY <1>4, AP!WakeIsOneTime, NetworkConstants
  <2>2. Requests(wake, "Wake", id) = <<woken>>
    BY <2>1 DEF Requests
  <2>3. woken \in RequestSet
    BY <2>1, NetworkConstants DEF Request, RequestSet
  <2> HIDE DEF done, woken
  <2>4. CASE node.pending
    <3>1. <<woken>> \o last = <<woken, done>> /\ <<woken, done>> \in Seq(RequestSet)
      BY <1>1, <2>3, <2>4, ShortSequences
    <3> QED
      BY <1>2, <1>4, <2>1, <2>2, <2>4, <3>1 DEF woken, done
  <2>5. CASE ~ node.pending
    <3>1. <<woken>> \o last = <<woken>> /\ <<woken>> \in Seq(RequestSet)
      BY <2>3, <2>5, ShortSequences
    <3> QED
      BY <1>2, <1>4, <2>1, <2>2, <2>5, <3>1 DEF woken
  <2> QED
    BY <2>4, <2>5
<1> QED
  BY <1>3, <1>4

(* The wakes of the others stay; its own is the one it asked for, if any.  *)
LEMMA WakesAfterTurn ==
  ASSUME seq \in Nat, NEW queue, NEW id \in SenderIds, NEW wake \in AP!Wakes,
         NEW node \in AP!Nodes, NEW time \in Nat,
         Schedule(queue, Asked(id, wake, node, time))
  PROVE  /\ \A e \in events' \ queue : e.kind = "Wake" => wake # << >>
                                          /\ e = WakeEvent(wake[1], id)
         /\ queue \subseteq events'
         /\ wake # << >> => WakeEvent(wake[1], id) \in events'
<1> DEFINE asked == Asked(id, wake, node, time)
           done == Done(id, time)
           woken == Request(wake[1], "Wake", id)
           event(n) == [time |-> asked[n].time, seq |-> seq + n - 1,
                        kind |-> asked[n].kind, who |-> asked[n].who]
<1>1. events' = queue \cup {event(n) : n \in DOMAIN asked}
  BY DEF Schedule
<1>2. /\ done.kind = "TxComplete"
      /\ woken.time = wake[1] /\ woken.kind = "Wake" /\ woken.who = id
  BY DEF Done, Request
<1>3. /\ wake = << >> => asked = IF node.pending THEN <<done>> ELSE << >>
      /\ wake # << >> => asked = IF node.pending THEN <<woken, done>> ELSE <<woken>>
  BY AskedRequests
<1> HIDE DEF asked, done, woken
<1>4. ASSUME NEW n \in DOMAIN asked, asked[n].kind = "Wake"
      PROVE  wake # << >> /\ n = 1
  BY <1>2, <1>3, <1>4
<1>5. wake # << >> => 1 \in DOMAIN asked /\ asked[1] = woken
  BY <1>3
<1>6. wake # << >> => event(1) = WakeEvent(wake[1], id)
  BY <1>2, <1>5 DEF WakeEvent
<1> QED
  BY <1>1, <1>4, <1>5, <1>6

(* Of two accounts of one call of schedule, both or neither speak of a     *)
(* completion.                                                             *)
LEMMA SameCompletions ==
  ASSUME seq \in Nat, NEW queue \in SUBSET EventSet, \A e \in queue : e.seq < seq,
         NEW asked \in Seq(RequestSet), Schedule(queue, asked)
  PROVE  (\E n \in DOMAIN asked : asked[n].kind = "TxComplete")
           <=> \E e \in events' \ queue : e.kind = "TxComplete"
<1> DEFINE event(n) == [time |-> asked[n].time, seq |-> seq + n - 1,
                        kind |-> asked[n].kind, who |-> asked[n].who]
<1>1. events' = queue \cup {event(n) : n \in DOMAIN asked}
  BY DEF Schedule
<1>2. ASSUME NEW n \in DOMAIN asked
      PROVE  event(n) \notin queue /\ event(n).kind = asked[n].kind
  <2>1. n \in Nat /\ n >= 1
    OBVIOUS
  <2>2. event(n).seq >= seq /\ event(n).seq \in Int
    BY <2>1
  <2>3. event(n) \in queue => event(n).seq < seq
    OBVIOUS
  <2> QED
    BY <2>2, <2>3
<1> HIDE DEF event
<1> QED
  BY <1>1, <1>2

(***************************************************************************)
(* The scheduler puts a frame on the air, for the node it polls, exactly   *)
(* when that node had one pending.                                         *)
(***************************************************************************)
LEMMA TransmitsWhatIsPending ==
  ASSUME IInv, NEW i \in DOMAIN nodes, NEW id \in SenderIds, NEW wake \in AP!Wakes,
         NEW node \in AP!Nodes, NEW time \in Nat, NEW queue \in SUBSET events,
         NEW answer \in Answers(time), NEW m, nodes[i] = id,
         HandlePollTransmit(i, time, queue, Requests(answer, "Wake", id), m),
         Schedule(queue, Asked(id, wake, node, time))
  PROVE  IF node.pending
         THEN NodeTransmits(i, time, queue, Requests(answer, "Wake", id), m)
         ELSE NodeStaysSilent(time, queue, Requests(answer, "Wake", id), m)
<1> DEFINE asked == Asked(id, wake, node, time)
           polled == Requests(answer, "Wake", id)
<1>1. /\ seq \in Nat /\ queue \in SUBSET EventSet /\ \A e \in queue : e.seq < seq
  BY DEF IInv, TypeOK, ClockAndNumbers
<1>2. id \in Senders
  BY NetworkConstants
<1>3. polled \in Seq(RequestSet) /\ \A n \in DOMAIN polled : polled[n].kind = "Wake"
  <2>1. polled \in Seq(RequestSet)
    BY <1>2, AnswerRequests
  <2> QED
    BY <2>1 DEF Requests, Request
<1>4. /\ asked \in Seq(RequestSet)
      /\ (\E n \in DOMAIN asked : asked[n].kind = "TxComplete") <=> node.pending
  <2>1. node.pending \in BOOLEAN
    BY SenderFunctions
  <2> DEFINE done == Done(id, time)
             woken == Request(wake[1], "Wake", id)
  <2>2. done.kind = "TxComplete" /\ woken.kind = "Wake"
    BY DEF Done, Request
  <2>3. /\ asked \in Seq(RequestSet)
        /\ wake = << >> => asked = IF node.pending THEN <<done>> ELSE << >>
        /\ wake # << >> => asked = IF node.pending THEN <<woken, done>> ELSE <<woken>>
    BY AskedRequests
  <2> HIDE DEF asked, done, woken
  <2>4. CASE wake = << >> /\ node.pending
    <3>1. asked = <<done>>
      BY <2>3, <2>4
    <3>2. 1 \in DOMAIN asked /\ asked[1].kind = "TxComplete"
      BY <2>2, <3>1
    <3> QED
      BY <2>3, <2>4, <3>2
  <2>5. CASE wake # << >> /\ node.pending
    <3>1. asked = <<woken, done>>
      BY <2>3, <2>5
    <3>2. 2 \in DOMAIN asked /\ asked[2].kind = "TxComplete"
      BY <2>2, <3>1
    <3> QED
      BY <2>3, <2>5, <3>2
  <2>6. CASE ~ node.pending
    <3>1. \A n \in DOMAIN asked : asked[n].kind = "Wake"
      BY <2>2, <2>3, <2>6
    <3> QED
      BY <2>3, <2>6, <3>1
  <2> QED
    BY <2>1, <2>4, <2>5, <2>6
<1> HIDE DEF asked, polled
<1>5. node.pending <=> \E e \in events' \ queue : e.kind = "TxComplete"
  <2>1. Schedule(queue, asked)
    BY DEF asked
  <2> QED
    BY <1>1, <1>4, <2>1, SameCompletions, Zenon
<1>6. ASSUME NodeStaysSilent(time, queue, polled, m)
      PROVE  ~ node.pending
  <2>1. Schedule(queue, polled)
    BY <1>6 DEF NodeStaysSilent
  <2>2. ~ \E n \in DOMAIN polled : polled[n].kind = "TxComplete"
    BY <1>3
  <2> QED
    BY <1>1, <1>3, <1>5, <2>1, <2>2, SameCompletions
<1>7. ASSUME NodeTransmits(i, time, queue, polled, m)
      PROVE  node.pending
  <2>1. PICK tx \in Ch!Transmissions :
          Schedule(queue, Append(polled, Request(time + tx.duration, "TxComplete", nodes[i])))
    BY <1>7 DEF NodeTransmits
  <2> DEFINE done == Request(time + tx.duration, "TxComplete", nodes[i])
             both == Append(polled, done)
  <2>2. done \in RequestSet /\ done.kind = "TxComplete"
    BY <1>2, TransmissionEnds DEF Request, RequestSet
  <2> HIDE DEF done
  <2>3. /\ both \in Seq(RequestSet)
        /\ Len(polled) + 1 \in DOMAIN both /\ both[Len(polled) + 1] = done
    BY <1>3, <2>2
  <2> HIDE DEF both
  <2>4. \E n \in DOMAIN both : both[n].kind = "TxComplete"
    BY <2>2, <2>3
  <2>5. Schedule(queue, both)
    BY <2>1 DEF both, done
  <2> QED
    BY <1>1, <1>5, <2>3, <2>4, <2>5, SameCompletions
<1> QED
  BY <1>6, <1>7 DEF HandlePollTransmit, polled

-----------------------------------------------------------------------------
(***************************************************************************)
(* What the handler of a sender does to the payloads, and what every other *)
(* step leaves alone.                                                      *)
(***************************************************************************)
LEMMA SamePayloads ==
  ASSUME HandedOver, NEW next \in [SenderIds -> AP!Nodes], senders' = next,
         \A x \in SenderIds : next[x].sent = senders[x].sent,
         frames' = frames, metrics'.tx = metrics.tx
  PROVE  HandedOver'
<1>1. Handed' = Handed
  BY DEF Handed
<1> QED
  BY <1>1 DEF HandedOver, Ch!FrameIds

LEMMA HandedOnceMore ==
  ASSUME HandedOver, NEW id \in SenderIds, NEW next \in [SenderIds -> AP!Nodes],
         senders' = next, next[id].sent = senders[id].sent + 1,
         \A x \in SenderIds \ {id} : next[x].sent = senders[x].sent
  PROVE  IsFiniteSet(Handed)' /\ Cardinality(Handed') = Cardinality(Handed) + 1
<1>1. \A x \in SenderIds : senders[x].sent \in Nat
  BY SenderFunctions DEF HandedOver
<1>2. PICK count : count = senders[id].sent + 1
  OBVIOUS
<1>3. \A x, n : <<x, n>> \in Handed <=> x \in SenderIds /\ n \in 1..senders[x].sent
  BY DEF Handed
<1>4. \A x, n : <<x, n>> \in Handed' <=> x \in SenderIds /\ n \in 1..next[x].sent
  BY DEF Handed
<1>5. Handed' = Handed \cup {<<id, count>>}
  <2>1. ASSUME NEW p
        PROVE  p \in Handed' <=> p \in Handed \cup {<<id, count>>}
    <3>1. p \in Handed' \cup Handed => \E x, n : p = <<x, n>>
      BY DEF Handed
    <3>2. \A x, n : <<x, n>> \in Handed' <=> <<x, n>> \in Handed \/ (x = id /\ n = count)
      <4>1. 1..next[id].sent = 1..senders[id].sent \cup {count}
        BY <1>1, <1>2
      <4> QED
        BY <1>3, <1>4, <4>1
    <3> QED
      BY <3>1, <3>2
  <2> QED
    BY <2>1
<1>6. <<id, count>> \notin Handed
  <2>1. count \notin 1..senders[id].sent
    BY <1>1, <1>2
  <2> QED
    BY <1>3, <2>1
<1> QED
  BY <1>5, <1>6, FS_AddElement DEF HandedOver

(* The handler of a sender, once its callback has left it as node.         *)
LEMMA SenderTurn ==
  ASSUME IInv, HandedOver, NEW i \in DOMAIN nodes, NEW id \in SenderIds, nodes[i] = id,
         NEW wake \in AP!Wakes, NEW node \in AP!Nodes, node.sent = senders[id].sent,
         NEW time \in Nat, NEW queue \in SUBSET events, NEW answer \in Answers(time),
         NEW m \in Counters, m.tx = metrics.tx,
         HandlePollTransmit(i, time, queue, Requests(answer, "Wake", id), m),
         SenderPolled(id, node, wake, time, queue)
  PROVE  HandedOver'
<1> DEFINE next == [senders EXCEPT ![id] = PollTransmit(node)]
<1>1. /\ senders \in [SenderIds -> AP!Nodes] /\ PollTransmit(node) \in AP!Nodes
      /\ PollTransmit(node).sent = senders[id].sent + (IF node.pending THEN 1 ELSE 0)
      /\ senders[id].sent \in Nat
  BY SenderFunctions DEF HandedOver
<1>2. /\ senders' = next /\ next \in [SenderIds -> AP!Nodes]
      /\ next[id] = PollTransmit(node)
      /\ \A x \in SenderIds \ {id} : next[x] = senders[x]
  BY <1>1 DEF SenderPolled
<1>3. Schedule(queue, Asked(id, wake, node, time))
  BY DEF SenderPolled, Asked
<1> HIDE DEF next
<1>4. CASE ~ node.pending
  <2>1. NodeStaysSilent(time, queue, Requests(answer, "Wake", id), m)
    BY <1>3, <1>4, TransmitsWhatIsPending
  <2>2. frames' = frames /\ metrics'.tx = metrics.tx
    BY <2>1 DEF NodeStaysSilent, channelVars
  <2>3. \A x \in SenderIds : next[x].sent = senders[x].sent
    BY <1>1, <1>2, <1>4
  <2> QED
    BY <1>2, <2>2, <2>3, SamePayloads
<1>5. CASE node.pending
  <2>1. NodeTransmits(i, time, queue, Requests(answer, "Wake", id), m)
    BY <1>3, <1>5, TransmitsWhatIsPending
  <2>2. PICK tx \in Ch!Transmissions :
          /\ Ch!BeginTransmission(id, tx, time)
          /\ ObserveAll(<<Started(id, tx.band, time)>>)
          /\ metrics' = RecordAirtime(RecordTx(m, id), tx.duration)
    BY <2>1 DEF NodeTransmits
  <2>3. id \in Senders /\ id \in NodeIds
    BY NetworkConstants
  <2>4. Len(frames') = Len(frames) + 1
    BY <2>2, <2>3, BeginningMarksTheAir DEF NewFrame
  <2>5. \A f \in Ch!FrameIds' : frames'[f].sender \in SenderIds
    BY <2>2, <2>3, BeginFacts DEF IInv, HandedOver
  <2>6. metrics'.tx = [metrics.tx EXCEPT ![id] = @ + 1] /\ metrics.tx \in [NodeIds -> Nat]
    BY <2>2 DEF RecordAirtime, RecordTx, Counters
  <2>7. \A x \in SenderIds : metrics'.tx[x] = next[x].sent
    BY <1>1, <1>2, <1>5, <2>6, NetworkConstants DEF HandedOver
  <2>8. /\ next[id].sent = senders[id].sent + 1
        /\ \A x \in SenderIds \ {id} : next[x].sent = senders[x].sent
    BY <1>1, <1>2, <1>5
  <2>9. IsFiniteSet(Handed)' /\ Cardinality(Handed') = Cardinality(Handed) + 1
    BY <1>2, <2>8, HandedOnceMore
  <2> QED
    BY <1>2, <2>4, <2>5, <2>7, <2>9 DEF HandedOver
<1> QED
  BY <1>4, <1>5

-----------------------------------------------------------------------------
(***************************************************************************)
(* What the handlers do to the wakes in the queue.                         *)
(***************************************************************************)
LEMMA QueueTurn ==
  ASSUME IInv, OneWakeEach, NEW id \in SenderIds, NEW wake \in AP!Wakes,
         NEW node \in AP!Nodes, NEW time \in Nat, NEW queue, queue \subseteq events,
         Schedule(queue, Asked(id, wake, node, time)),
         wake # << >> => WakesIn(queue, id) = {}
  PROVE  /\ OneWakeEach'
         /\ \A x \in SenderIds \ {id} : WakesOf(x)' = WakesIn(queue, x)
         /\ wake = << >> => WakesOf(id)' = WakesIn(queue, id)
         /\ wake # << >> => \E e : e.time = wake[1] /\ WakesOf(id)' = {e}
<1>1. seq \in Nat
  BY DEF IInv, TypeOK
<1>2. /\ \A e \in events' \ queue : e.kind = "Wake" => wake # << >>
                                       /\ e = WakeEvent(wake[1], id)
      /\ queue \subseteq events'
      /\ wake # << >> => WakeEvent(wake[1], id) \in events'
  BY <1>1, WakesAfterTurn
<1>3. /\ WakeEvent(wake[1], id).kind = "Wake" /\ WakeEvent(wake[1], id).who = id
      /\ WakeEvent(wake[1], id).time = wake[1]
  BY DEF WakeEvent
<1>4. /\ \A x \in SenderIds \ {id} : WakesOf(x)' = WakesIn(queue, x)
      /\ WakesOf(id)' = IF wake = << >> THEN WakesIn(queue, id)
                                        ELSE {WakeEvent(wake[1], id)}
  BY <1>2, <1>3 DEF WakesOf, WakesIn
<1>5. \A e \in events' : e.kind = "Wake" => e.who \in SenderIds
  BY <1>2, <1>3 DEF OneWakeEach
<1>6. ASSUME NEW x \in SenderIds, NEW e \in WakesOf(x)', NEW f \in WakesOf(x)'
      PROVE  e = f
  <2>1. WakesIn(queue, x) \subseteq WakesOf(x)
    BY DEF WakesIn, WakesOf
  <2>2. \A g, h \in WakesIn(queue, x) : g = h
    BY <2>1 DEF OneWakeEach
  <2> QED
    BY <1>4, <1>6, <2>2
<1> QED
  BY <1>3, <1>4, <1>5, <1>6 DEF OneWakeEach

(* The wake of a sender as module Aloha sees it.                           *)
TimeOf(wakes) == IF wakes = {} THEN << >> ELSE <<(CHOOSE e \in wakes : TRUE).time>>

LEMMA TimeOfOne ==
  ASSUME NEW e
  PROVE  TimeOf({e}) = <<e.time>> /\ TimeOf({}) = << >>
BY DEF TimeOf

LEMMA WakeOfIsTime ==
  ASSUME NEW id
  PROVE  WakeOf(id) = TimeOf(WakesOf(id)) /\ WakeOf(id)' = TimeOf(WakesOf(id)')
BY DEF WakeOf, TimeOf

(* The handler of a wake, with all that it does.                           *)
LEMMA WokenSender ==
  ASSUME IInv, AInv, OneWakeEach, HandedOver, NEW e \in events, SenderWoken(e)
  PROVE  LET answer == TryGenerateTx(senders[e.who], e.time)
         IN  /\ e.who \in SenderIds
             /\ senders' = [senders EXCEPT ![e.who] = PollTransmit(answer.node)]
             /\ senders \in [SenderIds -> AP!Nodes]
             /\ received' = received
             /\ HandedOver' /\ OneWakeEach'
             /\ NewFrame \/ SameAir
             /\ metrics'.rx = metrics.rx
             /\ WakeOf(e.who) = <<e.time>> /\ WakeOf(e.who)' = answer.wake
             /\ \A x \in SenderIds \ {e.who} : WakesOf(x)' = WakesOf(x)
<1> PICK id : id = e.who
  OBVIOUS
<1> DEFINE answer == TryGenerateTx(senders[id], e.time)
           node == answer.node
           wake == answer.wake
<1>1. PopWake(e) /\ SenderPolled(id, node, wake, e.time, events \ {e})
  BY DEF SenderWoken
<1>2. e.time \in Nat /\ e.kind = "Wake" /\ Registered(e)
  BY <1>1, PoppedEvent DEF PopWake
<1>3. id \in SenderIds /\ senders[id] \in AP!Nodes /\ senders \in [SenderIds -> AP!Nodes]
  BY <1>2 DEF OneWakeEach, HandedOver
<1>4. node \in AP!Nodes /\ wake \in AP!Wakes /\ node.sent = senders[id].sent
  BY <1>2, <1>3, SenderFunctions
<1>5. FindNode(id) \in DOMAIN nodes /\ nodes[FindNode(id)] = id
  BY <1>2, FoundNode DEF Registered
<1>6. PICK given \in Answers(e.time) :
        HandlePollTransmit(FindNode(id), e.time, events \ {e},
                           Requests(given, "Wake", id), metrics)
  BY <1>1 DEF PopWake
<1>7. metrics \in Counters
  BY DEF IInv, TypeOK
<1> HIDE DEF answer, node, wake
<1>8. HandedOver'
  BY <1>1, <1>2, <1>3, <1>4, <1>5, <1>6, <1>7, SenderTurn
<1>9. (NewFrame \/ SameAir) /\ metrics'.rx = metrics.rx
  BY <1>2, <1>5, <1>6, <1>7, NodeOnTheAir DEF SameCounts
<1>10. WakesOf(id) = {e}
  BY <1>2, <1>3 DEF OneWakeEach, WakesOf
<1>11. /\ WakesIn(events \ {e}, id) = {}
       /\ \A x \in SenderIds \ {id} : WakesIn(events \ {e}, x) = WakesOf(x)
  BY <1>10 DEF WakesIn, WakesOf
<1>12. Schedule(events \ {e}, Asked(id, wake, node, e.time))
  BY <1>1 DEF SenderPolled, Asked
<1>13. /\ OneWakeEach'
       /\ \A x \in SenderIds \ {id} : WakesOf(x)' = WakesIn(events \ {e}, x)
       /\ wake = << >> => WakesOf(id)' = {}
       /\ wake # << >> => \E f : f.time = wake[1] /\ WakesOf(id)' = {f}
  <2> DEFINE queue == events \ {e}
  <2>1. queue \subseteq events /\ Schedule(queue, Asked(id, wake, node, e.time))
    BY <1>12
  <2>2. WakesIn(queue, id) = {}
    BY <1>11
  <2> HIDE DEF queue
  <2>3. /\ OneWakeEach'
        /\ \A x \in SenderIds \ {id} : WakesOf(x)' = WakesIn(queue, x)
        /\ wake = << >> => WakesOf(id)' = WakesIn(queue, id)
        /\ wake # << >> => \E f : f.time = wake[1] /\ WakesOf(id)' = {f}
    BY <1>2, <1>3, <1>4, <2>1, <2>2, QueueTurn
  <2> QED
    BY <2>2, <2>3 DEF queue
<1>14. \A x \in SenderIds \ {id} : WakesOf(x)' = WakesOf(x)
  BY <1>11, <1>13
<1>15. WakeOf(id) = <<e.time>>
  BY <1>10, TimeOfOne, WakeOfIsTime
<1>16. WakeOf(id)' = wake
  <2>1. CASE wake = << >>
    <3>1. WakesOf(id)' = {}
      BY <1>3, <1>11, <1>13, <2>1
    <3> QED
      BY <2>1, <3>1, TimeOfOne, WakeOfIsTime
  <2>2. CASE wake # << >>
    <3>1. PICK f : f.time = wake[1] /\ WakesOf(id)' = {f}
      BY <1>13, <2>2
    <3>2. TimeOf(WakesOf(id)') = <<f.time>>
      BY <3>1, TimeOfOne
    <3>3. wake = <<wake[1]>>
      BY <1>4, <2>2, AP!WakeIsOneTime, NetworkConstants
    <3> QED
      BY <3>1, <3>2, <3>3, WakeOfIsTime
  <2> QED
    BY <2>1, <2>2
<1>17. /\ senders' = [senders EXCEPT ![id] = PollTransmit(node)]
       /\ received' = received
  BY <1>1 DEF SenderPolled
<1> QED
  BY <1>3, <1>8, <1>9, <1>13, <1>14, <1>15, <1>16, <1>17 DEF answer, node, wake

(* A frame that reaches a sender: it is polled, and its wake stays.        *)
LEMMA HearingSender ==
  ASSUME IInv, AInv, OneWakeEach, HandedOver, NEW i \in DOMAIN nodes, SenderHears(i)
  PROVE  /\ nodes[i] \in SenderIds
         /\ senders' = [senders EXCEPT ![nodes[i]] = PollTransmit(senders[nodes[i]])]
         /\ senders \in [SenderIds -> AP!Nodes]
         /\ received' = received
         /\ HandedOver' /\ OneWakeEach'
         /\ NewFrame \/ SameAir
         /\ metrics'.rx[Receiver] = metrics.rx[Receiver]
         /\ \A x \in SenderIds : WakesOf(x)' = WakesOf(x)
<1> PICK id : id = nodes[i]
  OBVIOUS
<1>1. Deliver(i) /\ SenderPolled(id, senders[id], << >>, now, events) /\ id \in SenderIds
  BY DEF SenderHears
<1>2. now \in Nat
  BY FrameTimes
<1>3. /\ senders[id] \in AP!Nodes /\ senders \in [SenderIds -> AP!Nodes]
      /\ << >> \in AP!Wakes
  BY <1>1, AP!ShortWakes, NetworkConstants DEF HandedOver
<1>4. PICK given \in Answers(now) :
        HandlePollTransmit(i, now, events, Requests(given, "Wake", id),
                           RecordRx(metrics, id))
  BY <1>1 DEF Deliver
<1>5. /\ metrics \in Counters /\ RecordRx(metrics, id) \in Counters
      /\ RecordRx(metrics, id).tx = metrics.tx
      /\ RecordRx(metrics, id).rx[Receiver] = metrics.rx[Receiver]
  <2>1. metrics \in Counters /\ id \in NodeIds /\ id # Receiver
    BY <1>1, NetworkConstants DEF IInv, TypeOK
  <2>2. metrics.rx \in [NodeIds -> Nat] /\ Receiver \in NodeIds
    BY <2>1, NetworkConstants DEF Counters
  <2>3. RecordRx(metrics, id).rx = [metrics.rx EXCEPT ![id] = @ + 1]
    BY <2>1 DEF RecordRx, Counters
  <2>4. RecordRx(metrics, id).tx = metrics.tx
    BY <2>1 DEF RecordRx, Counters
  <2> QED
    BY <2>1, <2>2, <2>3, <2>4, RecordingKeepsType
<1>6. HandedOver'
  BY <1>1, <1>2, <1>3, <1>4, <1>5, SenderTurn
<1>7. (NewFrame \/ SameAir) /\ metrics'.rx[Receiver] = metrics.rx[Receiver]
  BY <1>2, <1>4, <1>5, NodeOnTheAir DEF SameCounts
<1>8. Schedule(events, Asked(id, << >>, senders[id], now))
  BY <1>1 DEF SenderPolled, Asked
<1>9. /\ OneWakeEach'
      /\ \A x \in SenderIds : WakesOf(x)' = WakesIn(events, x)
  BY <1>1, <1>2, <1>3, <1>8, QueueTurn
<1>10. \A x : WakesIn(events, x) = WakesOf(x)
  BY DEF WakesIn, WakesOf
<1> QED
  BY <1>1, <1>3, <1>6, <1>7, <1>9, <1>10 DEF SenderPolled

-----------------------------------------------------------------------------
(***************************************************************************)
(* The receiver.                                                           *)
(***************************************************************************)
LEMMA PassedAreFrames ==
  ASSUME IInv
  PROVE  /\ Passed = {f \in LookedAt : f \notin collided /\ (f = delivering => cursor > 1)}
         /\ Passed \subseteq Ch!FrameIds /\ IsFiniteSet(Passed)
<1>1. NoFrame \notin Settled /\ LookedAt \subseteq Ch!FrameIds
  BY FrameSets DEF LookedAt
<1>2. (Settled \cup {delivering}) \ {NoFrame} = LookedAt
  BY <1>1 DEF LookedAt
<1>3. Passed = {f \in LookedAt : f \notin collided /\ (f = delivering => cursor > 1)}
  BY <1>2 DEF Passed
<1>4. Passed \subseteq Ch!FrameIds
  BY <1>1, <1>3
<1> QED
  BY <1>3, <1>4, FramesAreFinite

(* A turn moves the cursor and no frame.                                   *)
LEMMA TurnKeepsPassed ==
  ASSUME IInv, Apart, NewFrame \/ SameAir, UNCHANGED <<batch, delivering>>
  PROVE  /\ Passed' =
              {f \in LookedAt : f \notin collided /\ (f = delivering => cursor' > 1)}
         /\ \A f \in Ch!FrameIds : frames'[f] = frames[f]
<1>1. /\ LookedAt \subseteq Ch!FrameIds
      /\ \A f \in Ch!FrameIds : frames'[f] = frames[f]
      /\ \A f \in LookedAt : f \in collided' <=> f \in collided
      /\ Settled' = Settled
  BY TurnKeepsFrames
<1>2. NoFrame \notin Settled
  BY FrameSets
<1>3. (Settled' \cup {delivering'}) \ {NoFrame} = LookedAt
  BY <1>1, <1>2 DEF LookedAt
<1> QED
  BY <1>1, <1>3 DEF Passed

LEMMA KeptAsItWas ==
  ASSUME IInv, Kept, received' = received, Passed' = Passed,
         metrics'.rx[Receiver] = metrics.rx[Receiver],
         \A f \in Ch!FrameIds : frames'[f] = frames[f]
  PROVE  Kept'
<1>1. \A n \in DOMAIN received : received[n] \in Ch!FrameIds
  BY PassedAreFrames DEF Kept
<1>2. \A m, n \in DOMAIN received :
        EarlierEnd(received[m], received[n])' <=> EarlierEnd(received[m], received[n])
  BY <1>1 DEF EarlierEnd
<1> QED
  BY <1>2 DEF Kept

(***************************************************************************)
(* The receiver takes the frame that is being delivered: one more, which   *)
(* ended after those that it has.                                          *)
(***************************************************************************)
LEMMA ReceiverTakes ==
  ASSUME IInv, AInv, Ordered, InPlace, OneWakeEach, HandedOver, Kept,
         NEW i \in DOMAIN nodes, ReceiverHears(i)
  PROVE  OneWakeEach' /\ HandedOver' /\ Kept'
<1>1. /\ Deliver(i) /\ AtNode(i) /\ nodes[i] = Receiver /\ Schedule(events, << >>)
      /\ received' = Append(received, delivering) /\ senders' = senders
  BY DEF ReceiverHears, Deliver
<1>2. now \in Nat /\ i \in Nat /\ cursor \in Int
  BY FrameTimes, FrameSets
<1>3. i = 1 /\ cursor = 1 /\ cursor' = 2 /\ delivering # NoFrame
      /\ UNCHANGED <<batch, delivering>>
  BY <1>1, <1>2 DEF AtNode, InPlace, Receiver
<1>4. PICK given \in Answers(now) :
        HandlePollTransmit(i, now, events, Requests(given, "Wake", Receiver),
                           RecordRx(metrics, Receiver))
  BY <1>1 DEF Deliver
<1>5. Receiver \in Senders /\ Receiver \in NodeIds
  BY NetworkConstants
<1>6. /\ NodeStaysSilent(now, events, Requests(given, "Wake", Receiver),
                         RecordRx(metrics, Receiver))
      /\ events' = events
  BY <1>1, <1>2, <1>4, <1>5, AsksForNothing
<1>7. /\ UNCHANGED <<frames, active, completed, collided, captured, heard>>
      /\ metrics' = RecordRx(metrics, Receiver)
  BY <1>6 DEF NodeStaysSilent, channelVars
<1>8. /\ metrics'.tx = metrics.tx
      /\ metrics'.rx[Receiver] = metrics.rx[Receiver] + 1
  BY <1>5, <1>7 DEF RecordRx, IInv, TypeOK, Counters
<1>9. OneWakeEach'
  BY <1>6 DEF OneWakeEach, WakesOf
<1>10. HandedOver'
  BY <1>1, <1>7, <1>8, SamePayloads DEF HandedOver
<1>11. /\ delivering \in LookedAt /\ delivering \notin collided
       /\ delivering \in Ch!FrameIds /\ delivering \in OffTheAir
       /\ delivering \notin Settled /\ LookedAt = Settled \cup {delivering}
  BY <1>3, FrameSets DEF LookedAt, AInv, Apart, OffTheAir, Settled
<1>12. /\ Passed = {f \in LookedAt : f \notin collided /\ (f = delivering => cursor > 1)}
       /\ Passed' =
            {f \in LookedAt : f \notin collided /\ (f = delivering => cursor' > 1)}
       /\ IsFiniteSet(Passed)
  BY <1>3, <1>7, PassedAreFrames, TurnKeepsPassed DEF AInv, SameAir
<1>13. /\ Passed' = Passed \cup {delivering} /\ delivering \notin Passed
       /\ Passed \subseteq Settled
  BY <1>3, <1>11, <1>12
<1>14. Cardinality(Passed') = Cardinality(Passed) + 1
  BY <1>12, <1>13, FS_AddElement
<1>15. /\ received \in Seq(Nat) /\ delivering \in Nat
       /\ Len(received) \in Nat /\ DOMAIN received = 1..Len(received)
  BY <1>11, FrameTimes DEF Kept
<1>16. /\ received' \in Seq(Nat) /\ Len(received') = Len(received) + 1
       /\ DOMAIN received' = DOMAIN received \cup {Len(received) + 1}
       /\ \A n \in DOMAIN received : received'[n] = received[n]
       /\ received'[Len(received) + 1] = delivering
  <2>1. /\ Append(received, delivering) \in Seq(Nat)
        /\ Len(Append(received, delivering)) = Len(received) + 1
        /\ \A n \in 1..Len(received) : Append(received, delivering)[n] = received[n]
        /\ Append(received, delivering)[Len(received) + 1] = delivering
    BY <1>15, AppendProperties
  <2>2. DOMAIN Append(received, delivering) = 1..(Len(received) + 1)
    BY <2>1, LenProperties
  <2>3. 1..(Len(received) + 1) = 1..Len(received) \cup {Len(received) + 1}
    BY <1>15
  <2> QED
    BY <1>1, <1>15, <2>1, <2>2, <2>3
<1>17. {received'[n] : n \in DOMAIN received'} = Passed'
  <2>1. {received[n] : n \in DOMAIN received} = Passed
    BY DEF Kept
  <2> QED
    BY <1>13, <1>16, <2>1
<1>18. ASSUME NEW m \in DOMAIN received', NEW n \in DOMAIN received', m < n
       PROVE  EarlierEnd(received[m], received[n])'
  <2>1. frames' = frames
    BY <1>7
  <2>2. m \in DOMAIN received
    BY <1>15, <1>16, <1>18
  <2>3. CASE n \in DOMAIN received
    <3>1. EarlierEnd(received[m], received[n])
      BY <1>18, <2>2, <2>3 DEF Kept
    <3>2. received'[m] = received[m] /\ received'[n] = received[n]
      BY <1>16, <2>2, <2>3
    <3>3. EarlierEnd(received'[m], received'[n])
      BY <3>1, <3>2
    <3> QED
      BY <2>1, <3>3 DEF EarlierEnd
  <2>4. CASE n = Len(received) + 1
    <3>1. received[m] \in Settled
      BY <1>13, <2>2 DEF Kept
    <3>2. EarlierEnd(received[m], delivering)
      BY <1>11, <3>1 DEF Ordered
    <3>3. EarlierEnd(received'[m], received'[n])
      BY <1>16, <2>2, <2>4, <3>2
    <3> QED
      BY <2>1, <3>3 DEF EarlierEnd
  <2> QED
    BY <1>16, <2>3, <2>4
<1>19. Len(received') = Cardinality(Passed') /\ metrics'.rx[Receiver] = Len(received')
  BY <1>8, <1>14, <1>16 DEF Kept
<1>20. \A m, n \in DOMAIN received' : m < n => EarlierEnd(received[m], received[n])'
  BY <1>18
<1> QED
  BY <1>9, <1>10, <1>16, <1>17, <1>19, <1>20 DEF Kept

-----------------------------------------------------------------------------
(***************************************************************************)
(* The steps in which no sender is polled and the receiver hears nothing.  *)
(***************************************************************************)
Idle ==
  /\ UNCHANGED <<senders, received, frames, nodes>>
  /\ metrics'.tx = metrics.tx /\ metrics'.rx = metrics.rx

LEMMA IdleKeeps ==
  ASSUME IInv, NInv, Idle, Passed' = Passed, events' \subseteq events,
         pc' # "setup" => pc # "setup"
  PROVE  NInv'
<1>1. InPlace'
  BY DEF Idle, NInv, InPlace
<1>2. OneWakeEach'
  BY DEF NInv, OneWakeEach, WakesOf
<1>3. HandedOver'
  BY SamePayloads DEF Idle, NInv, HandedOver
<1>4. Kept'
  BY KeptAsItWas DEF Idle, NInv
<1> QED
  BY <1>1, <1>2, <1>3, <1>4 DEF NInv

(* Where each frame is decides which have passed the receiver.             *)
LEMMA SamePlaces ==
  ASSUME UNCHANGED <<frames, active, completed, collided, batch, delivering, cursor>>
  PROVE  Passed' = Passed
BY DEF Passed, Settled, Ch!FrameIds

LEMMA ResolvingKeepsPassed ==
  ASSUME IInv, NEW e \in events, PopTxComplete(e)
  PROVE  Passed' = Passed
<1>1. /\ frames' = frames /\ UNCHANGED <<collided, batch, delivering, cursor>>
      /\ active' = active \ Ch!Over(e.time) /\ completed' = completed \cup Ch!Over(e.time)
      /\ Ch!Over(e.time) \subseteq active
  BY DEF PopTxComplete, Ch!ResolveAt, Ch!Over, deliveryVars
<1>2. Settled' = Settled
  BY <1>1 DEF Settled, Ch!FrameIds
<1> QED
  BY <1>1, <1>2 DEF Passed

LEMMA DrainKeepsPassed ==
  ASSUME IInv, Drain
  PROVE  Passed' = Passed
<1>1. /\ UNCHANGED <<frames, active, collided, delivering, cursor>>
      /\ batch' = completed /\ completed' = {} /\ batch = {}
  BY DEF Drain, Ch!DrainCompleted, IInv, Phases
<1>2. Settled' = Settled
  BY <1>1 DEF Settled, Ch!FrameIds
<1> QED
  BY <1>1, <1>2 DEF Passed

LEMMA TakingKeepsPassed ==
  ASSUME IInv, AInv, NEW id \in batch, SkipCollided(id) \/ StartDelivery(id)
  PROVE  /\ Passed' = Passed
         /\ metrics'.tx = metrics.tx /\ metrics'.rx = metrics.rx
<1>1. TakesFrame(id)
  BY DEF SkipCollided, StartDelivery
<1>2. /\ batch' = batch \ {id} /\ delivering = NoFrame /\ completed = {}
      /\ id \in Ch!FrameIds /\ id # NoFrame /\ id \notin active /\ id \notin Settled
      /\ UNCHANGED <<frames, active, completed, collided>>
  BY <1>1, TakenFrame DEF AInv
<1>3. NoFrame \notin Settled
  BY FrameSets
<1>4. metrics \in Counters
  BY DEF IInv, TypeOK
<1>5. CASE SkipCollided(id)
  <2>1. delivering' = NoFrame /\ id \in collided /\ metrics' = RecordCollision(metrics)
    BY <1>2, <1>5 DEF SkipCollided
  <2>2. Settled' = Settled \cup {id}
    BY <1>2, <2>1, FrameSets DEF Settled, Ch!FrameIds
  <2>3. Passed' = Passed
    BY <1>2, <1>3, <2>1, <2>2 DEF Passed
  <2> QED
    BY <1>4, <2>1, <2>3 DEF RecordCollision, Counters
<1>6. CASE StartDelivery(id)
  <2>1. /\ delivering' = id /\ cursor' = 1
        /\ metrics' = IF id \in captured THEN RecordCapture(metrics) ELSE metrics
    BY <1>6 DEF StartDelivery
  <2>2. Settled' = Settled
    BY <1>2, <2>1, FrameSets DEF Settled, Ch!FrameIds
  <2>3. ~ (cursor' > 1)
    BY <2>1
  <2>4. Passed' = Passed
    BY <1>2, <1>3, <2>1, <2>2, <2>3 DEF Passed
  <2> QED
    BY <1>4, <2>1, <2>4 DEF RecordCapture, Counters
<1> QED
  BY <1>5, <1>6

(* The cursor has passed the receiver when it has passed all nodes.        *)
LEMMA EndDeliveryKeepsPassed ==
  ASSUME IInv, AInv, InPlace, EndDelivery
  PROVE  Passed' = Passed
<1>1. /\ delivering # NoFrame /\ cursor \notin DOMAIN nodes /\ pc = "deliver"
      /\ delivering' = NoFrame
      /\ UNCHANGED <<frames, active, completed, collided, batch>>
  BY DEF EndDelivery, channelVars
<1>2. cursor > 1
  <2>1. DOMAIN nodes = 1..Len(nodes) /\ Len(nodes) >= 1
    BY <1>1, FrameSets, NetworkConstants DEF InPlace
  <2>2. cursor \in Int /\ cursor >= 1
    BY <1>1, FrameSets DEF AInv, Apart
  <2>3. 1 \in DOMAIN nodes
    BY <2>1
  <2> QED
    BY <1>1, <2>2, <2>3
<1>3. /\ delivering \in Ch!FrameIds /\ NoFrame \notin Ch!FrameIds /\ NoFrame \notin Settled
      /\ delivering \notin active \cup completed \cup batch
  BY <1>1, FrameSets DEF AInv, Apart
<1>4. Settled' = Settled \cup {delivering}
  BY <1>1, <1>3 DEF Settled, Ch!FrameIds
<1> QED
  BY <1>1, <1>2, <1>3, <1>4 DEF Passed

(* The receiver is never the sender of a frame.                            *)
LEMMA SkippingKeepsPassed ==
  ASSUME IInv, AInv, InPlace, HandedOver, NEW i \in DOMAIN nodes, SkipSender(i)
  PROVE  Passed' = Passed
<1>1. /\ delivering # NoFrame /\ i = cursor /\ cursor' = i + 1
      /\ nodes[i] = frames[delivering].sender
      /\ UNCHANGED <<frames, active, completed, collided, batch, delivering>>
  BY DEF SkipSender, AtNode, IsSender, channelVars
<1>2. nodes[i] \in SenderIds
  BY <1>1, FrameSets DEF HandedOver
<1>3. i \in Nat /\ nodes[i] = i - 1
  BY FrameSets DEF InPlace
<1>4. nodes[i] \in 1..NumSenders /\ NumSenders \in Nat
  BY <1>2, NetworkConstants DEF SenderIds
<1>5. cursor > 1 /\ cursor' > 1
  BY <1>1, <1>3, <1>4
<1> QED
  BY <1>1, <1>5 DEF Passed, Settled, Ch!FrameIds

-----------------------------------------------------------------------------
(***************************************************************************)
(* Registration.                                                           *)
(***************************************************************************)
LEMMA AddReceiverKeeps ==
  ASSUME IInv, NInv, AddReceiver
  PROVE  NInv'
<1>1. /\ nodes = << >> /\ nodes' = Append(nodes, Receiver) /\ pc' = "setup"
      /\ Schedule(events, << >>)
      /\ UNCHANGED <<senders, received, frames, active, completed, collided, metrics,
                     batch, delivering, cursor>>
  BY DEF AddReceiver, AddNode, Registering, channelVars, deliveryVars, network
<1>2. events' = events
  BY <1>1 DEF Schedule
<1>3. InPlace'
  BY <1>1 DEF InPlace, Receiver
<1>4. OneWakeEach'
  BY <1>2 DEF NInv, OneWakeEach, WakesOf
<1>5. HandedOver'
  BY <1>1, SamePayloads DEF NInv, HandedOver
<1>6. Kept'
  BY <1>1, SamePlaces, KeptAsItWas DEF NInv
<1> QED
  BY <1>3, <1>4, <1>5, <1>6 DEF NInv

(* A sender that is registered has no wake yet.                            *)
LEMMA AddSenderKeeps ==
  ASSUME IInv, NInv, NEW id \in SenderIds, NEW start \in Starts, AddSender(id, start)
  PROVE  NInv'
<1> DEFINE first == [time |-> start, seq |-> seq, kind |-> "Wake", who |-> id]
<1>1. /\ Len(nodes) = id /\ nodes' = Append(nodes, id) /\ pc' = "setup"
      /\ Schedule(events, <<Request(start, "Wake", id)>>)
      /\ UNCHANGED <<senders, received, frames, active, completed, collided, metrics,
                     batch, delivering, cursor>>
  BY DEF AddSender, AddNode, Registering, channelVars, deliveryVars, network
<1>2. events' = events \cup {first}
  <2>1. seq \in Nat /\ seq + 1 - 1 = seq
    BY DEF IInv, TypeOK
  <2> QED
    BY <1>1, <2>1 DEF Schedule, Request
<1>3. first.kind = "Wake" /\ first.who = id
  OBVIOUS
<1> HIDE DEF first
<1>4. nodes \in Seq(NodeIds) /\ DOMAIN nodes = 1..Len(nodes) /\ id \in NodeIds /\ id \in Nat
  BY FrameSets, NetworkConstants
<1>5. WakesOf(id) = {}
  <2>1. ASSUME NEW e \in events, e.kind = "Wake", e.who = id
        PROVE  FALSE
    <3>1. PICK i \in DOMAIN nodes : nodes[i] = id
      BY <2>1 DEF IInv, RegistrationFits, Registered
    <3>2. i \in Nat /\ i <= id /\ id = i - 1
      BY <1>1, <1>4, <3>1 DEF NInv, InPlace
    <3> QED
      BY <3>2
  <2> QED
    BY <2>1 DEF WakesOf
<1>6. InPlace'
  <2>1. /\ DOMAIN nodes' = 1..(Len(nodes) + 1) /\ nodes'[Len(nodes) + 1] = id
        /\ \A i \in 1..Len(nodes) : nodes'[i] = nodes[i]
    BY <1>1, <1>4
  <2>2. \A i \in DOMAIN nodes' : nodes'[i] = i - 1
    BY <1>1, <1>4, <2>1 DEF NInv, InPlace
  <2> QED
    BY <1>1, <2>2 DEF InPlace
<1>7. OneWakeEach'
  <2>1. \A x \in SenderIds \ {id} : WakesOf(x)' = WakesOf(x)
    BY <1>2, <1>3 DEF WakesOf
  <2>2. WakesOf(id)' = {first}
    BY <1>2, <1>3, <1>5 DEF WakesOf
  <2>3. \A x \in SenderIds : \A e, f \in WakesOf(x)' : e = f
    BY <2>1, <2>2 DEF NInv, OneWakeEach
  <2>4. \A e \in events' : e.kind = "Wake" => e.who \in SenderIds
    BY <1>2, <1>3 DEF NInv, OneWakeEach
  <2> QED
    BY <2>3, <2>4 DEF OneWakeEach
<1>8. HandedOver'
  BY <1>1, SamePayloads DEF NInv, HandedOver
<1>9. Kept'
  BY <1>1, SamePlaces, KeptAsItWas DEF NInv
<1> QED
  BY <1>6, <1>7, <1>8, <1>9 DEF NInv

-----------------------------------------------------------------------------
LEMMA NetworkBegins == NetworkInit => NInv
<1> SUFFICES ASSUME NetworkInit
             PROVE  NInv
  OBVIOUS
<1>1. /\ nodes = << >> /\ pc = "setup" /\ events = {} /\ frames = << >>
      /\ received = << >> /\ metrics = NoMetrics /\ delivering = NoFrame
  BY DEF NetworkInit, Init, Ch!Init
<1>2. senders \in
        [SenderIds -> {NewNode(interval, Poll, Count) : interval \in Intervals}]
  BY DEF NetworkInit
<1>3. \A n \in {NewNode(interval, Poll, Count) : interval \in Intervals} :
        n \in AP!Nodes /\ n.sent = 0
  <2>1. ASSUME NEW interval \in Intervals
        PROVE  /\ NewNode(interval, Poll, Count) \in AP!Nodes
               /\ NewNode(interval, Poll, Count).sent = 0
    <3>1. Count \in Nat /\ Poll \in {Poll} /\ 0 \in Nat /\ FALSE \in BOOLEAN
      BY NetworkConstants
    <3>2. NewNode(interval, Poll, Count) \in AP!Nodes
      BY <3>1 DEF NewNode, AP!Nodes
    <3> QED
      BY <3>2 DEF NewNode
  <2> QED
    BY <2>1
<1>4. senders \in [SenderIds -> AP!Nodes] /\ \A id \in SenderIds : senders[id].sent = 0
  BY <1>2, <1>3
<1>5. InPlace /\ OneWakeEach
  BY <1>1 DEF InPlace, OneWakeEach, WakesOf
<1>6. Handed = {}
  BY <1>4 DEF Handed
<1>7. \A id \in NodeIds : metrics.tx[id] = 0 /\ metrics.rx[id] = 0
  BY <1>1 DEF NoMetrics
<1>8. IsFiniteSet({}) /\ Cardinality({}) = 0
  BY FS_EmptySet
<1>9. HandedOver
  <2>1. Len(frames) = 0 /\ Ch!FrameIds = {}
    BY <1>1 DEF Ch!FrameIds
  <2> QED
    BY <1>4, <1>6, <1>7, <1>8, <2>1, NetworkConstants DEF HandedOver
<1>10. Kept
  <2>1. Passed = {}
    BY <1>1 DEF Passed, Settled, Ch!FrameIds
  <2>2. received \in Seq(Nat) /\ Len(received) = 0 /\ DOMAIN received = {}
    BY <1>1
  <2>3. metrics.rx[Receiver] = 0
    BY <1>7, NetworkConstants
  <2> QED
    BY <1>8, <2>1, <2>2, <2>3 DEF Kept
<1> QED
  BY <1>5, <1>9, <1>10 DEF NInv

(* Every step of the network keeps its invariant.                          *)
LEMMA StepKeepsNInv == SInv /\ NInv /\ [NetworkNext]_networkVars => NInv'
<1> SUFFICES ASSUME IInv, AInv, Ordered, NInv, [NetworkNext]_networkVars
             PROVE  NInv'
  BY DEF SInv
<1>1. CASE NetworkSetup
  <2>1. CASE RunNetwork
    <3>1. /\ Idle /\ events' = events
          /\ UNCHANGED <<frames, active, completed, collided, batch, delivering, cursor>>
      BY <2>1 DEF RunNetwork, Run, Idle, network, registry, channelVars, deliveryVars
    <3>2. Len(nodes) = NumSenders + 1
      BY <2>1 DEF RunNetwork
    <3>3. InPlace'
      BY <3>1, <3>2 DEF Idle, NInv, InPlace
    <3>4. OneWakeEach'
      BY <3>1 DEF NInv, OneWakeEach, WakesOf
    <3>5. HandedOver'
      BY <3>1, SamePayloads DEF Idle, NInv, HandedOver
    <3>6. Kept'
      BY <3>1, SamePlaces, KeptAsItWas DEF Idle, NInv
    <3> QED
      BY <3>3, <3>4, <3>5, <3>6 DEF NInv
  <2> QED
    BY <1>1, <2>1, AddReceiverKeeps, AddSenderKeeps DEF NetworkSetup
<1>2. ASSUME NEW e \in events, SenderWoken(e)
      PROVE  NInv'
  <2>1. /\ received' = received /\ HandedOver' /\ OneWakeEach'
        /\ NewFrame \/ SameAir
        /\ metrics'.rx = metrics.rx
    BY <1>2, WokenSender DEF NInv
  <2>2. /\ UNCHANGED <<nodes, pc, batch, delivering, cursor>>
        /\ delivering = NoFrame
    <3>1. PopWake(e) /\ Pops(e, "Wake")
      BY <1>2 DEF SenderWoken, PopWake
    <3> QED
      BY <3>1, PoppedEvent DEF PopWake, registry, deliveryVars
  <2>3. InPlace'
    BY <2>2 DEF NInv, InPlace
  <2>4. Passed' = Passed /\ \A f \in Ch!FrameIds : frames'[f] = frames[f]
    BY <2>1, <2>2, TurnKeepsPassed, PassedAreFrames DEF AInv
  <2>5. Kept'
    BY <2>1, <2>4, KeptAsItWas DEF NInv
  <2> QED
    BY <2>1, <2>3, <2>5 DEF NInv
<1>3. CASE NetworkLoop
  <2>1. ASSUME NEW e \in events, PopTxComplete(e), UNCHANGED network
        PROVE  NInv'
    <3>1. Idle /\ events' \subseteq events /\ (pc' # "setup" => pc # "setup")
      BY <2>1 DEF Idle, PopTxComplete, Pops, Ch!ResolveAt, registry, network
    <3> QED
      BY <2>1, <3>1, ResolvingKeepsPassed, IdleKeeps
  <2>2. ASSUME Stop, UNCHANGED network
        PROVE  NInv'
    <3>1. /\ Idle /\ events' \subseteq events /\ (pc' # "setup" => pc # "setup")
          /\ UNCHANGED <<frames, active, completed, collided, batch, delivering, cursor>>
      BY <2>2 DEF Idle, Stop, channelVars, deliveryVars, registry, network
    <3> QED
      BY <3>1, SamePlaces, IdleKeeps
  <2> QED
    BY <1>2, <1>3, <2>1, <2>2 DEF NetworkLoop
<1>4. ASSUME NEW i \in DOMAIN nodes, SenderHears(i)
      PROVE  NInv'
  <2>1. /\ nodes[i] \in SenderIds /\ received' = received /\ HandedOver' /\ OneWakeEach'
        /\ NewFrame \/ SameAir
        /\ metrics'.rx[Receiver] = metrics.rx[Receiver]
    BY <1>4, HearingSender DEF NInv
  <2>2. /\ UNCHANGED <<nodes, pc, batch, delivering>>
        /\ i = cursor /\ cursor' = i + 1
    BY <1>4 DEF SenderHears, Deliver, AtNode, registry
  <2>3. InPlace'
    BY <2>2 DEF NInv, InPlace
  <2>4. cursor > 1 /\ cursor' > 1
    <3>1. i \in Nat /\ nodes[i] = i - 1
      BY FrameSets DEF NInv, InPlace
    <3>2. nodes[i] \in 1..NumSenders /\ NumSenders \in Nat
      BY <2>1, NetworkConstants DEF SenderIds
    <3> QED
      BY <2>2, <3>1, <3>2
  <2>5. Passed' = Passed /\ \A f \in Ch!FrameIds : frames'[f] = frames[f]
    BY <2>1, <2>2, <2>4, TurnKeepsPassed, PassedAreFrames DEF AInv
  <2>6. Kept'
    BY <2>1, <2>5, KeptAsItWas DEF NInv
  <2> QED
    BY <2>1, <2>3, <2>6 DEF NInv
<1>5. ASSUME NEW i \in DOMAIN nodes, ReceiverHears(i)
      PROVE  NInv'
  <2>1. OneWakeEach' /\ HandedOver' /\ Kept'
    BY <1>5, ReceiverTakes DEF NInv
  <2>2. InPlace'
    BY <1>5 DEF ReceiverHears, Deliver, AtNode, registry, NInv, InPlace
  <2> QED
    BY <2>1, <2>2 DEF NInv
<1>6. CASE NetworkDelivery
  <2>1. ASSUME Drain, UNCHANGED network
        PROVE  NInv'
    <3>1. Idle /\ events' \subseteq events /\ (pc' # "setup" => pc # "setup")
      BY <2>1 DEF Idle, Drain, Ch!DrainCompleted, registry, network
    <3> QED
      BY <2>1, <3>1, DrainKeepsPassed, IdleKeeps
  <2>2. ASSUME NEW id \in batch, SkipCollided(id) \/ StartDelivery(id), UNCHANGED network
        PROVE  NInv'
    <3>1. Passed' = Passed /\ metrics'.tx = metrics.tx /\ metrics'.rx = metrics.rx
      BY <2>2, TakingKeepsPassed
    <3>2. TakesFrame(id)
      BY <2>2 DEF SkipCollided, StartDelivery
    <3>3. Idle /\ events' \subseteq events /\ (pc' # "setup" => pc # "setup")
      BY <2>2, <3>1, <3>2 DEF Idle, TakesFrame, channelVars, registry, network
    <3> QED
      BY <3>1, <3>3, IdleKeeps
  <2>3. ASSUME NEW i \in DOMAIN nodes, SkipSender(i), UNCHANGED network
        PROVE  NInv'
    <3>1. Idle /\ events' \subseteq events /\ (pc' # "setup" => pc # "setup")
      BY <2>3 DEF Idle, SkipSender, AtNode, channelVars, registry, network
    <3> QED
      BY <2>3, <3>1, SkippingKeepsPassed, IdleKeeps DEF NInv
  <2>4. ASSUME EndDelivery, UNCHANGED network
        PROVE  NInv'
    <3>1. Idle /\ events' \subseteq events /\ (pc' # "setup" => pc # "setup")
      BY <2>4 DEF Idle, EndDelivery, channelVars, registry, network
    <3> QED
      BY <2>4, <3>1, EndDeliveryKeepsPassed, IdleKeeps DEF NInv
  <2>5. ASSUME EndBatch, UNCHANGED network
        PROVE  NInv'
    <3>1. /\ Idle /\ events' \subseteq events /\ (pc' # "setup" => pc # "setup")
          /\ UNCHANGED <<frames, active, completed, collided, batch, delivering, cursor>>
      BY <2>5 DEF Idle, EndBatch, channelVars, deliveryVars, registry, network
    <3> QED
      BY <3>1, SamePlaces, IdleKeeps
  <2> QED
    BY <1>4, <1>5, <1>6, <2>1, <2>2, <2>3, <2>4, <2>5 DEF NetworkDelivery
<1>7. CASE UNCHANGED networkVars
  <2>1. /\ Idle /\ events' \subseteq events /\ (pc' # "setup" => pc # "setup")
        /\ UNCHANGED <<frames, active, completed, collided, batch, delivering, cursor>>
    BY <1>7 DEF Idle, networkVars, vars, channelVars, deliveryVars, registry, network
  <2> QED
    BY <2>1, SamePlaces, IdleKeeps
<1> QED
  BY <1>1, <1>3, <1>6, <1>7 DEF NetworkNext

(* The invariants of the simulation, in every state of it.                 *)
LEMMA SimulationIsKept == NetworkSpec => [](SInv /\ NInv)
BY NetworkBegins, StepKeepsNInv, SchedulerIsKept, PTL DEF NetworkSpec

-----------------------------------------------------------------------------
(* The functions of a node are those of the instance of module Aloha.      *)
LEMMA SameFunctions ==
  ASSUME NEW id, NEW n, NEW time
  PROVE  /\ A(id)!TryGenerateTx(n, time) = TryGenerateTx(n, time)
         /\ A(id)!PollTransmit(n) = PollTransmit(n)
BY DEF TryGenerateTx, Yields, TakePayload, Probe, PollTransmit,
       A!TryGenerateTx, A!Yields, A!TakePayload, A!Probe, A!PollTransmit

(***************************************************************************)
(* What a step of the loop or of the delivery is for one sender.           *)
(***************************************************************************)
LEMMA StepOfSender ==
  ASSUME IInv, AInv, NInv, NetworkNext, NEW id \in SenderIds,
         pc = "deliver" \/ (pc = "loop" /\ pc' # "stopped")
  PROVE  A(id)!Next \/ UNCHANGED <<senders[id], WakeOf(id)>>
<1>1. ASSUME UNCHANGED network, WakesOf(id)' = WakesOf(id)
      PROVE  UNCHANGED <<senders[id], WakeOf(id)>>
  BY <1>1, WakeOfIsTime DEF network
<1>2. ASSUME UNCHANGED network, events' = events
      PROVE  UNCHANGED <<senders[id], WakeOf(id)>>
  BY <1>1, <1>2 DEF WakesOf
<1>3. ASSUME NEW e \in events, SenderWoken(e)
      PROVE  A(id)!Next \/ UNCHANGED <<senders[id], WakeOf(id)>>
  <2> PICK answer : answer = TryGenerateTx(senders[e.who], e.time)
    OBVIOUS
  <2>1. /\ senders' = [senders EXCEPT ![e.who] = PollTransmit(answer.node)]
        /\ senders \in [SenderIds -> AP!Nodes]
        /\ WakeOf(e.who) = <<e.time>> /\ WakeOf(e.who)' = answer.wake
        /\ \A x \in SenderIds \ {e.who} : WakesOf(x)' = WakesOf(x)
    BY <1>3, WokenSender DEF NInv
  <2>2. CASE id = e.who
    <3>1. /\ WakeOf(id) # << >> /\ WakeOf(id)[1] = e.time
          /\ senders'[id] = PollTransmit(answer.node) /\ WakeOf(id)' = answer.wake
      BY <2>1, <2>2
    <3>2. A(id)!Update
      BY <2>2, <3>1, SameFunctions DEF A!Update
    <3> QED
      BY <3>2 DEF A!Next
  <2>3. CASE id # e.who
    BY <2>1, <2>3, WakeOfIsTime
  <2> QED
    BY <2>2, <2>3
<1>4. CASE NetworkLoop
  <2>1. ASSUME NEW e \in events, PopTxComplete(e), UNCHANGED network
        PROVE  UNCHANGED <<senders[id], WakeOf(id)>>
    <3>1. events' = events \ {e} /\ e.kind = "TxComplete"
      BY <2>1 DEF PopTxComplete, Pops
    <3>2. WakesOf(id)' = WakesOf(id)
      BY <3>1 DEF WakesOf
    <3> QED
      BY <1>1, <2>1, <3>2
  <2>2. ~ Stop
    BY DEF Stop
  <2> QED
    BY <1>3, <1>4, <2>1, <2>2 DEF NetworkLoop
<1>5. ASSUME NEW i \in DOMAIN nodes, SenderHears(i)
      PROVE  A(id)!Next \/ UNCHANGED <<senders[id], WakeOf(id)>>
  <2>1. /\ senders' = [senders EXCEPT ![nodes[i]] = PollTransmit(senders[nodes[i]])]
        /\ senders \in [SenderIds -> AP!Nodes]
        /\ WakesOf(id)' = WakesOf(id)
    BY <1>5, HearingSender DEF NInv
  <2>2. WakeOf(id)' = WakeOf(id)
    BY <2>1, WakeOfIsTime
  <2>3. CASE id = nodes[i]
    <3>1. senders'[id] = PollTransmit(senders[id])
      BY <2>1, <2>3
    <3>2. A(id)!Receive
      BY <2>2, <3>1, SameFunctions DEF A!Receive
    <3> QED
      BY <3>2 DEF A!Next
  <2>4. CASE id # nodes[i]
    BY <2>1, <2>2, <2>4
  <2> QED
    BY <2>3, <2>4
<1>6. ASSUME NEW i \in DOMAIN nodes, ReceiverHears(i)
      PROVE  UNCHANGED <<senders[id], WakeOf(id)>>
  <2>1. events' = events /\ senders' = senders
    BY <1>6 DEF ReceiverHears, Schedule
  <2>2. WakesOf(id)' = WakesOf(id)
    BY <2>1 DEF WakesOf
  <2> QED
    BY <2>1, <2>2, WakeOfIsTime
<1>7. CASE NetworkDelivery
  BY <1>2, <1>5, <1>6, <1>7
     DEF NetworkDelivery, Drain, SkipCollided, StartDelivery, TakesFrame, SkipSender,
         EndDelivery, EndBatch
<1>8. ~ NetworkSetup
  BY DEF NetworkSetup, AddReceiver, AddSender, AddNode, Registering, RunNetwork
<1> QED
  BY <1>4, <1>7, <1>8 DEF NetworkNext

(* At most one element, at most one to count.                              *)
LEMMA AtMostOneCounted ==
  ASSUME NEW W, \A e, f \in W : e = f
  PROVE  Cardinality(W) <= 1
<1>1. CASE W = {}
  BY <1>1, FS_EmptySet
<1>2. CASE W # {}
  <2>1. PICK e \in W : TRUE
    BY <1>2
  <2>2. W = {e}
    BY <2>1
  <2>3. Cardinality({e}) = 1
    BY FS_Singleton
  <2> QED
    BY <2>2, <2>3
<1> QED
  BY <1>1, <1>2

(***************************************************************************)
(* For every number of senders the scheduler treats each as module Aloha   *)
(* takes for granted: what is proved of one node, that it accounts for all *)
(* its payloads, holds of each in the network.                             *)
(***************************************************************************)
THEOREM SendersRunAloha == NetworkSpec => SendersAreAloha
<1> DEFINE Runs ==
      pc = "deliver" \/ (pc = "loop" /\ pc' # "stopped") =>
        \A id \in SenderIds :
          /\ Cardinality(WakesOf(id)') <= 1
          /\ A(id)!Next \/ UNCHANGED <<senders[id], WakeOf(id)>>
<1>1. SInv /\ NInv /\ NInv' /\ [NetworkNext]_networkVars => [Runs]_networkVars
  <2> SUFFICES ASSUME SInv, NInv, NInv', NetworkNext
               PROVE  Runs
    OBVIOUS
  <2>1. \A id \in SenderIds : Cardinality(WakesOf(id)') <= 1
    <3>1. \A id \in SenderIds : \A e, f \in WakesOf(id)' : e = f
      BY DEF NInv, OneWakeEach
    <3> QED
      BY <3>1, AtMostOneCounted
  <2> QED
    BY <2>1, StepOfSender DEF SInv
<1> QED
  BY <1>1, SimulationIsKept, PTL DEF NetworkSpec, SendersAreAloha

-----------------------------------------------------------------------------
(* At the end the frames on the air are those that end too late, and the   *)
(* others have passed the receiver or were lost.                           *)
LEMMA AtTheEnd ==
  ASSUME SInv, NInv, pc = "stopped"
  PROVE  /\ Settled = Ch!FrameIds \ active
         /\ Passed = {f \in Settled : f \notin collided}
         /\ \A f \in Settled : frames[f].end <= EndTime
         /\ \A f \in active : frames[f].end > EndTime /\ ~ (frames[f].end <= EndTime)
         /\ active \subseteq Ch!FrameIds
<1>1. /\ completed = {} /\ batch = {} /\ delivering = NoFrame
      /\ \A f \in active : frames[f].end > EndTime
  BY DEF SInv, IInv, NothingLeftBehind
<1>2. NoFrame \notin Ch!FrameIds /\ active \subseteq Ch!FrameIds /\ now <= EndTime
  BY FrameSets DEF SInv
<1>3. Settled = Ch!FrameIds \ active
  BY <1>1, <1>2 DEF Settled
<1>4. Passed = {f \in Settled : f \notin collided}
  BY <1>1, <1>2, <1>3 DEF Passed
<1>5. ASSUME NEW f \in Settled
      PROVE  frames[f].end <= EndTime
  <2>1. /\ frames[f].end <= now /\ frames[f].end \in Nat
        /\ now \in Nat /\ now <= EndTime /\ EndTime \in Nat
    BY <1>2, <1>3, FrameTimes, SchedulerAssumption DEF SInv, Ordered, OffTheAir
  <2> QED
    BY <2>1
<1>6. ASSUME NEW f \in active
      PROVE  ~ (frames[f].end <= EndTime)
  BY <1>1, <1>2, FrameTimes, SchedulerAssumption DEF SInv
<1> QED
  BY <1>1, <1>2, <1>3, <1>4, <1>5, <1>6

(***************************************************************************)
(* At the end the receiver has the frames that no other destroyed, each    *)
(* once and in the order of their ends, whatever the intervals and bands.  *)
(***************************************************************************)
THEOREM ReceiverHasWhatArrives == NetworkSpec => []ReceiverGetsWhatArrives
<1>1. SInv /\ NInv => ReceiverGetsWhatArrives
  <2> SUFFICES ASSUME SInv, NInv, pc = "stopped"
               PROVE  /\ {received[n] : n \in DOMAIN received} = Arrived
                      /\ \A m, n \in DOMAIN received :
                           m < n => EarlierEnd(received[m], received[n])
                      /\ metrics.rx[Receiver] = Len(received)
    BY DEF ReceiverGetsWhatArrives
  <2>1. /\ Settled = Ch!FrameIds \ active
        /\ Passed = {f \in Settled : f \notin collided}
        /\ \A f \in Settled : frames[f].end <= EndTime
        /\ \A f \in active : ~ (frames[f].end <= EndTime)
    BY AtTheEnd
  <2>2. \A f \in Ch!FrameIds : f \in collided <=> Ch!IsDestroyed(frames, f)
    BY DEF SInv, Ch!CollidedIffDestroyed
  <2>3. Passed = Arrived
    BY <2>1, <2>2 DEF Arrived
  <2> QED
    BY <2>3 DEF NInv, Kept
<1> QED
  BY <1>1, SimulationIsKept, PTL

(***************************************************************************)
(* Every payload handed over is accounted for at the end: received, lost   *)
(* in a collision, or still on the air.                                    *)
(***************************************************************************)
THEOREM TxFatesAddUp == NetworkSpec => []EveryTxHasOneFate
<1> DEFINE Late == {f \in Ch!FrameIds : frames[f].end > EndTime}
<1>1. SInv /\ NInv => EveryTxHasOneFate
  <2> SUFFICES ASSUME SInv, NInv, pc = "stopped"
               PROVE  /\ \A id \in SenderIds : metrics.tx[id] = senders[id].sent
                      /\ metrics.rx[Receiver] + metrics.collisions + Cardinality(Late)
                           = Cardinality(Handed)
    BY DEF EveryTxHasOneFate, Quantify
  <2>1. /\ Settled = Ch!FrameIds \ active
        /\ Passed = {f \in Settled : f \notin collided}
        /\ \A f \in Settled : frames[f].end <= EndTime
        /\ \A f \in active : frames[f].end > EndTime
        /\ active \subseteq Ch!FrameIds
    BY AtTheEnd
  <2>2. \A f \in Settled : ~ (frames[f].end > EndTime)
    BY <2>1, FrameTimes, SchedulerAssumption DEF SInv
  <2>3. Late = active
    BY <2>1, <2>2
  <2> HIDE DEF Late
  <2>4. /\ Passed \cup Lost = Settled /\ Passed \cap Lost = {}
        /\ Settled \cup Late = Ch!FrameIds /\ Settled \cap Late = {}
    BY <2>1, <2>3 DEF Lost
  <2>5. /\ IsFiniteSet(Passed) /\ IsFiniteSet(Lost) /\ IsFiniteSet(Settled)
        /\ IsFiniteSet(Late) /\ IsFiniteSet(Ch!FrameIds)
    BY <2>4, FramesAreFinite DEF SInv
  <2>6. Cardinality(Settled) = Cardinality(Passed) + Cardinality(Lost)
    <3>1. Cardinality(Passed \cup Lost) = Cardinality(Passed) + Cardinality(Lost)
      BY <2>4, <2>5, DisjointUnion
    <3> QED
      BY <2>4, <3>1
  <2>7. Cardinality(Ch!FrameIds) = Cardinality(Settled) + Cardinality(Late)
    <3>1. Cardinality(Settled \cup Late) = Cardinality(Settled) + Cardinality(Late)
      BY <2>4, <2>5, DisjointUnion
    <3> QED
      BY <2>4, <3>1
  <2>8. Cardinality(Ch!FrameIds) = Cardinality(Handed)
    <3>1. PICK n \in Nat : n = Len(frames) /\ Ch!FrameIds = 1..n
      BY FrameSets DEF SInv
    <3>2. 1 \in Int /\ n \in Int
      OBVIOUS
    <3>3. Cardinality(1..n) = IF 1 > n THEN 0 ELSE n - 1 + 1
      BY <3>2, FS_Interval
    <3>4. Cardinality(1..n) = n
      BY <3>3
    <3> QED
      BY <3>1, <3>4 DEF NInv, HandedOver
  <2>9. /\ metrics.rx[Receiver] = Cardinality(Passed)
        /\ metrics.collisions = Cardinality(Lost)
        /\ \A id \in SenderIds : metrics.tx[id] = senders[id].sent
    BY DEF NInv, Kept, HandedOver, SInv, AInv, VerdictsByFlags
  <2> QED
    BY <2>5, <2>6, <2>7, <2>8, <2>9, FS_CardinalityType
<1> QED
  BY <1>1, SimulationIsKept, PTL
=============================================================================
