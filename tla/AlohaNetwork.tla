---------------------------- MODULE AlohaNetwork ----------------------------
(***************************************************************************)
(* The simulation of examples/aloha/main.rs: the scheduler, its channel    *)
(* and its metrics with a receiver and a number of ALOHA senders.  Every   *)
(* step is a step of the scheduler; what Scheduler leaves to the callbacks *)
(* is pinned down by the nodes they are called on.                         *)
(***************************************************************************)
EXTENDS TimerContract, AlohaNode

CONSTANTS
  NumSenders,  \* NUM_SENDERS
  Starts,      \* when a sender may first be woken; 0 in main
  Intervals,   \* what the interval of a sender may be
  Poll,        \* POLL_INTERVAL_US
  Count,       \* PACKETS_PER_SENDER
  Duration,    \* TX_DURATION_US
  SenderBand   \* the band of each sender; one band in main

Receiver  == 0
SenderIds == 1..NumSenders

ASSUME AlohaNetworkAssumption ==
  /\ NumSenders \in Nat /\ Intervals \subseteq Nat /\ Count \in Nat
  /\ NodeIds = {Receiver} \cup SenderIds
  /\ MaxNodes = NumSenders + 1 /\ MaxInterferers = 0
  /\ MaxFrames = NumSenders * Count
  /\ Duration \in Durations
  /\ Starts \cup {0, Poll} \subseteq Delays
  /\ SenderBand \in [SenderIds -> Bands]

VARIABLES
  senders,  \* the AlohaNode of each sender
  received  \* AlohaReceiver: the frames received, in order

network     == <<senders, received>>
networkVars == <<vars, network>>

NetworkInit ==
  /\ Init
  /\ senders \in
       [SenderIds -> {NewNode(interval, Poll, Count) : interval \in Intervals}]
  /\ received = << >>

-----------------------------------------------------------------------------
(***************************************************************************)
(* A callback of a sender has left it as the given node and asked for the  *)
(* given wake; then the scheduler polls it.                                *)
(***************************************************************************)
SenderPolled(id, node, wake, time, queue) ==
  /\ senders' = [senders EXCEPT ![id] = PollTransmit(node)]
  /\ Schedule(queue,
       Requests(wake, "Wake", id)
         \o IF node.pending THEN <<Request(time + Duration, "TxComplete", id)>>
                            ELSE << >>)
  /\ \A f \in DOMAIN frames' \ DOMAIN frames : frames'[f].band = SenderBand[id]
  /\ UNCHANGED received

(* The handler of a wake.                                                  *)
SenderWoken(e) ==
  /\ PopWake(e)
  /\ LET answer == TryGenerateTx(senders[e.who], e.time)
     IN  SenderPolled(e.who, answer.node, answer.wake, e.time, events \ {e})

(* Mutation of SenderHears: a frame is taken for an occasion to send.      *)
SenderHearsTries(i) ==
  /\ nodes[i] \in SenderIds
  /\ Deliver(i)
  /\ LET answer == TryGenerateTx(senders[nodes[i]], now)
     IN  SenderPolled(nodes[i], answer.node, answer.wake, now, events)

(* A frame reaches a sender, which ignores it and is polled all the same.  *)
SenderHears(i) ==
  /\ nodes[i] \in SenderIds
  /\ Deliver(i)
  /\ SenderPolled(nodes[i], senders[nodes[i]], << >>, now, events)

(* The receiver keeps the frame, asks for no wake and sends nothing.       *)
ReceiverHears(i) ==
  /\ nodes[i] = Receiver
  /\ Deliver(i)
  /\ Schedule(events, << >>)
  /\ received' = Append(received, delivering)
  /\ UNCHANGED senders

-----------------------------------------------------------------------------
AddReceiver ==
  /\ nodes = << >>
  /\ AddNode(Receiver)
  /\ Schedule(events, << >>)
  /\ UNCHANGED network

AddSender(id, start) ==
  /\ Len(nodes) = id
  /\ AddNode(id)
  /\ Schedule(events, <<Request(start, "Wake", id)>>)
  /\ UNCHANGED network

(* main calls run once, with all nodes registered.                         *)
RunNetwork ==
  pc = "setup" /\ Len(nodes) = NumSenders + 1 /\ Run /\ UNCHANGED network

NetworkSetup ==
  \/ AddReceiver
  \/ \E id \in SenderIds, start \in Starts : AddSender(id, start)
  \/ RunNetwork

NetworkLoop ==
  \/ \E e \in events : SenderWoken(e)
  \/ \E e \in events : PopTxComplete(e) /\ UNCHANGED network
  \/ (Stop /\ UNCHANGED network)

NetworkDelivery ==
  \/ (Drain /\ UNCHANGED network)
  \/ \E id \in batch : (SkipCollided(id) \/ StartDelivery(id)) /\ UNCHANGED network
  \/ \E i \in DOMAIN nodes : SenderHears(i) \/ ReceiverHears(i)
  \/ \E i \in DOMAIN nodes : SkipSender(i) /\ UNCHANGED network
  \/ (EndDelivery /\ UNCHANGED network)
  \/ (EndBatch /\ UNCHANGED network)

NetworkNext == NetworkSetup \/ NetworkLoop \/ NetworkDelivery

(* run() does not pause, and main calls it.                                *)
NetworkSpec ==
  /\ NetworkInit /\ [][NetworkNext]_networkVars
  /\ WF_networkVars(NetworkLoop \/ NetworkDelivery)

-----------------------------------------------------------------------------
(* The wakes queued for a sender, as node sees them.                       *)
WakesOf(id) == {e \in events : e.kind = "Wake" /\ e.who = id}

WakeOf(id) ==
  IF WakesOf(id) = {} THEN << >> ELSE <<(CHOOSE e \in WakesOf(id) : TRUE).time>>

A(id) == INSTANCE Aloha WITH
  node <- senders[id], wake <- WakeOf(id), Polls <- {Poll}, Counts <- {Count}

(***************************************************************************)
(* The scheduler treats each sender as module Aloha takes for granted: it  *)
(* has one wake at most, is woken by it at the time it asked for, and not  *)
(* otherwise, however the events of the others come in between.            *)
(***************************************************************************)
SendersAreAloha ==
  [][pc = "deliver" \/ (pc = "loop" /\ pc' # "stopped") =>
       \A id \in SenderIds :
         /\ Cardinality(WakesOf(id)') <= 1
         /\ A(id)!Next \/ UNCHANGED <<senders[id], WakeOf(id)>>]_networkVars

(* The frames that come through to those that listen, by what was sent.    *)
Arrived == {f \in Ch!FrameIds : frames[f].end <= EndTime /\ ~ Ch!IsDestroyed(frames, f)}

(***************************************************************************)
(* At the end of the run the receiver has got the frames that no other     *)
(* frame destroyed, each of them once and in the order of their ends: main *)
(* counts on it when it divides rx by tx, "each TX can reach the receiver  *)
(* at most once".                                                          *)
(***************************************************************************)
ReceiverGetsWhatArrives ==
  pc = "stopped" =>
    /\ {received[n] : n \in DOMAIN received} = Arrived
    /\ \A m, n \in DOMAIN received : m < n => EarlierEnd(received[m], received[n])
    /\ metrics.rx[Receiver] = Len(received)

(* The payloads handed over, the first, the second and so on of each.      *)
Handed == UNION {{id} \X (1..senders[id].sent) : id \in SenderIds}

(***************************************************************************)
(* Every payload that a sender has handed over by then has one fate in the *)
(* counters that main prints: received, collided, or still on the air at   *)
(* the end of the simulation.                                              *)
(***************************************************************************)
EveryTxHasOneFate ==
  pc = "stopped" =>
    /\ \A id \in SenderIds : metrics.tx[id] = senders[id].sent
    /\ metrics.rx[Receiver] + metrics.collisions
         + Quantify(Ch!FrameIds, LAMBDA f : frames[f].end > EndTime)
         = Cardinality(Handed)

(***************************************************************************)
(* The simulation ends although a sender asks to be woken at the instant   *)
(* of each of its transmissions.                                           *)
(***************************************************************************)
SimulationEnds == pc = "loop" ~> pc = "stopped"
=============================================================================
