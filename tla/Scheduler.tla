----------------------------- MODULE Scheduler ------------------------------
(***************************************************************************)
(* The scheduler of src/scheduler.rs: it drives the nodes and interferers  *)
(* from one queue of events, puts what they send on the channel, and hands *)
(* each frame that came through to every node but its sender.              *)
(*                                                                         *)
(* The program is single-threaded.  run() is modelled by the steps between *)
(* two calls of foreign code (update, poll_transmit, on_receive, observe   *)
(* and so on): pc holds the place in run() and exactly one step is enabled *)
(* at each place, so nothing can come between the steps of one handler.    *)
(* Nodes and interferers are arbitrary: each call of theirs returns any    *)
(* wake time and any transmission that the constants allow.                *)
(***************************************************************************)
EXTENDS Integers, Sequences, FiniteSets, FiniteSetsExt, Metrics

CONSTANTS
  Bands, Powers, Durations, Rejection,  \* see Frames
  Delays,          \* how far ahead a wake or a poll may be asked for
  LastId,          \* u32::MAX, the identifier of interferer 0
  EndTime,         \* end_time
  MaxNodes,        \* bound: nodes registered
  MaxInterferers,  \* bound: interferers registered
  MaxFrames,       \* bound: frames begun
  MaxWakes         \* bound: no wake is asked for once seq has reached it

(***************************************************************************)
(* A wake time is absolute and the code accepts any: a delay may be        *)
(* negative.  That callbacks never name a time in the past is their side   *)
(* of the timer contract, which module TimerContract adds.                 *)
(***************************************************************************)
ASSUME SchedulerAssumption ==
  /\ Powers \subseteq Int
  /\ Durations \subseteq Nat
  /\ Rejection \in Nat \ {0}
  /\ Delays \subseteq Int
  /\ NodeIds \subseteq Nat
  /\ {LastId, EndTime, MaxNodes, MaxInterferers, MaxFrames, MaxWakes} \subseteq Nat
  /\ MaxInterferers <= LastId

VARIABLES
  now,         \* current_time
  frames, active, completed, collided, captured,  \* the channel
  events,      \* events: the queued events
  seq,         \* seq: the number of the next event
  nodes,       \* nodes: the identifiers of the registered nodes
  joined,      \* how many frames had begun when each node was registered
  heard,       \* interferers: what each was told through observe
  tuned,       \* how many frames had begun when each interferer was registered
  metrics,     \* metrics
  pc,          \* where the program is
  batch,       \* the drained frames that are still to be looked at
  delivering,  \* the frame being delivered, or NoFrame
  cursor,      \* i in the delivery loop
  handled      \* time and seq of the event handled last

channelVars  == <<frames, active, completed, collided, captured>>
registry     == <<nodes, joined, tuned>>
deliveryVars == <<batch, delivering, cursor>>
vars == <<now, channelVars, events, seq, registry, heard, metrics, pc,
          deliveryVars, handled>>

(* synthetic_interferer_id; interferers are numbered from 1 here.          *)
SyntheticId(k) == LastId - (k - 1)

Senders == NodeIds \cup {SyntheticId(k) : k \in 1..MaxInterferers}

Ch == INSTANCE Channel WITH MaxTime <- EndTime

NoFrame == 0

-----------------------------------------------------------------------------
(* The queue.                                                              *)

(* Mutation of Before: of two events of one instant the newer is popped.   *)
BeforeNewestFirst(e, f) == e.time < f.time \/ (e.time = f.time /\ e.seq > f.seq)

(* ScheduledEvent::cmp: the earlier time first, then the lower number.     *)
Before(e, f) == e.time < f.time \/ (e.time = f.time /\ e.seq < f.seq)

(* Mutation of IsNext: the order is not reversed for Rust's max-heap.      *)
IsNextUnreversed(e) == \A f \in events \ {e} : Before(f, e)

(* The next event, BinaryHeap::pop.                                        *)
IsNext(e) == \A f \in events \ {e} : Before(e, f)

Request(time, kind, who) == [time |-> time, kind |-> kind, who |-> who]

(* schedule, once for each request in turn.                                *)
Schedule(queue, requests) ==
  /\ events' = queue \cup
       {[time |-> requests[n].time, seq |-> seq + n - 1,
         kind |-> requests[n].kind, who |-> requests[n].who] :
          n \in DOMAIN requests}
  /\ seq' = seq + Len(requests)

(* The times that a caller may name, none before the epoch.                *)
Times(time) == {time + delay : delay \in {d \in Delays : time + d >= 0}}

(* The Option<SimTime> a callback may return at a time.                    *)
Answers(time) ==
  {<< >>} \cup {<<later>> : later \in {t \in Times(time) : seq < MaxWakes}}

Requests(answer, kind, who) ==
  [n \in DOMAIN answer |-> Request(answer[n], kind, who)]

(* find_node_idx: the first node that has the identifier.                  *)
FindNode(id) == Min({i \in DOMAIN nodes : nodes[i] = id})

-----------------------------------------------------------------------------
(* What interferers are told names a sender and no frame.                  *)
ChannelEvent ==
  [kind : {"started"}, sender : Senders, band : Bands, time : Nat] \cup
  [kind : {"completed"}, sender : Senders, time : Nat, collided : BOOLEAN]

Started(sender, band, time) ==
  [kind |-> "started", sender |-> sender, band |-> band, time |-> time]

Completed(id) ==
  [kind |-> "completed", sender |-> frames[id].sender, time |-> frames[id].end,
   collided |-> id \in collided]

(* The calls of observe, for each event in turn and each interferer.       *)
ObserveAll(news) == heard' = [k \in DOMAIN heard |-> heard[k] \o news]

(* Mutation of InVectorOrder: the vector is emptied from its end.          *)
InReverseOrder(ids) ==
  {order \in [1..Cardinality(ids) -> ids] :
     \A n \in DOMAIN order : Cardinality({id \in ids : id > order[n]}) = n - 1}

(* The order in which the vector of active frames holds some of them: each *)
(* has those before it that began before it.                               *)
InVectorOrder(ids) ==
  {order \in [1..Cardinality(ids) -> ids] :
     \A n \in DOMAIN order : Cardinality({id \in ids : id < order[n]}) = n - 1}

ObserveCompletions(ids) ==
  \E order \in InVectorOrder(ids) :
    ObserveAll([n \in DOMAIN order |-> Completed(order[n])])

(***************************************************************************)
(* handle_poll_transmit for the node at an index, after its callback asked *)
(* for a wake and with the metrics recorded so far.                        *)
(***************************************************************************)
NodeStaysSilent(time, queue, wake, m) ==
  /\ now' = time
  /\ UNCHANGED <<channelVars, heard>>
  /\ metrics' = m
  /\ Schedule(queue, wake)

(* Mutation of NodeTransmits: the completion is queued for the start.      *)
NodeTransmitsDoneAtOnce(i, time, queue, wake, m) ==
  \E tx \in Ch!Transmissions :
    /\ Ch!BeginTransmission(nodes[i], tx, time)
    /\ ObserveAll(<<Started(nodes[i], tx.band, time)>>)
    /\ metrics' = RecordAirtime(RecordTx(m, nodes[i]), tx.duration)
    /\ Schedule(queue, Append(wake, Request(time, "TxComplete", nodes[i])))

NodeTransmits(i, time, queue, wake, m) ==
  \E tx \in Ch!Transmissions :
    /\ Ch!BeginTransmission(nodes[i], tx, time)
    /\ ObserveAll(<<Started(nodes[i], tx.band, time)>>)
    /\ metrics' = RecordAirtime(RecordTx(m, nodes[i]), tx.duration)
    /\ Schedule(queue,
         Append(wake, Request(time + tx.duration, "TxComplete", nodes[i])))

HandlePollTransmit(i, time, queue, wake, m) ==
  \/ NodeStaysSilent(time, queue, wake, m)
  \/ NodeTransmits(i, time, queue, wake, m)

-----------------------------------------------------------------------------
Init ==
  /\ Ch!Init
  /\ events = {}
  /\ seq = 0
  /\ nodes = << >>
  /\ joined = << >>
  /\ heard = << >>
  /\ tuned = << >>
  /\ metrics = NoMetrics
  /\ pc = "setup"
  /\ batch = {}
  /\ delivering = NoFrame
  /\ cursor = 0
  /\ handled = [time |-> 0, seq |-> -1]

(* Between the calls of run(), nodes and interferers may be registered.    *)
Registering == pc \in {"setup", "stopped"} /\ pc' = "setup"

(* add_node; the guard is its debug_assert.                                *)
AddNode(id) ==
  /\ Registering
  /\ Len(nodes) < MaxNodes
  /\ \A k \in DOMAIN heard : id # SyntheticId(k)
  /\ nodes' = Append(nodes, id)
  /\ joined' = Append(joined, Len(frames))
  /\ \E answer \in Answers(now) : Schedule(events, Requests(answer, "Wake", id))
  /\ UNCHANGED <<now, channelVars, heard, tuned, metrics, deliveryVars, handled>>

(* Mutation of AddInterferer: the index is taken after the push.           *)
AddInterfererPushedFirst(firstPoll) ==
  /\ Registering
  /\ Len(heard) < MaxInterferers
  /\ \A i \in DOMAIN nodes : nodes[i] # SyntheticId(Len(heard) + 1)
  /\ heard' = Append(heard, << >>)
  /\ tuned' = Append(tuned, Len(frames))
  /\ Schedule(events, <<Request(firstPoll, "InterferencePoll", Len(heard) + 2)>>)
  /\ UNCHANGED <<now, channelVars, nodes, joined, metrics, deliveryVars, handled>>

(* add_interferer; the guard is its debug_assert.                          *)
AddInterferer(firstPoll) ==
  /\ Registering
  /\ Len(heard) < MaxInterferers
  /\ \A i \in DOMAIN nodes : nodes[i] # SyntheticId(Len(heard) + 1)
  /\ heard' = Append(heard, << >>)
  /\ tuned' = Append(tuned, Len(frames))
  /\ Schedule(events, <<Request(firstPoll, "InterferencePoll", Len(heard) + 1)>>)
  /\ UNCHANGED <<now, channelVars, nodes, joined, metrics, deliveryVars, handled>>

(* run() is called, for the first time or once more.                       *)
Run ==
  /\ pc \in {"setup", "stopped"}
  /\ pc' = "loop"
  /\ UNCHANGED <<now, channelVars, events, seq, registry, heard, metrics,
                 deliveryVars, handled>>

-----------------------------------------------------------------------------
(* The loop of run().                                                      *)

(* Mutation of Due: the last instant is not part of the run.               *)
DueBefore(e) == e.time < EndTime

Due(e) == e.time <= EndTime

(* The event popped next, when the run does not end with it.               *)
Pops(e, kind) ==
  /\ pc = "loop"
  /\ IsNext(e)
  /\ Due(e)
  /\ e.kind = kind
  /\ handled' = [time |-> e.time, seq |-> e.seq]

(* Wakes name registered nodes only, so find_node_idx always finds one.    *)
PopWake(e) ==
  /\ Pops(e, "Wake")
  /\ \E answer \in Answers(e.time) :
       HandlePollTransmit(FindNode(e.who), e.time, events \ {e},
                          Requests(answer, "Wake", e.who), metrics)
  /\ UNCHANGED <<registry, pc, deliveryVars>>

(* Mutation of PopTxComplete: the event is read and stays in the queue.    *)
PopTxCompletePeek(e) ==
  /\ Pops(e, "TxComplete")
  /\ Ch!ResolveAt(e.time)
  /\ ObserveCompletions(Ch!Over(e.time))
  /\ pc' = "drain"
  /\ UNCHANGED <<events, seq, registry, metrics, deliveryVars>>

(* The sender of the event is not used: every frame that is over leaves.   *)
PopTxComplete(e) ==
  /\ Pops(e, "TxComplete")
  /\ events' = events \ {e}
  /\ Ch!ResolveAt(e.time)
  /\ ObserveCompletions(Ch!Over(e.time))
  /\ pc' = "drain"
  /\ UNCHANGED <<seq, registry, metrics, deliveryVars>>

InterfererStaysSilent(time, queue, poll) ==
  /\ now' = time
  /\ UNCHANGED <<channelVars, heard, metrics>>
  /\ Schedule(queue, poll)

(* Mutation of InterfererInjects: injected frames are free.                *)
InterfererInjectsFree(k, time, queue, poll) ==
  \E tx \in Ch!Transmissions :
    /\ Ch!BeginTransmission(SyntheticId(k), tx, time)
    /\ ObserveAll(<<Started(SyntheticId(k), tx.band, time)>>)
    /\ Schedule(queue,
         <<Request(time + tx.duration, "TxComplete", SyntheticId(k))>> \o poll)
    /\ UNCHANGED metrics

(* An injected frame costs airtime, and is no transmission of a node.      *)
InterfererInjects(k, time, queue, poll) ==
  \E tx \in Ch!Transmissions :
    /\ Ch!BeginTransmission(SyntheticId(k), tx, time)
    /\ ObserveAll(<<Started(SyntheticId(k), tx.band, time)>>)
    /\ metrics' = RecordAirtime(metrics, tx.duration)
    /\ Schedule(queue,
         <<Request(time + tx.duration, "TxComplete", SyntheticId(k))>> \o poll)

PopInterferencePoll(e) ==
  /\ Pops(e, "InterferencePoll")
  /\ \E answer \in Answers(e.time) :
       LET poll == Requests(answer, "InterferencePoll", e.who)
       IN  \/ InterfererStaysSilent(e.time, events \ {e}, poll)
           \/ InterfererInjects(e.who, e.time, events \ {e}, poll)
  /\ UNCHANGED <<registry, pc, deliveryVars>>

(* An event after end_time is popped too, and lost.                        *)
Stop ==
  /\ pc = "loop"
  /\ \A e \in events : IsNext(e) => ~ Due(e)
  /\ events' = {e \in events : ~ IsNext(e)}
  /\ pc' = "stopped"
  /\ UNCHANGED <<now, channelVars, seq, registry, heard, metrics, deliveryVars, handled>>

-----------------------------------------------------------------------------
(* deliver_completed_to_nodes.                                             *)
Drain ==
  /\ pc = "drain"
  /\ Ch!DrainCompleted
  /\ batch' = completed
  /\ pc' = "deliver"
  /\ UNCHANGED <<events, seq, registry, heard, metrics, delivering, cursor, handled>>

(* Mutation of TakesFrame: the batch is popped from its end.               *)
TakesFrameLast(id) ==
  /\ pc = "deliver"
  /\ delivering = NoFrame
  /\ batch # {}
  /\ id = Max(batch)
  /\ batch' = batch \ {id}
  /\ UNCHANGED <<now, channelVars, events, seq, registry, heard, pc, handled>>

(* The loop turns to the next frame of the batch.                          *)
TakesFrame(id) ==
  /\ pc = "deliver"
  /\ delivering = NoFrame
  /\ batch # {}
  /\ id = Min(batch)
  /\ batch' = batch \ {id}
  /\ UNCHANGED <<now, channelVars, events, seq, registry, heard, pc, handled>>

(* Mutation of SkipCollided: the capture is recorded before the verdict.   *)
SkipCollidedLate(id) ==
  /\ TakesFrame(id)
  /\ id \in collided
  /\ metrics' = LET m == IF id \in captured THEN RecordCapture(metrics) ELSE metrics
                IN  RecordCollision(m)
  /\ UNCHANGED <<delivering, cursor>>

SkipCollided(id) ==
  /\ TakesFrame(id)
  /\ id \in collided
  /\ metrics' = RecordCollision(metrics)
  /\ UNCHANGED <<delivering, cursor>>

StartDelivery(id) ==
  /\ TakesFrame(id)
  /\ id \notin collided
  /\ metrics' = IF id \in captured THEN RecordCapture(metrics) ELSE metrics
  /\ delivering' = id
  /\ cursor' = 1

(* Mutation of IsSender: the index of the node is taken for its NodeId.    *)
IsSenderByIndex(i) == i = frames[delivering].sender

IsSender(i) == nodes[i] = frames[delivering].sender

(* i is the cursor of the loop over the nodes.                             *)
AtNode(i) ==
  /\ pc = "deliver"
  /\ delivering # NoFrame
  /\ i = cursor
  /\ i \in DOMAIN nodes
  /\ cursor' = i + 1
  /\ UNCHANGED <<registry, pc, batch, delivering, handled>>

(* Mutation of SkipSender: it leaves the loop and not the round.            *)
SkipSenderAndTheRest(i) ==
  /\ pc = "deliver"
  /\ delivering # NoFrame
  /\ i = cursor
  /\ i \in DOMAIN nodes
  /\ IsSender(i)
  /\ delivering' = NoFrame
  /\ cursor' = 0
  /\ UNCHANGED <<now, channelVars, events, seq, registry, heard, metrics, pc, batch, handled>>

SkipSender(i) ==
  /\ AtNode(i)
  /\ IsSender(i)
  /\ UNCHANGED <<now, channelVars, events, seq, heard, metrics>>

Deliver(i) ==
  /\ AtNode(i)
  /\ ~ IsSender(i)
  /\ \E answer \in Answers(now) :
       HandlePollTransmit(i, now, events, Requests(answer, "Wake", nodes[i]),
                          RecordRx(metrics, nodes[i]))

EndDelivery ==
  /\ pc = "deliver"
  /\ delivering # NoFrame
  /\ cursor \notin DOMAIN nodes
  /\ delivering' = NoFrame
  /\ cursor' = 0
  /\ UNCHANGED <<now, channelVars, events, seq, registry, heard, metrics, pc, batch, handled>>

EndBatch ==
  /\ pc = "deliver"
  /\ delivering = NoFrame
  /\ batch = {}
  /\ pc' = "loop"
  /\ UNCHANGED <<now, channelVars, events, seq, registry, heard, metrics,
                 deliveryVars, handled>>

Setup ==
  \/ \E id \in NodeIds : AddNode(id)
  \/ \E firstPoll \in Times(now) : AddInterferer(firstPoll)
  \/ Run

Loop ==
  \/ \E e \in events : PopWake(e) \/ PopTxComplete(e) \/ PopInterferencePoll(e)
  \/ Stop

Delivery ==
  \/ Drain
  \/ \E id \in batch : SkipCollided(id) \/ StartDelivery(id)
  \/ \E i \in DOMAIN nodes : SkipSender(i) \/ Deliver(i)
  \/ EndDelivery
  \/ EndBatch

Next == Setup \/ Loop \/ Delivery

Spec == Init /\ [][Next]_vars

(* run() does not pause between events; nobody has to call it.             *)
FairSpec == Spec /\ WF_vars(Loop \/ Delivery)

-----------------------------------------------------------------------------
EventSet ==
  [time : Nat, seq : Nat, kind : {"Wake", "TxComplete", "InterferencePoll"},
   who : Senders \cup 1..MaxInterferers]

TypeOK ==
  /\ Ch!TypeOK
  /\ events \in SUBSET EventSet
  /\ seq \in Nat
  /\ nodes \in Seq(NodeIds)
  /\ joined \in Seq(Nat) /\ Len(joined) = Len(nodes)
  /\ heard \in Seq(Seq(ChannelEvent))
  /\ tuned \in Seq(Nat) /\ Len(tuned) = Len(heard)
  /\ metrics \in Counters
  /\ pc \in {"setup", "loop", "drain", "deliver", "stopped"}
  /\ batch \subseteq Ch!FrameIds
  /\ delivering \in Ch!FrameIds \cup {NoFrame}
  /\ cursor \in 0..(Len(nodes) + 1)
  /\ handled \in [time : 0..EndTime, seq : Nat \cup {-1}]

(***************************************************************************)
(* The scheduler is a correct caller of the channel: through all handlers  *)
(* and replies its calls come in the order of time, none after end_time,   *)
(* and nothing but these calls changes the channel.                        *)
(***************************************************************************)
UsesChannel == Ch!Spec

(***************************************************************************)
(* Every queued event comes after the one handled last, by time and, at    *)
(* one instant, by the order of scheduling: the clock never goes back and  *)
(* no event scheduled during an instant overtakes one already queued.      *)
(***************************************************************************)
AgendaIsAhead ==
  \A e \in events :
    e.time > handled.time \/ (e.time = handled.time /\ e.seq > handled.seq)

(***************************************************************************)
(* A frame on the air that is due has its TxComplete queued at exactly its *)
(* end, so no frame can be forgotten by the completion of another one, nor *)
(* by a run() that ended before it: the event that run() pops beyond       *)
(* end_time and drops is of use to no later run().                         *)
(***************************************************************************)
CompletionIsQueued ==
  \A id \in active : frames[id].end <= EndTime =>
    \E e \in events :
      /\ e.kind = "TxComplete"
      /\ e.time = frames[id].end
      /\ e.who = frames[id].sender

(***************************************************************************)
(* Frames are resolved and delivered at their end to the microsecond: the  *)
(* time passed to on_receive is the time in the metadata of the frame,     *)
(* though one TxComplete may resolve the frames of several senders.        *)
(***************************************************************************)
DeliveredAtItsEnd ==
  \A id \in completed \cup batch \cup ({delivering} \ {NoFrame}) :
    frames[id].end = now

(***************************************************************************)
(* Once run() has returned nothing due by end_time is left behind: no      *)
(* queued event, no frame on the air, and no resolved frame undelivered.   *)
(***************************************************************************)
NothingLeftBehind ==
  pc = "stopped" =>
    /\ \A e \in events : e.time > EndTime
    /\ \A id \in active : frames[id].end > EndTime
    /\ completed = {} /\ batch = {} /\ delivering = NoFrame

(* The frames the delivery loop is done with.                              *)
Settled == Ch!FrameIds \ (active \cup completed \cup batch \cup {delivering})

EarlierEnd(f, g) ==
  frames[f].end < frames[g].end \/ (frames[f].end = frames[g].end /\ f < g)

(***************************************************************************)
(* Frames are settled in the order in which they end and, of one end, in   *)
(* the order in which they began: no completion that was queued late, and  *)
(* no reply sent during a delivery, gets ahead of a frame still to settle. *)
(***************************************************************************)
SettledInOrder ==
  \A f \in Settled, g \in Ch!FrameIds \ Settled : EarlierEnd(f, g)

(***************************************************************************)
(* Each node has received exactly the settled frames that came through and *)
(* that others sent, and its part of the one being delivered: no frame is  *)
(* lost or doubled by replies sent during delivery, no node hears itself,  *)
(* nobody receives a frame that collided, and a node that is registered    *)
(* between two runs receives none that began before it was there.          *)
(***************************************************************************)
ReceivedAt(i) ==
  {f \in (Settled \cup {delivering}) \ {NoFrame} :
     /\ f > joined[i]
     /\ f \notin collided
     /\ f = delivering => i < cursor
     /\ nodes[i] # frames[f].sender}

Receptions(id) ==
  UNION {ReceivedAt(i) \X {i} : i \in {k \in DOMAIN nodes : nodes[k] = id}}

RxAccounting == \A id \in NodeIds : metrics.rx[id] = Cardinality(Receptions(id))

(***************************************************************************)
(* Of the queue, the list of active frames, the flags and the batches the  *)
(* nodes see no more than module Broadcast has.  Each frame that comes     *)
(* through, by what all frames justify, is heard by each node that was     *)
(* there when it began, its sender apart: once, at its end, in the order   *)
(* of the ends, and before time goes on or the next frame is looked at,    *)
(* whatever the nodes send in reply and whenever they ask to be woken; and *)
(* each counter moves in the very step that it counts.                     *)
(***************************************************************************)
HeardBy == UNION {ReceivedAt(i) \X {i} : i \in DOMAIN nodes}

Bc == INSTANCE Broadcast WITH settled <- Settled, heardBy <- HeardBy,
                              tx <- metrics.tx, rx <- metrics.rx,
                              collisions <- metrics.collisions

ImplementsBroadcast == Bc!Spec

(***************************************************************************)
(* Collisions count the settled frames that collided, and captures those   *)
(* that came through against another frame, also after later frames.       *)
(***************************************************************************)
VerdictAccounting ==
  /\ metrics.collisions = Quantify(Settled, LAMBDA f : Ch!Outcome(frames, f) = "collided")
  /\ metrics.captures =
       Quantify(Settled \cup ({delivering} \ {NoFrame}),
               LAMBDA f : Ch!Outcome(frames, f) = "captured")

(* The frames of a sender, and the microseconds that all frames take.      *)
SentBy(id) == {f \in Ch!FrameIds : frames[f].sender = id}

OnAir == UNION {{f} \X (frames[f].start .. frames[f].end - 1) : f \in Ch!FrameIds}

(***************************************************************************)
(* A node's tx counter counts the frames on the channel that are its own,  *)
(* sent in a wake or in a reply, and none of an interferer whose synthetic *)
(* identifier it might share; the airtime counts the microseconds of all.  *)
(***************************************************************************)
TxAccounting ==
  /\ \A i \in DOMAIN nodes : metrics.tx[nodes[i]] = Cardinality(SentBy(nodes[i]))
  /\ metrics.airtime = Cardinality(OnAir)

(* How many of the first n events told are of a kind.                      *)
Told(news, kind, n) == Cardinality({m \in 1..n : news[m].kind = kind})

(* Of some frames, those that end no later than one of them.               *)
UpTo(f, ended) == {g \in ended : g = f \/ EarlierEnd(g, f)}

(* What an interferer was told, of the frames begun since a given one.     *)
TracksTheAir(news, since) ==
  LET begun == {f \in Ch!FrameIds : f > since}
      ended == begun \ active
  IN  /\ Told(news, "started", Len(news)) = Cardinality(begun)
      /\ Told(news, "completed", Len(news)) = Cardinality(ended)
      /\ \A n \in DOMAIN news :
           \/ \E f \in begun :
                /\ f = since + Told(news, "started", n)
                /\ news[n] = Started(frames[f].sender, frames[f].band, frames[f].start)
           \/ \E f \in ended :
                /\ Cardinality(UpTo(f, ended)) = Told(news, "completed", n)
                /\ news[n] = Completed(f)
      /\ \A m, n \in DOMAIN news : m <= n => news[m].time <= news[n].time

(***************************************************************************)
(* Each interferer has been told of each frame begun since it was          *)
(* registered when it began and, once it is off the air, when it ended:    *)
(* once, with the sender, band and flag that the frame has, in the order   *)
(* of the beginnings, in that of the ends and, of one end, of beginnings,  *)
(* and in the order of time; and of nothing else, no frame begun before it *)
(* was there.  So it can tell how many frames of each sender are on the    *)
(* air and how many collided, though events do not name frames.            *)
(***************************************************************************)
ObserversTrackTheAir == \A k \in DOMAIN heard : TracksTheAir(heard[k], tuned[k])

(***************************************************************************)
(* A run() that is called returns: every instant has finitely many events  *)
(* and time moves on when callbacks ask to be woken strictly later and     *)
(* frames take time.                                                       *)
(***************************************************************************)
Termination == pc = "loop" ~> pc = "stopped"

(***************************************************************************)
(* What tests/scalability_and_metrics_tests.rs says of the counters at the *)
(* end of a run, "captures are a subset of collisions", asked here only of *)
(* runs that left no frame on the air.                                     *)
(***************************************************************************)
CapturesWithinCollisions ==
  pc = "stopped" /\ active = {} => metrics.captures <= metrics.collisions
=============================================================================
