--------------------------- MODULE SchedulerProofs --------------------------
(***************************************************************************)
(* What the scheduler guarantees for every choice of its constants.  The   *)
(* argument: each frame on the air has its own completion in the queue, so *)
(* the first event at its end is the one that resolves it, whatever times  *)
(* the callbacks name.  If they keep the timer contract and name none in   *)
(* the past, every queued event is ahead of the clock and the calls to the *)
(* channel come in the order of time.                                      *)
(***************************************************************************)
EXTENDS Scheduler, SequenceTheorems, FiniteSetTheorems, WellFoundedInduction, TLAPS

(* The theorems about the channel, for the channel of the scheduler.       *)
P == INSTANCE ChannelProofs WITH MaxTime <- EndTime

RequestSet ==
  [time : Nat, kind : {"Wake", "TxComplete", "InterferencePoll"},
   who : Senders \cup 1..MaxInterferers]

(* An event names a node or an interferer that is registered.              *)
Registered(r) ==
  /\ r.kind = "Wake" => \E i \in DOMAIN nodes : nodes[i] = r.who
  /\ r.kind = "InterferencePoll" => r.who \in DOMAIN heard

RegistrationFits ==
  /\ Len(nodes) <= MaxNodes
  /\ Len(heard) <= MaxInterferers
  /\ \A e \in events : Registered(e)

(* The clock and the numbers of the events.                                *)
ClockAndNumbers ==
  /\ handled.time = now
  /\ handled.seq < seq
  /\ \A e \in events : e.seq < seq
  /\ \A e, f \in events : e.seq = f.seq => e = f

(* Under the timer contract callers name no time that is in the past.      *)
ContractKept == Delays \subseteq Nat

AheadByContract == ContractKept => AgendaIsAhead

(* What is empty where in run(), and on the air between two runs.          *)
Phases ==
  /\ pc \in {"setup", "stopped"} => \A id \in active : frames[id].end > EndTime
  /\ pc # "drain" => completed = {}
  /\ pc # "deliver" => batch = {} /\ delivering = NoFrame

(* The inductive invariant.                                                *)
IInv ==
  /\ TypeOK
  /\ RegistrationFits
  /\ ClockAndNumbers
  /\ AheadByContract
  /\ Phases
  /\ CompletionIsQueued
  /\ DeliveredAtItsEnd
  /\ NothingLeftBehind

-----------------------------------------------------------------------------
(* A set of numbers that is not empty has a least member, and Min is it.   *)
LEMMA LeastNumber ==
  ASSUME NEW S \in SUBSET Nat, S # {}
  PROVE  Min(S) \in S /\ \A n \in S : Min(S) <= n
<1>1. PICK least \in S : \A n \in S : ~ (<<n, least>> \in OpToRel(<, Nat))
  BY NatLessThanWellFounded, WFMin
<1>2. \A n \in S : ~ (n < least)
  BY <1>1, Zenon DEF OpToRel
<1>3. \A n \in S : least <= n
  BY <1>2
<1> QED
  BY <1>3 DEF Min

(* find_node_idx finds a node that is registered.                          *)
LEMMA FindNodeFinds ==
  ASSUME nodes \in Seq(NodeIds), NEW id, \E i \in DOMAIN nodes : nodes[i] = id
  PROVE  FindNode(id) \in DOMAIN nodes
<1> DEFINE S == {i \in DOMAIN nodes : nodes[i] = id}
<1>1. S \in SUBSET Nat /\ S # {}
  OBVIOUS
<1>2. Min(S) \in S
  BY <1>1, LeastNumber
<1> QED
  BY <1>2 DEF FindNode

(* While events are queued, one of them is next, and none is earlier.      *)
LEMMA SomeEventIsNext ==
  ASSUME events \in SUBSET EventSet, ClockAndNumbers, events # {}
  PROVE  \E e \in events : IsNext(e) /\ \A f \in events : e.time <= f.time
<1> DEFINE times == {e.time : e \in events}
           first == Min(times)
           seqs  == {e.seq : e \in {f \in events : f.time = first}}
<1>1. first \in times /\ \A t \in times : first <= t
  <2>1. times \in SUBSET Nat /\ times # {}
    BY DEF EventSet
  <2> QED
    BY <2>1, LeastNumber
<1>2. Min(seqs) \in seqs /\ \A s \in seqs : Min(seqs) <= s
  <2>1. seqs \in SUBSET Nat /\ seqs # {}
    BY <1>1 DEF EventSet
  <2> QED
    BY <2>1, LeastNumber
<1>3. PICK e \in events : e.time = first /\ e.seq = Min(seqs)
  BY <1>2
<1>4. ASSUME NEW f \in events \ {e}
      PROVE  Before(e, f) /\ e.time <= f.time
  <2>1. f.time \in times /\ e.seq # f.seq
    BY <1>4 DEF ClockAndNumbers
  <2>2. e.time \in Nat /\ f.time \in Nat /\ e.seq \in Nat /\ f.seq \in Nat
    BY <1>4 DEF EventSet
  <2>3. first <= f.time
    BY <1>1, <2>1
  <2>4. CASE f.time = first
    <3>1. f.seq \in seqs
      BY <2>4
    <3>2. Min(seqs) <= f.seq
      BY <1>2, <3>1
    <3> QED
      BY <1>3, <2>1, <2>2, <2>4, <3>2 DEF Before
  <2>5. CASE f.time # first
    BY <1>3, <2>2, <2>3, <2>5 DEF Before
  <2> QED
    BY <2>4, <2>5
<1>5. e.time <= e.time
  BY DEF EventSet
<1> QED
  BY <1>4, <1>5 DEF IsNext

-----------------------------------------------------------------------------
(* The event that schedule makes of a request.                             *)
Grants(e, r) == e.time = r.time /\ e.kind = r.kind /\ e.who = r.who

(* What schedule does to the queue, for one or several requests in turn.   *)
LEMMA ScheduleFacts ==
  ASSUME seq \in Nat, NEW queue \in SUBSET EventSet, NEW requests \in Seq(RequestSet),
         Schedule(queue, requests)
  PROVE  /\ events' \in SUBSET EventSet
         /\ seq' \in Nat /\ seq <= seq'
         /\ queue \subseteq events'
         /\ \A e \in events' \ queue :
              /\ seq <= e.seq /\ e.seq < seq'
              /\ \E n \in DOMAIN requests : Grants(e, requests[n])
         /\ \A e, f \in events' \ queue : e.seq = f.seq => e = f
         /\ \A n \in DOMAIN requests : \E e \in events' : Grants(e, requests[n])
<1> DEFINE event(n) == [time |-> requests[n].time, seq |-> seq + n - 1,
                        kind |-> requests[n].kind, who |-> requests[n].who]
<1>1. events' = queue \cup {event(n) : n \in DOMAIN requests}
        /\ seq' = seq + Len(requests)
  BY DEF Schedule
<1>2. DOMAIN requests = 1..Len(requests) /\ Len(requests) \in Nat
  OBVIOUS
<1>3. ASSUME NEW n \in DOMAIN requests
      PROVE  /\ event(n) \in EventSet
             /\ seq <= event(n).seq /\ event(n).seq < seq + Len(requests)
             /\ Grants(event(n), requests[n])
  <2>1. requests[n] \in RequestSet /\ n \in Nat /\ 1 <= n /\ n <= Len(requests)
    BY <1>2
  <2>2. seq + n - 1 \in Nat
    BY <2>1
  <2> QED
    BY <2>1, <2>2, <1>2 DEF RequestSet, EventSet, Grants
<1>4. ASSUME NEW n \in DOMAIN requests, NEW k \in DOMAIN requests,
             event(n).seq = event(k).seq
      PROVE  event(n) = event(k)
  <2>1. n = k
    BY <1>2, <1>4
  <2> QED
    BY <2>1
<1> HIDE DEF event
<1>5. seq' \in Nat /\ seq <= seq'
  BY <1>1, <1>2
<1>6. \A e \in events' \ queue : \E n \in DOMAIN requests : e = event(n)
  BY <1>1
<1>7. \A n \in DOMAIN requests : event(n) \in events'
  BY <1>1
<1>8. events' \in SUBSET EventSet /\ queue \subseteq events'
  BY <1>1, <1>3
<1>9. \A e \in events' \ queue :
        /\ seq <= e.seq /\ e.seq < seq'
        /\ \E n \in DOMAIN requests : Grants(e, requests[n])
  BY <1>1, <1>3, <1>6
<1>10. \A e, f \in events' \ queue : e.seq = f.seq => e = f
  BY <1>4, <1>6
<1>11. \A n \in DOMAIN requests : \E e \in events' : Grants(e, requests[n])
  BY <1>3, <1>7
<1> QED
  BY <1>5, <1>8, <1>9, <1>10, <1>11

(* The queue stays ahead when what is asked for is not in the past.        *)
LEMMA ScheduleKeepsQueue ==
  ASSUME TypeOK, ClockAndNumbers,
         NEW queue \in SUBSET events, NEW time \in Nat,
         NEW requests \in Seq(RequestSet), Schedule(queue, requests),
         ContractKept => \A n \in DOMAIN requests : time <= requests[n].time,
         now' = time, handled'.time = time,
         handled'.seq \in Int, handled'.seq < seq,
         ContractKept =>
           \A e \in queue : e.time > time \/ (e.time = time /\ e.seq > handled'.seq)
  PROVE  ClockAndNumbers' /\ AheadByContract'
<1>1. seq \in Nat /\ queue \in SUBSET EventSet
  BY DEF TypeOK
<1>2. /\ events' \in SUBSET EventSet
      /\ seq' \in Nat /\ seq <= seq'
      /\ \A e \in events' \ queue :
           /\ seq <= e.seq /\ e.seq < seq'
           /\ \E n \in DOMAIN requests : Grants(e, requests[n])
      /\ \A e, f \in events' \ queue : e.seq = f.seq => e = f
  <2>1. events' \in SUBSET EventSet /\ seq' \in Nat /\ seq <= seq'
    BY <1>1, ScheduleFacts
  <2>2. \A e \in events' \ queue :
          /\ seq <= e.seq /\ e.seq < seq'
          /\ \E n \in DOMAIN requests : Grants(e, requests[n])
    BY <1>1, ScheduleFacts
  <2>3. \A e, f \in events' \ queue : e.seq = f.seq => e = f
    BY <1>1, ScheduleFacts
  <2> QED
    BY <2>1, <2>2, <2>3
<1>3. \A e \in events' : e.seq \in Nat /\ e.time \in Nat
  BY <1>2 DEF EventSet
<1>4. \A e \in queue : e.seq < seq
  BY DEF ClockAndNumbers
<1>5. \A e \in events' : e.seq < seq'
  BY <1>1, <1>2, <1>3, <1>4 DEF EventSet
<1>6. ASSUME NEW e \in events', NEW f \in events', e.seq = f.seq
      PROVE  e = f
  <2>1. CASE e \in queue /\ f \in queue
    BY <1>6, <2>1 DEF ClockAndNumbers
  <2>2. CASE e \notin queue /\ f \notin queue
    BY <1>2, <1>6, <2>2
  <2>3. CASE (e \in queue) # (f \in queue)
    BY <1>1, <1>2, <1>3, <1>4, <1>6, <2>3
  <2> QED
    BY <2>1, <2>2, <2>3
<1>7. ASSUME ContractKept, NEW e \in events' \ queue
      PROVE  e.time > time \/ (e.time = time /\ e.seq > handled'.seq)
  <2>1. time <= e.time /\ seq <= e.seq
    BY <1>2, <1>7 DEF Grants
  <2> QED
    BY <1>1, <1>3, <2>1
<1>8. handled'.seq < seq'
  BY <1>1, <1>2
<1> QED
  BY <1>5, <1>6, <1>7, <1>8
     DEF ClockAndNumbers, AheadByContract, AgendaIsAhead, ContractKept

-----------------------------------------------------------------------------
(***************************************************************************)
(* A turn: what a callback of a node or an interferer leads to, until the  *)
(* next one.  Wakes and polls are asked for, and a frame may begin, whose  *)
(* completion is asked for at its end.                                     *)
(***************************************************************************)
Begins(time, requests) ==
  \E sender \in Senders, tx \in Ch!Transmissions :
    /\ Ch!BeginTransmission(sender, tx, time)
    /\ \E n \in DOMAIN requests :
         requests[n] = Request(time + tx.duration, "TxComplete", sender)

KeepsQuiet(time) == now' = time /\ UNCHANGED channelVars

Timely(time, requests) ==
  \A n \in DOMAIN requests :
    /\ ContractKept => time <= requests[n].time
    /\ Registered(requests[n])

Turn(time, queue) ==
  \E requests \in Seq(RequestSet) :
    /\ Timely(time, requests)
    /\ Schedule(queue, requests)
    /\ Begins(time, requests) \/ KeepsQuiet(time)

(* What a turn leaves of the interferers and the counters.                 *)
Observed ==
  /\ heard' \in Seq(Seq(ChannelEvent))
  /\ Len(heard') = Len(heard)
  /\ metrics' \in Counters

(* A request for a time that is not in the past is one that schedule takes. *)
LEMMA RequestFits ==
  ASSUME NEW time \in Nat, NEW later \in Nat, time <= later,
         NEW kind \in {"Wake", "TxComplete", "InterferencePoll"},
         NEW who \in Senders \cup 1..MaxInterferers,
         Registered(Request(later, kind, who))
  PROVE  /\ <<Request(later, kind, who)>> \in Seq(RequestSet)
         /\ Timely(time, <<Request(later, kind, who)>>)
BY DEF Request, RequestSet, Timely

(* A caller may name any time, under the contract none in the past.        *)
LEMMA TimesAreAhead ==
  ASSUME NEW time \in Nat, NEW later \in Times(time)
  PROVE  later \in Nat /\ (ContractKept => time <= later)
BY SchedulerAssumption DEF Times, ContractKept

(* What is answered becomes at most one request, at such a time.           *)
LEMMA AnswerRequests ==
  ASSUME NEW time \in Nat, NEW answer \in Answers(time),
         NEW kind \in {"Wake", "InterferencePoll"},
         NEW who \in Senders \cup 1..MaxInterferers
  PROVE  /\ Requests(answer, kind, who) \in Seq(RequestSet)
         /\ ContractKept => \A n \in DOMAIN Requests(answer, kind, who) :
                              time <= Requests(answer, kind, who)[n].time
<1>1. CASE answer = << >>
  <2>1. Requests(answer, kind, who) = << >>
    BY <1>1 DEF Requests
  <2> QED
    BY <2>1
<1>2. ASSUME NEW later \in Times(time), answer = <<later>>
      PROVE  /\ Requests(answer, kind, who) \in Seq(RequestSet)
             /\ ContractKept => \A n \in DOMAIN Requests(answer, kind, who) :
                                  time <= Requests(answer, kind, who)[n].time
  <2> DEFINE r == Request(later, kind, who)
  <2>1. Requests(answer, kind, who) = <<r>>
    BY <1>2 DEF Requests
  <2>2. later \in Nat /\ (ContractKept => time <= later)
    BY TimesAreAhead
  <2>3. r \in RequestSet /\ (ContractKept => time <= r.time)
    BY <2>2 DEF Request, RequestSet
  <2> QED
    BY <2>1, <2>3
<1> QED
  BY <1>1, <1>2 DEF Answers

(* For one that is registered, that is a request in time.                  *)
LEMMA AnswerFits ==
  ASSUME NEW time \in Nat, NEW answer \in Answers(time),
         NEW kind \in {"Wake", "InterferencePoll"},
         NEW who \in Senders \cup 1..MaxInterferers,
         \A later : Registered(Request(later, kind, who))
  PROVE  /\ Requests(answer, kind, who) \in Seq(RequestSet)
         /\ Timely(time, Requests(answer, kind, who))
<1>1. ASSUME NEW n \in DOMAIN Requests(answer, kind, who)
      PROVE  Requests(answer, kind, who)[n] = Request(answer[n], kind, who)
  BY DEF Requests
<1> QED
  BY <1>1, AnswerRequests DEF Timely, Registered

(* Both orders in which a completion joins what else is asked for.         *)
LEMMA JoinedRequestsFit ==
  ASSUME NEW time \in Nat, NEW r \in RequestSet, NEW requests \in Seq(RequestSet),
         Timely(time, <<r>>), Timely(time, requests)
  PROVE  /\ Append(requests, r) \in Seq(RequestSet)
         /\ Timely(time, Append(requests, r))
         /\ \E n \in DOMAIN Append(requests, r) : Append(requests, r)[n] = r
         /\ <<r>> \o requests \in Seq(RequestSet)
         /\ Timely(time, <<r>> \o requests)
         /\ \E n \in DOMAIN (<<r>> \o requests) : (<<r>> \o requests)[n] = r
<1>1. /\ Append(requests, r) \in Seq(RequestSet)
      /\ Len(Append(requests, r)) = Len(requests) + 1
      /\ \A n \in 1..Len(requests) : Append(requests, r)[n] = requests[n]
      /\ Append(requests, r)[Len(requests) + 1] = r
      /\ DOMAIN Append(requests, r) = 1..(Len(requests) + 1)
  BY AppendProperties
<1>2. /\ <<r>> \o requests \in Seq(RequestSet)
      /\ DOMAIN (<<r>> \o requests) = 1..(Len(requests) + 1)
      /\ \A n \in 1..(Len(requests) + 1) :
           (<<r>> \o requests)[n] = IF n <= 1 THEN <<r>>[n] ELSE requests[n - 1]
  BY ConcatProperties
<1>3. (ContractKept => time <= r.time) /\ Registered(r)
  BY DEF Timely
<1>4. DOMAIN requests = 1..Len(requests) /\ Len(requests) \in Nat
  OBVIOUS
<1>5. \A n \in 1..(Len(requests) + 1) : n \in 1..Len(requests) \/ n = Len(requests) + 1
  BY <1>4
<1>6. \A n \in 1..(Len(requests) + 1) : n = 1 \/ n - 1 \in 1..Len(requests)
  BY <1>4
<1>7. \A n \in 1..(Len(requests) + 1) :
        (<<r>> \o requests)[n] = r \/ \E k \in DOMAIN requests :
                                        (<<r>> \o requests)[n] = requests[k]
  BY <1>2, <1>4, <1>6
<1>8. Timely(time, Append(requests, r))
  BY <1>1, <1>3, <1>4, <1>5 DEF Timely
<1>9. Timely(time, <<r>> \o requests)
  BY <1>2, <1>3, <1>7 DEF Timely
<1>10. Len(requests) + 1 \in 1..(Len(requests) + 1) /\ 1 \in 1..(Len(requests) + 1)
  BY <1>4
<1>11. (<<r>> \o requests)[1] = r
  BY <1>2, <1>10
<1> QED
  BY <1>1, <1>2, <1>8, <1>9, <1>10, <1>11

-----------------------------------------------------------------------------
(* Each interferer is told the news, and none is added or lost.            *)
LEMMA ObserveAllFacts ==
  ASSUME heard \in Seq(Seq(ChannelEvent)), NEW news \in Seq(ChannelEvent), ObserveAll(news)
  PROVE  heard' \in Seq(Seq(ChannelEvent)) /\ Len(heard') = Len(heard)
<1>1. Len(heard) \in Nat /\ DOMAIN heard = 1..Len(heard)
  OBVIOUS
<1>2. \A k \in 1..Len(heard) : heard[k] \o news \in Seq(ChannelEvent)
  BY <1>1
<1>3. heard' \in [1..Len(heard) -> Seq(ChannelEvent)]
  BY <1>1, <1>2, Zenon DEF ObserveAll
<1>4. heard' \in Seq(Seq(ChannelEvent))
  <2>1. \A S, n, f : n \in Nat /\ f \in [1..n -> S] => f \in Seq(S)
    OBVIOUS
  <2> QED
    BY <1>1, <1>3, <2>1, Zenon
<1>5. DOMAIN heard' = 1..Len(heard)
  BY <1>3
<1> QED
  BY <1>1, <1>4, <1>5, LenProperties

(* What is told of a frame that begins.                                    *)
LEMMA StartedFacts ==
  ASSUME NEW sender \in Senders, NEW tx \in Ch!Transmissions, NEW time \in Nat
  PROVE  <<Started(sender, tx.band, time)>> \in Seq(ChannelEvent)
<1>1. Started(sender, tx.band, time) \in
        [kind : {"started"}, sender : Senders, band : Bands, time : Nat]
  BY DEF Started, Ch!Transmissions
<1>2. Started(sender, tx.band, time) \in ChannelEvent
  BY <1>1, Zenon DEF ChannelEvent
<1>3. \A event \in ChannelEvent : <<event>> \in Seq(ChannelEvent)
  OBVIOUS
<1> QED
  BY <1>2, <1>3, Zenon

(* Each counter that a frame of a node moves stays a number.               *)
LEMMA RecordingKeepsType ==
  ASSUME NEW m \in Counters, NEW id \in NodeIds
  PROVE  RecordTx(m, id) \in Counters /\ RecordRx(m, id) \in Counters
<1>1. /\ m.tx \in [NodeIds -> Nat] /\ m.rx \in [NodeIds -> Nat]
      /\ m.collisions \in Nat /\ m.captures \in Nat /\ m.airtime \in Nat
  BY DEF Counters
<1>2. /\ [m.tx EXCEPT ![id] = @ + 1] \in [NodeIds -> Nat]
      /\ [m.rx EXCEPT ![id] = @ + 1] \in [NodeIds -> Nat]
  BY <1>1
<1>3. RecordTx(m, id) \in Counters
  BY <1>2 DEF Counters, RecordTx
<1>4. RecordRx(m, id) \in Counters
  BY <1>2 DEF Counters, RecordRx
<1> QED
  BY <1>3, <1>4

(* So do those that a verdict moves.                                       *)
LEMMA CollisionKeepsType ==
  ASSUME NEW m \in Counters
  PROVE  RecordCollision(m) \in Counters /\ RecordCapture(m) \in Counters
<1>1. m.collisions + 1 \in Nat /\ m.captures + 1 \in Nat
  BY DEF Counters
<1>2. RecordCollision(m) \in Counters
  BY <1>1 DEF Counters, RecordCollision
<1>3. RecordCapture(m) \in Counters
  BY <1>1 DEF Counters, RecordCapture
<1> QED
  BY <1>2, <1>3

(* So does the airtime, which interferers move as well.                    *)
LEMMA AirtimeKeepsType ==
  ASSUME NEW m \in Counters, NEW duration \in Nat
  PROVE  RecordAirtime(m, duration) \in Counters
<1>1. m.airtime + duration \in Nat
  BY DEF Counters
<1> QED
  BY <1>1 DEF Counters, RecordAirtime

(* What the scheduler may hand to the channel ends at a time.              *)
LEMMA TransmissionEnds ==
  ASSUME NEW tx \in Ch!Transmissions, NEW time \in Nat
  PROVE  tx.duration \in Nat /\ time + tx.duration \in Nat /\ time <= time + tx.duration
<1>1. tx.duration \in Nat
  BY SchedulerAssumption DEF Ch!Transmissions
<1> QED
  BY <1>1

(* handle_poll_transmit is a turn, whether the node has a frame or not.    *)
LEMMA NodeTurn ==
  ASSUME TypeOK, NEW time \in Nat, NEW i \in DOMAIN nodes, NEW queue,
         NEW wake \in Seq(RequestSet), Timely(time, wake), NEW m \in Counters,
         HandlePollTransmit(i, time, queue, wake, m)
  PROVE  Turn(time, queue) /\ Observed
<1>1. nodes[i] \in NodeIds /\ nodes[i] \in Senders
  BY DEF TypeOK, Senders
<1>2. heard \in Seq(Seq(ChannelEvent))
  BY DEF TypeOK
<1>3. CASE NodeStaysSilent(time, queue, wake, m)
  BY <1>2, <1>3 DEF NodeStaysSilent, Turn, KeepsQuiet, Observed
<1>4. CASE NodeTransmits(i, time, queue, wake, m)
  <2> DEFINE completion(tx) == Request(time + tx.duration, "TxComplete", nodes[i])
  <2>1. PICK tx \in Ch!Transmissions :
          /\ Ch!BeginTransmission(nodes[i], tx, time)
          /\ ObserveAll(<<Started(nodes[i], tx.band, time)>>)
          /\ metrics' = RecordAirtime(RecordTx(m, nodes[i]), tx.duration)
          /\ Schedule(queue, Append(wake, completion(tx)))
    BY <1>4 DEF NodeTransmits
  <2>2. tx.duration \in Nat /\ time + tx.duration \in Nat /\ time <= time + tx.duration
    BY TransmissionEnds
  <2>3. completion(tx) \in RequestSet /\ Timely(time, <<completion(tx)>>)
    <3>1. Registered(completion(tx))
      BY DEF Registered, Request
    <3> QED
      BY <1>1, <2>2, <3>1, RequestFits DEF Request, RequestSet
  <2>4. /\ Append(wake, completion(tx)) \in Seq(RequestSet)
        /\ Timely(time, Append(wake, completion(tx)))
        /\ \E n \in DOMAIN Append(wake, completion(tx)) :
             Append(wake, completion(tx))[n] = completion(tx)
    BY <2>3, JoinedRequestsFit
  <2>5. Turn(time, queue)
    BY <1>1, <2>1, <2>4 DEF Turn, Begins
  <2>6. <<Started(nodes[i], tx.band, time)>> \in Seq(ChannelEvent)
    BY <1>1, StartedFacts
  <2>7. metrics' \in Counters
    BY <1>1, <2>1, <2>2, RecordingKeepsType, AirtimeKeepsType
  <2> QED
    BY <1>2, <2>1, <2>5, <2>6, <2>7, ObserveAllFacts DEF Observed
<1> QED
  BY <1>3, <1>4 DEF HandlePollTransmit

(* The poll of an interferer is a turn, whether it injects or not.         *)
LEMMA InterfererTurn ==
  ASSUME TypeOK, Len(heard) <= MaxInterferers, NEW time \in Nat,
         NEW k \in DOMAIN heard, NEW queue,
         NEW poll \in Seq(RequestSet), Timely(time, poll),
         InterfererStaysSilent(time, queue, poll) \/ InterfererInjects(k, time, queue, poll)
  PROVE  Turn(time, queue) /\ Observed
<1>1. SyntheticId(k) \in Senders
  <2>1. k \in 1..MaxInterferers
    BY SchedulerAssumption DEF TypeOK
  <2> QED
    BY <2>1 DEF Senders
<1>2. heard \in Seq(Seq(ChannelEvent)) /\ metrics \in Counters
  BY DEF TypeOK
<1>3. CASE InterfererStaysSilent(time, queue, poll)
  BY <1>2, <1>3 DEF InterfererStaysSilent, Turn, KeepsQuiet, Observed
<1>4. CASE InterfererInjects(k, time, queue, poll)
  <2> DEFINE completion(tx) == Request(time + tx.duration, "TxComplete", SyntheticId(k))
  <2>1. PICK tx \in Ch!Transmissions :
          /\ Ch!BeginTransmission(SyntheticId(k), tx, time)
          /\ ObserveAll(<<Started(SyntheticId(k), tx.band, time)>>)
          /\ metrics' = RecordAirtime(metrics, tx.duration)
          /\ Schedule(queue, <<completion(tx)>> \o poll)
    BY <1>4 DEF InterfererInjects
  <2>2. tx.duration \in Nat /\ time + tx.duration \in Nat /\ time <= time + tx.duration
    BY TransmissionEnds
  <2>3. completion(tx) \in RequestSet /\ Timely(time, <<completion(tx)>>)
    <3>1. Registered(completion(tx))
      BY DEF Registered, Request
    <3> QED
      BY <1>1, <2>2, <3>1, RequestFits DEF Request, RequestSet
  <2>4. /\ <<completion(tx)>> \o poll \in Seq(RequestSet)
        /\ Timely(time, <<completion(tx)>> \o poll)
        /\ \E n \in DOMAIN (<<completion(tx)>> \o poll) :
             (<<completion(tx)>> \o poll)[n] = completion(tx)
    BY <2>3, JoinedRequestsFit
  <2>5. Turn(time, queue)
    BY <1>1, <2>1, <2>4 DEF Turn, Begins
  <2>6. <<Started(SyntheticId(k), tx.band, time)>> \in Seq(ChannelEvent)
    BY <1>1, StartedFacts
  <2>7. metrics' \in Counters
    BY <1>2, <2>1, <2>2, AirtimeKeepsType
  <2> QED
    BY <1>2, <2>1, <2>5, <2>6, <2>7, ObserveAllFacts DEF Observed
<1> QED
  BY <1>3, <1>4

-----------------------------------------------------------------------------
(***************************************************************************)
(* The channel.  P speaks of the same channel as Ch, by other names.       *)
(***************************************************************************)
LEMMA SameMeet ==
  /\ \A f, g : P!Meet(f, g) <=> Ch!Meet(f, g)
  /\ \A sender, tx, time : P!FrameOf(sender, tx, time) = Ch!FrameOf(sender, tx, time)
  /\ P!Transmissions = Ch!Transmissions
BY DEF P!Meet, Ch!Meet, P!Overlaps, Ch!Overlaps, P!FrameOf, Ch!FrameOf,
       P!Transmissions, Ch!Transmissions

(* A frame begins alike by either name.                                    *)
LEMMA SameBegin ==
  ASSUME NEW sender, NEW tx, NEW time
  PROVE  P!BeginTransmission(sender, tx, time) <=> Ch!BeginTransmission(sender, tx, time)
<1>1. \A new : P!Hit(new) = Ch!Hit(new)
  BY SameMeet DEF P!Hit, Ch!Hit
<1>2. \A new : P!Beaten(new) = Ch!Beaten(new)
  BY <1>1 DEF P!Beaten, Ch!Beaten
<1>3. \A new : P!Stronger(new) = Ch!Stronger(new)
  BY <1>1, <1>2 DEF P!Stronger, Ch!Stronger
<1>4. \A new : P!Level(new) = Ch!Level(new)
  BY <1>1, <1>2, <1>3 DEF P!Level, Ch!Level
<1>5. \A new : P!NewCollides(new) <=> Ch!NewCollides(new)
  BY <1>3, <1>4 DEF P!NewCollides, Ch!NewCollides
<1>6. \A new : P!NewCaptures(new) <=> Ch!NewCaptures(new)
  BY <1>2, <1>5 DEF P!NewCaptures, Ch!NewCaptures
<1> QED
  BY <1>2, <1>3, <1>4, <1>5, <1>6, SameMeet
     DEF P!BeginTransmission, Ch!BeginTransmission

(* So is every other call, and the steps of the channel are the same.      *)
LEMMA SameStep == [P!Next]_(P!vars) <=> [Ch!Next]_(Ch!vars)
<1>1. \A time : /\ P!ResolveAt(time) <=> Ch!ResolveAt(time)
                /\ P!TimePasses(time) <=> Ch!TimePasses(time)
  BY DEF P!ResolveAt, Ch!ResolveAt, P!Over, Ch!Over, P!TimePasses, Ch!TimePasses
<1>2. P!DrainCompleted <=> Ch!DrainCompleted
  BY DEF P!DrainCompleted, Ch!DrainCompleted
<1>3. P!vars = Ch!vars /\ P!vars' = Ch!vars'
  BY DEF P!vars, Ch!vars
<1>4. P!Next <=> Ch!Next
  BY <1>1, <1>2, SameBegin, SameMeet DEF P!Next, Ch!Next
<1> QED
  BY <1>3, <1>4

(* And the types of the channel's state are the same.                      *)
LEMMA SameType == (P!TypeOK <=> Ch!TypeOK) /\ (P!TypeOK' <=> Ch!TypeOK')
BY DEF P!TypeOK, Ch!TypeOK, P!FrameIds, Ch!FrameIds, P!Frame, Ch!Frame

(* A call of the channel that names a time.                                *)
CallsChannel(time) ==
  \/ \E sender \in Senders, tx \in Ch!Transmissions :
       Ch!BeginTransmission(sender, tx, time)
  \/ Ch!ResolveAt(time)
  \/ Ch!TimePasses(time)

(* What the channel proves of itself: its own calls keep its types.        *)
LEMMA ChannelKeepsType ==
  ASSUME Ch!TypeOK, NEW time \in 0..EndTime, CallsChannel(time)
  PROVE  Ch!TypeOK'
<1>1. P!CallAt(time)
  BY SameBegin, SameMeet
     DEF CallsChannel, P!CallAt, P!ResolveAt, Ch!ResolveAt, P!Over, Ch!Over,
         P!TimePasses, Ch!TimePasses
<1> QED
  BY <1>1, SameType, P!CallKeepsType, SchedulerAssumption

(* What a call of begin_transmission does, apart from the flags.           *)
LEMMA BeginFacts ==
  ASSUME TypeOK, NEW sender \in Senders, NEW tx \in Ch!Transmissions,
         NEW time \in Nat, Ch!BeginTransmission(sender, tx, time)
  PROVE  /\ now' = time /\ completed' = completed
         /\ active' = active \cup {Len(frames) + 1}
         /\ Ch!FrameIds' = Ch!FrameIds \cup {Len(frames) + 1}
         /\ \A id \in Ch!FrameIds : frames'[id] = frames[id] /\ id # Len(frames) + 1
         /\ frames'[Len(frames) + 1].start = time
         /\ frames'[Len(frames) + 1].end = time + tx.duration
         /\ frames'[Len(frames) + 1].sender = sender
<1> DEFINE new == Ch!FrameOf(sender, tx, time)
<1>1. frames \in Seq(Ch!Frame) /\ frames' = Append(frames, new)
  BY DEF TypeOK, Ch!TypeOK, Ch!BeginTransmission
<1>2. /\ Len(frames) \in Nat /\ DOMAIN frames = 1..Len(frames)
      /\ DOMAIN frames' = 1..(Len(frames) + 1)
      /\ \A id \in 1..Len(frames) : frames'[id] = frames[id]
      /\ frames'[Len(frames) + 1] = new
  BY <1>1
<1>3. 1..(Len(frames) + 1) = 1..Len(frames) \cup {Len(frames) + 1}
  BY <1>2
<1>4. \A id \in 1..Len(frames) : id # Len(frames) + 1
  BY <1>2
<1>5. new.start = time /\ new.end = time + tx.duration /\ new.sender = sender
  BY DEF Ch!FrameOf
<1> QED
  BY <1>2, <1>3, <1>4, <1>5 DEF Ch!BeginTransmission, Ch!FrameIds

(* A turn is a call of the channel.                                        *)
LEMMA TurnUsesChannel ==
  ASSUME NEW time, NEW queue, Turn(time, queue)
  PROVE  CallsChannel(time)
<1>1. CASE KeepsQuiet(time)
  BY <1>1 DEF KeepsQuiet, channelVars, CallsChannel, Ch!TimePasses
<1>2. CASE \E requests \in Seq(RequestSet) : Begins(time, requests)
  BY <1>2 DEF Begins, CallsChannel
<1> QED
  BY <1>1, <1>2 DEF Turn

-----------------------------------------------------------------------------
(***************************************************************************)
(* What a turn keeps.  It is taken by a handler that has removed its event *)
(* from the queue, or during a delivery, with the queue as it is.          *)
(***************************************************************************)
Completes(e, id) ==
  e.kind = "TxComplete" /\ e.time = frames[id].end /\ e.who = frames[id].sender

IsDue(id) == frames[id].end <= EndTime

(* A frame ends at a time.                                                 *)
LEMMA FrameEnds ==
  ASSUME TypeOK, NEW id \in active
  PROVE  frames[id].end \in Nat /\ EndTime \in Nat
<1>1. frames \in Seq(Ch!Frame) /\ id \in DOMAIN frames
  BY DEF TypeOK, Ch!TypeOK, Ch!FrameIds
<1>2. frames[id] \in Ch!Frame
  BY <1>1
<1> QED
  BY <1>2, SchedulerAssumption DEF Ch!Frame

(* The types, when the handler left what it does not own alone.            *)
LEMMA TurnKeepsType ==
  ASSUME TypeOK, NEW time \in 0..EndTime, NEW queue \in SUBSET events,
         Turn(time, queue), Observed, UNCHANGED <<nodes, joined, tuned, pc, batch, delivering>>,
         cursor' \in 0..(Len(nodes) + 1),
         handled' \in [time : 0..EndTime, seq : Nat \cup {-1}]
  PROVE  TypeOK'
<1>1. time \in Nat
  BY SchedulerAssumption DEF TypeOK, Ch!TypeOK
<1>2. Ch!TypeOK'
  <2>1. CallsChannel(time)
    BY TurnUsesChannel
  <2> QED
    BY <2>1, ChannelKeepsType DEF TypeOK
<1>3. Ch!FrameIds \subseteq Ch!FrameIds'
  <2>1. CASE KeepsQuiet(time)
    BY <2>1 DEF KeepsQuiet, channelVars, Ch!FrameIds
  <2>2. CASE \E requests \in Seq(RequestSet) : Begins(time, requests)
    BY <1>1, <2>2, BeginFacts DEF Begins
  <2> QED
    BY <2>1, <2>2 DEF Turn
<1>4. events' \in SUBSET EventSet /\ seq' \in Nat
  BY ScheduleFacts DEF Turn, TypeOK
<1>5. heard' \in Seq(Seq(ChannelEvent)) /\ metrics' \in Counters
  BY DEF Observed
<1> QED
  BY <1>2, <1>3, <1>4, <1>5 DEF TypeOK, Observed

(* The queue: its order, its registered names and the completions in it.   *)
LEMMA TurnKeepsAgenda ==
  ASSUME IInv, NEW time \in Nat, NEW queue \in SUBSET events,
         Turn(time, queue), Observed, UNCHANGED <<nodes, joined, tuned, pc>>, pc # "stopped",
         handled'.time = time, handled'.seq \in Int, handled'.seq < seq,
         ContractKept =>
           \A e \in queue : e.time > time \/ (e.time = time /\ e.seq > handled'.seq),
         \A id \in active : IsDue(id) => \E e \in queue : Completes(e, id)
  PROVE  /\ RegistrationFits' /\ ClockAndNumbers' /\ AheadByContract'
         /\ CompletionIsQueued' /\ NothingLeftBehind'
<1>1. PICK requests \in Seq(RequestSet) :
        /\ Timely(time, requests)
        /\ Schedule(queue, requests)
        /\ Begins(time, requests) \/ KeepsQuiet(time)
  BY DEF Turn
<1>2. TypeOK /\ RegistrationFits /\ ClockAndNumbers
  BY DEF IInv
<1>3. now' = time
  <2>1. CASE KeepsQuiet(time)
    BY <2>1 DEF KeepsQuiet
  <2>2. CASE Begins(time, requests)
    BY <2>2, <1>2, BeginFacts DEF Begins
  <2> QED
    BY <1>1, <2>1, <2>2
<1>4. ClockAndNumbers' /\ AheadByContract'
  <2>1. ContractKept => \A n \in DOMAIN requests : time <= requests[n].time
    BY <1>1 DEF Timely
  <2> QED
    BY <1>1, <1>2, <1>3, <2>1, ScheduleKeepsQueue
<1>5. /\ queue \subseteq events'
      /\ \A e \in events' \ queue : \E n \in DOMAIN requests : Grants(e, requests[n])
      /\ \A n \in DOMAIN requests : \E e \in events' : Grants(e, requests[n])
  <2>1. seq \in Nat /\ queue \in SUBSET EventSet
    BY <1>2 DEF TypeOK
  <2>2. Schedule(queue, requests)
    BY <1>1
  <2>3. queue \subseteq events'
    BY <2>1, <2>2, ScheduleFacts
  <2>4. ASSUME NEW e \in events' \ queue
        PROVE  \E n \in DOMAIN requests : Grants(e, requests[n])
    BY <2>1, <2>2, ScheduleFacts
  <2>5. \A n \in DOMAIN requests : \E e \in events' : Grants(e, requests[n])
    BY <2>1, <2>2, ScheduleFacts
  <2> QED
    BY <2>3, <2>4, <2>5
<1>6. RegistrationFits'
  <2>1. DOMAIN heard' = DOMAIN heard /\ Len(heard') = Len(heard)
    BY <1>2 DEF Observed, TypeOK
  <2>2. \A r : Registered(r) => Registered(r)'
    BY <2>1 DEF Registered
  <2>3. \A e \in queue : Registered(e)
    BY <1>2 DEF RegistrationFits
  <2>4. \A e \in events' \ queue : Registered(e)
    BY <1>1, <1>5 DEF Timely, Registered, Grants
  <2>5. \A e \in events' : Registered(e)'
    BY <2>2, <2>3, <2>4
  <2> QED
    BY <1>2, <2>1, <2>5 DEF RegistrationFits
<1>7. CompletionIsQueued'
  <2>1. ASSUME NEW id \in active', id \in active, frames'[id] = frames[id], IsDue(id)'
        PROVE  \E e \in events' : Completes(e, id)'
    BY <1>5, <2>1 DEF Completes, IsDue
  <2>2. CASE KeepsQuiet(time)
    BY <2>1, <2>2 DEF KeepsQuiet, channelVars, Completes, IsDue, CompletionIsQueued
  <2>3. CASE Begins(time, requests)
    <3>1. PICK sender \in Senders, tx \in Ch!Transmissions :
            /\ Ch!BeginTransmission(sender, tx, time)
            /\ \E n \in DOMAIN requests :
                 requests[n] = Request(time + tx.duration, "TxComplete", sender)
      BY <2>3 DEF Begins
    <3>2. /\ active' = active \cup {Len(frames) + 1}
          /\ \A id \in Ch!FrameIds : frames'[id] = frames[id]
          /\ frames'[Len(frames) + 1].end = time + tx.duration
          /\ frames'[Len(frames) + 1].sender = sender
      BY <1>2, <3>1, BeginFacts
    <3>3. active \subseteq Ch!FrameIds
      BY <1>2 DEF TypeOK, Ch!TypeOK
    <3>4. \E e \in events' : /\ e.kind = "TxComplete" /\ e.time = time + tx.duration
                             /\ e.who = sender
      BY <1>5, <3>1 DEF Request, Grants
    <3>5. \A id \in active : IsDue(id)' => \E e \in events' : Completes(e, id)'
      BY <2>1, <3>2, <3>3
    <3>6. \A id \in {Len(frames) + 1} : \E e \in events' : Completes(e, id)'
      BY <3>2, <3>4 DEF Completes
    <3> QED
      BY <3>2, <3>5, <3>6 DEF Completes, IsDue, CompletionIsQueued
  <2> QED
    BY <1>1, <2>2, <2>3
<1>8. NothingLeftBehind'
  BY DEF NothingLeftBehind
<1> QED
  BY <1>4, <1>6, <1>7, <1>8

(* The frames being delivered, which a new frame leaves as they are.       *)
LEMMA TurnKeepsDelivery ==
  ASSUME TypeOK, DeliveredAtItsEnd, NEW time \in Nat, NEW queue, Turn(time, queue),
         UNCHANGED <<batch, delivering>>,
         \/ time = now
         \/ completed = {} /\ batch = {} /\ delivering = NoFrame
  PROVE  DeliveredAtItsEnd' /\ completed' = completed
<1>1. CASE KeepsQuiet(time)
  BY <1>1 DEF KeepsQuiet, channelVars, DeliveredAtItsEnd
<1>2. CASE \E requests \in Seq(RequestSet) : Begins(time, requests)
  <2>1. /\ now' = time /\ completed' = completed
        /\ \A id \in Ch!FrameIds : frames'[id] = frames[id]
    BY <1>2, BeginFacts DEF Begins
  <2>2. completed \cup batch \cup ({delivering} \ {NoFrame}) \subseteq Ch!FrameIds
    BY DEF TypeOK, Ch!TypeOK
  <2> QED
    BY <2>1, <2>2 DEF DeliveredAtItsEnd
<1> QED
  BY <1>1, <1>2 DEF Turn

-----------------------------------------------------------------------------
(* No frame on the air ends before the event popped next, every other      *)
(* event is still ahead, and under the contract it is not in the past.     *)
LEMMA PoppedEvent ==
  ASSUME IInv, NEW e \in events, NEW kind, Pops(e, kind)
  PROVE  /\ e.time \in 0..EndTime /\ e.time \in Nat /\ e.kind = kind
         /\ ContractKept => e.time \in now..EndTime
         /\ handled' \in [time : 0..EndTime, seq : Nat \cup {-1}]
         /\ handled'.time = e.time /\ handled'.seq \in Int /\ handled'.seq < seq
         /\ \A f \in events \ {e} :
              f.time > e.time \/ (f.time = e.time /\ f.seq > handled'.seq)
         /\ \A id \in active : frames[id].end \in Nat /\ e.time <= frames[id].end
         /\ pc = "loop" /\ completed = {} /\ batch = {} /\ delivering = NoFrame
         /\ Registered(e)
<1>1. /\ pc = "loop" /\ IsNext(e) /\ e.time <= EndTime /\ e.kind = kind
      /\ handled' = [time |-> e.time, seq |-> e.seq]
  BY DEF Pops, Due
<1>2. /\ events \in SUBSET EventSet /\ seq \in Nat /\ now \in 0..EndTime
      /\ handled \in [time : 0..EndTime, seq : Nat \cup {-1}]
      /\ handled.time = now /\ e.seq < seq
  BY DEF IInv, TypeOK, Ch!TypeOK, ClockAndNumbers
<1>3. EndTime \in Nat
  BY SchedulerAssumption
<1>4. \A f \in events : f.time \in Nat /\ f.seq \in Nat
  BY <1>2 DEF EventSet
<1>5. e.time \in 0..EndTime
  BY <1>1, <1>3, <1>4
<1>6. ASSUME ContractKept
      PROVE  e.time \in now..EndTime
  <2>1. e.time > handled.time \/ e.time = handled.time
    BY <1>6 DEF IInv, AheadByContract, AgendaIsAhead
  <2> QED
    BY <1>1, <1>2, <1>3, <1>4, <2>1
<1>7. \A f \in events \ {e} :
        f.time > e.time \/ (f.time = e.time /\ f.seq > handled'.seq)
  BY <1>1, <1>4 DEF IsNext, Before
<1>8. ASSUME NEW id \in active
      PROVE  frames[id].end \in Nat /\ e.time <= frames[id].end
  <2>1. frames[id].end \in Nat
    BY <1>8, FrameEnds DEF IInv
  <2>2. CASE IsDue(id)
    <3>1. PICK f \in events : Completes(f, id)
      BY <1>8, <2>2 DEF IInv, CompletionIsQueued, Completes, IsDue
    <3>2. e.time <= f.time
      BY <1>1, <1>4, <1>7
    <3> QED
      BY <2>1, <3>1, <3>2 DEF Completes
  <2>3. CASE ~ IsDue(id)
    BY <1>1, <1>3, <1>4, <2>1, <2>3 DEF IsDue
  <2> QED
    BY <2>2, <2>3
<1>9. completed = {} /\ batch = {} /\ delivering = NoFrame
  BY <1>1 DEF IInv, Phases
<1>10. Registered(e)
  BY DEF IInv, RegistrationFits
<1>11. handled' \in [time : 0..EndTime, seq : Nat \cup {-1}]
  BY <1>1, <1>2, <1>3, <1>4, <1>5
<1> QED
  BY <1>1, <1>2, <1>4, <1>5, <1>6, <1>7, <1>8, <1>9, <1>10, <1>11

(* A handler that takes a turn with its event removed keeps the invariant. *)
LEMMA PopTurnKeepsIInv ==
  ASSUME IInv, NEW e \in events, NEW kind, Pops(e, kind), kind # "TxComplete",
         Turn(e.time, events \ {e}), Observed,
         UNCHANGED <<nodes, joined, tuned, pc, batch, delivering, cursor>>
  PROVE  IInv'
<1>1. /\ e.time \in 0..EndTime /\ e.time \in Nat /\ e.kind # "TxComplete"
      /\ handled' \in [time : 0..EndTime, seq : Nat \cup {-1}]
      /\ handled'.time = e.time /\ handled'.seq \in Int /\ handled'.seq < seq
      /\ \A f \in events \ {e} :
           f.time > e.time \/ (f.time = e.time /\ f.seq > handled'.seq)
      /\ pc = "loop" /\ completed = {} /\ batch = {} /\ delivering = NoFrame
  BY PoppedEvent
<1>2. TypeOK'
  BY <1>1, TurnKeepsType DEF IInv, TypeOK
<1>3. \A id \in active : IsDue(id) => \E f \in events \ {e} : Completes(f, id)
  BY <1>1 DEF IInv, CompletionIsQueued, Completes, IsDue
<1>4. /\ RegistrationFits' /\ ClockAndNumbers' /\ AheadByContract'
      /\ CompletionIsQueued' /\ NothingLeftBehind'
  BY <1>1, <1>3, TurnKeepsAgenda
<1>5. DeliveredAtItsEnd' /\ completed' = completed
  BY <1>1, TurnKeepsDelivery DEF IInv
<1>6. Phases'
  BY <1>1, <1>5 DEF Phases
<1> QED
  BY <1>2, <1>4, <1>5, <1>6 DEF IInv

(* A wake is a turn of the node that find_node_idx finds.                  *)
LEMMA WakeIsTurn ==
  ASSUME IInv, NEW e \in events, PopWake(e)
  PROVE  Turn(e.time, events \ {e}) /\ Observed
<1>1. Pops(e, "Wake")
  BY DEF PopWake
<1>2. TypeOK /\ nodes \in Seq(NodeIds) /\ metrics \in Counters
  BY DEF IInv, TypeOK
<1>3. e.time \in Nat /\ Registered(e) /\ e.kind = "Wake"
  BY <1>1, PoppedEvent
<1>4. FindNode(e.who) \in DOMAIN nodes
  BY <1>2, <1>3, FindNodeFinds DEF Registered
<1>5. e.who \in Senders
  BY <1>2, <1>3 DEF Registered, Senders
<1>6. PICK answer \in Answers(e.time) :
        HandlePollTransmit(FindNode(e.who), e.time, events \ {e},
                           Requests(answer, "Wake", e.who), metrics)
  BY DEF PopWake
<1>7. \A later : Registered(Request(later, "Wake", e.who))
  BY <1>3 DEF Registered, Request
<1>8. /\ Requests(answer, "Wake", e.who) \in Seq(RequestSet)
      /\ Timely(e.time, Requests(answer, "Wake", e.who))
  BY <1>3, <1>5, <1>7, AnswerFits
<1> QED
  BY <1>2, <1>3, <1>4, <1>6, <1>8, NodeTurn

(* A wake.                                                                 *)
LEMMA PopWakeKeepsIInv ==
  ASSUME IInv, NEW e \in events, PopWake(e)
  PROVE  IInv'
<1>1. Pops(e, "Wake") /\ UNCHANGED <<nodes, joined, tuned, pc, batch, delivering, cursor>>
  BY DEF PopWake, deliveryVars, registry
<1> QED
  BY <1>1, WakeIsTurn, PopTurnKeepsIInv

(* So is the poll of an interferer.                                        *)
LEMMA PollIsTurn ==
  ASSUME IInv, NEW e \in events, PopInterferencePoll(e)
  PROVE  Turn(e.time, events \ {e}) /\ Observed
<1>1. Pops(e, "InterferencePoll")
  BY DEF PopInterferencePoll
<1>2. TypeOK /\ Len(heard) <= MaxInterferers /\ heard \in Seq(Seq(ChannelEvent))
  BY DEF IInv, TypeOK, RegistrationFits
<1>3. e.time \in Nat /\ Registered(e) /\ e.kind = "InterferencePoll"
  BY <1>1, PoppedEvent
<1>4. e.who \in DOMAIN heard
  BY <1>3 DEF Registered
<1>5. e.who \in 1..MaxInterferers
  BY <1>2, <1>4, SchedulerAssumption
<1>6. PICK answer \in Answers(e.time) :
        \/ InterfererStaysSilent(e.time, events \ {e},
                                 Requests(answer, "InterferencePoll", e.who))
        \/ InterfererInjects(e.who, e.time, events \ {e},
                             Requests(answer, "InterferencePoll", e.who))
  BY DEF PopInterferencePoll
<1>7. \A later : Registered(Request(later, "InterferencePoll", e.who))
  BY <1>4 DEF Registered, Request
<1>8. /\ Requests(answer, "InterferencePoll", e.who) \in Seq(RequestSet)
      /\ Timely(e.time, Requests(answer, "InterferencePoll", e.who))
  BY <1>3, <1>5, <1>7, AnswerFits
<1> QED
  BY <1>2, <1>3, <1>4, <1>6, <1>8, InterfererTurn

(* The poll of an interferer.                                              *)
LEMMA PopInterferencePollKeepsIInv ==
  ASSUME IInv, NEW e \in events, PopInterferencePoll(e)
  PROVE  IInv'
<1>1. Pops(e, "InterferencePoll") /\ UNCHANGED <<nodes, joined, tuned, pc, batch, delivering, cursor>>
  BY DEF PopInterferencePoll, deliveryVars, registry
<1> QED
  BY <1>1, PollIsTurn, PopTurnKeepsIInv

(* What is told of frames that end.                                        *)
LEMMA OrderedCompletions ==
  ASSUME TypeOK, NEW over \in SUBSET active, NEW order \in InVectorOrder(over)
  PROVE  [n \in DOMAIN order |-> Completed(order[n])] \in Seq(ChannelEvent)
<1>1. over \subseteq Ch!FrameIds /\ frames \in Seq(Ch!Frame)
  BY DEF TypeOK, Ch!TypeOK
<1>2. ASSUME NEW id \in over
      PROVE  Completed(id) \in ChannelEvent
  <2>1. frames[id] \in Ch!Frame
    BY <1>1 DEF Ch!FrameIds
  <2>2. frames[id].sender \in Senders /\ frames[id].end \in Nat
    BY <2>1 DEF Ch!Frame
  <2>3. (id \in collided) \in BOOLEAN /\ "completed" \in {"completed"}
    OBVIOUS
  <2> QED
    BY <2>2, <2>3, Zenon DEF Completed, ChannelEvent
<1>3. Cardinality(over) \in Nat /\ order \in [1..Cardinality(over) -> over]
  <2>1. Ch!FrameIds = 1..Len(frames) /\ Len(frames) \in Int /\ 1 \in Int
    BY <1>1 DEF Ch!FrameIds
  <2>2. IsFiniteSet(over)
    BY <1>1, <2>1, FS_Interval, FS_Subset
  <2> QED
    BY <2>2, FS_CardinalityType DEF InVectorOrder
<1> QED
  BY <1>2, <1>3

LEMMA CompletionsAreEvents ==
  ASSUME TypeOK, NEW time, ObserveCompletions(Ch!Over(time))
  PROVE  heard' \in Seq(Seq(ChannelEvent)) /\ Len(heard') = Len(heard)
<1> PICK over \in SUBSET active : over = Ch!Over(time)
  BY DEF Ch!Over
<1>1. PICK order \in InVectorOrder(over) :
        ObserveAll([n \in DOMAIN order |-> Completed(order[n])])
  BY DEF ObserveCompletions
<1>2. heard \in Seq(Seq(ChannelEvent))
  BY DEF TypeOK
<1> QED
  BY <1>1, <1>2, OrderedCompletions, ObserveAllFacts

(* A completion: what leaves the air ends now, and the rest ends later, so *)
(* that the completions of the rest are other events.                      *)
LEMMA PopTxCompleteKeepsIInv ==
  ASSUME IInv, NEW e \in events, PopTxComplete(e)
  PROVE  IInv'
<1>1. /\ Pops(e, "TxComplete") /\ pc' = "drain"
      /\ events' = events \ {e}
      /\ Ch!ResolveAt(e.time)
      /\ ObserveCompletions(Ch!Over(e.time))
      /\ UNCHANGED <<seq, nodes, joined, tuned, metrics, batch, delivering, cursor>>
  BY DEF PopTxComplete, deliveryVars, registry
<1>2. /\ e.time \in 0..EndTime /\ e.time \in Nat
      /\ handled' \in [time : 0..EndTime, seq : Nat \cup {-1}]
      /\ handled'.time = e.time /\ handled'.seq < seq
      /\ \A f \in events \ {e} :
           f.time > e.time \/ (f.time = e.time /\ f.seq > handled'.seq)
      /\ \A id \in active : frames[id].end \in Nat /\ e.time <= frames[id].end
      /\ pc = "loop" /\ completed = {} /\ batch = {} /\ delivering = NoFrame
  BY <1>1, PoppedEvent
<1>3. /\ now' = e.time /\ frames' = frames /\ collided' = collided
      /\ active' = active \ Ch!Over(e.time) /\ completed' = Ch!Over(e.time)
  BY <1>1, <1>2 DEF Ch!ResolveAt
<1>4. TypeOK /\ heard \in Seq(Seq(ChannelEvent))
  BY DEF IInv, TypeOK
<1>5. heard' \in Seq(Seq(ChannelEvent)) /\ Len(heard') = Len(heard)
  BY <1>1, <1>4, CompletionsAreEvents
<1>6. TypeOK'
  <2>1. Ch!TypeOK'
    <3>1. CallsChannel(e.time)
      BY <1>1 DEF CallsChannel
    <3> QED
      BY <1>2, <1>4, <3>1, ChannelKeepsType DEF TypeOK
  <2> QED
    BY <1>1, <1>2, <1>3, <1>4, <1>5, <2>1 DEF TypeOK, Ch!FrameIds
<1>7. RegistrationFits'
  <2>1. DOMAIN heard' = DOMAIN heard
    BY <1>4, <1>5
  <2> QED
    BY <1>1, <1>5, <2>1 DEF IInv, RegistrationFits, Registered
<1>8. ClockAndNumbers' /\ AheadByContract'
  BY <1>1, <1>2, <1>3
     DEF IInv, ClockAndNumbers, AheadByContract, AgendaIsAhead, ContractKept
<1>9. Phases' /\ NothingLeftBehind'
  BY <1>1, <1>2 DEF Phases, NothingLeftBehind
<1>10. CompletionIsQueued'
  <2>1. ASSUME NEW id \in active', IsDue(id)
        PROVE  \E f \in events' : Completes(f, id)
    <3>1. id \in active /\ e.time # frames[id].end
      BY <1>2, <1>3, <2>1 DEF Ch!Over
    <3>2. PICK f \in events : Completes(f, id)
      BY <2>1, <3>1 DEF IInv, CompletionIsQueued, Completes, IsDue
    <3>3. f # e
      BY <3>1, <3>2 DEF Completes
    <3> QED
      BY <1>1, <3>2, <3>3
  <2> QED
    BY <1>3, <2>1 DEF CompletionIsQueued, Completes, IsDue
<1>11. DeliveredAtItsEnd'
  <2>1. \A id \in completed' : frames[id].end = e.time
    BY <1>2, <1>3 DEF Ch!Over
  <2> QED
    BY <1>1, <1>2, <1>3, <2>1 DEF DeliveredAtItsEnd
<1> QED
  BY <1>6, <1>7, <1>8, <1>9, <1>10, <1>11 DEF IInv

(* A delivery is a turn too, at the present instant.                       *)
LEMMA DeliveryIsTurn ==
  ASSUME IInv, NEW i \in DOMAIN nodes, Deliver(i)
  PROVE  Turn(now, events) /\ Observed
<1>1. PICK answer \in Answers(now) :
        HandlePollTransmit(i, now, events, Requests(answer, "Wake", nodes[i]),
                           RecordRx(metrics, nodes[i]))
  BY DEF Deliver
<1>2. /\ TypeOK /\ now \in Nat
      /\ nodes[i] \in NodeIds /\ nodes[i] \in Senders
  <2>1. TypeOK /\ now \in 0..EndTime /\ nodes \in Seq(NodeIds) /\ EndTime \in Nat
    BY SchedulerAssumption DEF IInv, TypeOK, Ch!TypeOK
  <2>2. nodes[i] \in NodeIds
    BY <2>1
  <2> QED
    BY <2>1, <2>2 DEF Senders
<1>3. RecordRx(metrics, nodes[i]) \in Counters
  BY <1>2, RecordingKeepsType DEF TypeOK
<1>4. \A later : Registered(Request(later, "Wake", nodes[i]))
  BY DEF Registered, Request
<1>5. /\ Requests(answer, "Wake", nodes[i]) \in Seq(RequestSet)
      /\ Timely(now, Requests(answer, "Wake", nodes[i]))
  BY <1>2, <1>4, AnswerFits
<1> QED
  BY <1>1, <1>2, <1>3, <1>5, NodeTurn

(* A delivery and the reply to it.                                         *)
LEMMA DeliverKeepsIInv ==
  ASSUME IInv, NEW i \in DOMAIN nodes, Deliver(i)
  PROVE  IInv'
<1>1. /\ pc = "deliver" /\ cursor' = i + 1
      /\ UNCHANGED <<nodes, joined, tuned, pc, batch, delivering, handled>>
  BY DEF Deliver, AtNode, registry
<1>2. /\ TypeOK /\ now \in Nat /\ now \in 0..EndTime
      /\ handled \in [time : 0..EndTime, seq : Nat \cup {-1}]
  <2>1. TypeOK /\ now \in 0..EndTime /\ EndTime \in Nat
    BY SchedulerAssumption DEF IInv, TypeOK, Ch!TypeOK
  <2> QED
    BY <2>1 DEF TypeOK
<1>3. Turn(now, events) /\ Observed
  BY DeliveryIsTurn
<1>4. TypeOK'
  <2>1. cursor' \in 0..(Len(nodes) + 1)
    BY <1>1, <1>2 DEF TypeOK
  <2> QED
    BY <1>1, <1>2, <1>3, <2>1, TurnKeepsType
<1>5. /\ RegistrationFits' /\ ClockAndNumbers' /\ AheadByContract'
      /\ CompletionIsQueued' /\ NothingLeftBehind'
  <2>1. /\ handled'.time = now /\ handled'.seq \in Int /\ handled'.seq < seq
        /\ ContractKept =>
             \A e \in events : e.time > now \/ (e.time = now /\ e.seq > handled'.seq)
    BY <1>1, <1>2 DEF IInv, ClockAndNumbers, AheadByContract, AgendaIsAhead
  <2>2. \A id \in active : IsDue(id) => \E e \in events : Completes(e, id)
    BY DEF IInv, CompletionIsQueued, Completes, IsDue
  <2> QED
    BY <1>1, <1>2, <1>3, <2>1, <2>2, TurnKeepsAgenda
<1>6. DeliveredAtItsEnd' /\ completed' = completed
  BY <1>1, <1>2, <1>3, TurnKeepsDelivery DEF IInv
<1>7. Phases'
  BY <1>1, <1>6 DEF IInv, Phases
<1> QED
  BY <1>4, <1>5, <1>6, <1>7 DEF IInv

(* A step of the loops that touches neither clock, air nor queue.          *)
LEMMA QuietStepKeeps ==
  ASSUME IInv, pc' # "stopped",
         UNCHANGED <<now, frames, active, events, seq, nodes, joined, tuned, heard, handled>>
  PROVE  /\ RegistrationFits' /\ ClockAndNumbers' /\ AheadByContract'
         /\ CompletionIsQueued' /\ NothingLeftBehind'
<1>1. RegistrationFits'
  BY DEF IInv, RegistrationFits, Registered
<1>2. ClockAndNumbers' /\ AheadByContract'
  BY DEF IInv, ClockAndNumbers, AheadByContract, AgendaIsAhead, ContractKept
<1>3. CompletionIsQueued'
  BY DEF IInv, CompletionIsQueued
<1>4. NothingLeftBehind'
  BY DEF NothingLeftBehind
<1> QED
  BY <1>1, <1>2, <1>3, <1>4

(* drain_completed hands the resolved frames over to the delivery loop.    *)
LEMMA DrainKeepsIInv ==
  ASSUME IInv, Drain
  PROVE  IInv'
<1>1. /\ pc = "drain" /\ pc' = "deliver" /\ batch' = completed /\ completed' = {}
      /\ UNCHANGED <<now, frames, active, collided, captured, events, seq, nodes, joined, tuned,
                     heard, metrics, delivering, cursor, handled>>
  BY DEF Drain, Ch!DrainCompleted, registry
<1>2. delivering = NoFrame
  BY <1>1 DEF IInv, Phases
<1>3. TypeOK'
  <2>1. Ch!TypeOK' /\ batch' \subseteq Ch!FrameIds
    BY <1>1 DEF IInv, TypeOK, Ch!TypeOK, Ch!FrameIds, Ch!Frame
  <2> QED
    BY <1>1, <2>1 DEF IInv, TypeOK, Ch!FrameIds
<1>4. DeliveredAtItsEnd' /\ Phases'
  BY <1>1, <1>2 DEF IInv, DeliveredAtItsEnd, Phases
<1> QED
  BY <1>1, <1>3, <1>4, QuietStepKeeps DEF IInv

(* The turns of the delivery loop from frame to frame and node to node.    *)
LEMMA LoopingKeepsIInv ==
  ASSUME IInv, pc = "deliver", pc' = "deliver",
         UNCHANGED <<now, channelVars, events, seq, nodes, joined, tuned, heard, handled>>,
         metrics' \in Counters, cursor' \in 0..(Len(nodes) + 1),
         batch' \subseteq batch, delivering' \in batch \cup {delivering, NoFrame}
  PROVE  IInv'
<1>1. TypeOK'
  <2>1. Ch!TypeOK'
    BY DEF channelVars, IInv, TypeOK, Ch!TypeOK, Ch!FrameIds, Ch!Frame
  <2> QED
    BY <2>1 DEF channelVars, IInv, TypeOK, Ch!FrameIds
<1>2. DeliveredAtItsEnd' /\ Phases'
  BY DEF channelVars, IInv, DeliveredAtItsEnd, Phases
<1>3. UNCHANGED <<now, frames, active, events, seq, nodes, joined, tuned, heard, handled>>
  BY DEF channelVars
<1> QED
  BY <1>1, <1>2, <1>3, QuietStepKeeps DEF IInv

(* The steps of the delivery loop that call no node.                       *)
LEMMA DeliverySkipsKeepIInv ==
  ASSUME IInv,
         \/ \E id \in batch : SkipCollided(id) \/ StartDelivery(id)
         \/ \E i \in DOMAIN nodes : SkipSender(i)
         \/ EndDelivery
  PROVE  IInv'
<1>1. /\ metrics \in Counters /\ cursor \in 0..(Len(nodes) + 1)
      /\ nodes \in Seq(NodeIds)
  BY DEF IInv, TypeOK
<1>2. ASSUME NEW id \in batch, SkipCollided(id)
      PROVE  IInv'
  <2>1. metrics' \in Counters
    <3>1. metrics' = RecordCollision(metrics)
      BY <1>2 DEF SkipCollided
    <3> QED
      BY <1>1, <3>1, CollisionKeepsType
  <2> QED
    BY <1>1, <1>2, <2>1, LoopingKeepsIInv DEF SkipCollided, TakesFrame, registry
<1>3. ASSUME NEW id \in batch, StartDelivery(id)
      PROVE  IInv'
  <2>1. metrics' \in Counters
    <3>1. metrics' = metrics \/ metrics' = RecordCapture(metrics)
      BY <1>3 DEF StartDelivery
    <3> QED
      BY <1>1, <3>1, CollisionKeepsType
  <2>2. 1 \in 0..(Len(nodes) + 1)
    BY <1>1
  <2> QED
    BY <1>3, <2>1, <2>2, LoopingKeepsIInv DEF StartDelivery, TakesFrame, registry
<1>4. ASSUME NEW i \in DOMAIN nodes, SkipSender(i)
      PROVE  IInv'
  <2>1. i + 1 \in 0..(Len(nodes) + 1)
    BY <1>1
  <2> QED
    BY <1>1, <1>4, <2>1, LoopingKeepsIInv DEF SkipSender, AtNode, registry
<1>5. CASE EndDelivery
  <2>1. 0 \in 0..(Len(nodes) + 1)
    BY <1>1
  <2> QED
    BY <1>1, <1>5, <2>1, LoopingKeepsIInv DEF EndDelivery, registry
<1> QED
  BY <1>2, <1>3, <1>4, <1>5

(* The end of a batch, back to the loop of run(), and the call of run().   *)
LEMMA BackToLoopKeepsIInv ==
  ASSUME IInv, Run \/ EndBatch
  PROVE  IInv'
<1>1. /\ pc \in {"setup", "stopped", "deliver"} /\ pc' = "loop"
      /\ batch = {} /\ delivering = NoFrame /\ completed = {}
      /\ UNCHANGED <<now, channelVars, events, seq, nodes, joined, tuned, heard, metrics,
                     deliveryVars, handled>>
  BY DEF Run, EndBatch, IInv, Phases, registry
<1>2. UNCHANGED <<now, frames, active, completed, events, seq, nodes, joined, tuned, heard,
                  batch, delivering, handled>>
  BY <1>1 DEF channelVars, deliveryVars
<1>3. TypeOK'
  <2>1. Ch!TypeOK'
    BY <1>1 DEF channelVars, IInv, TypeOK, Ch!TypeOK, Ch!FrameIds, Ch!Frame
  <2> QED
    BY <1>1, <2>1 DEF channelVars, deliveryVars, IInv, TypeOK, Ch!FrameIds
<1>4. DeliveredAtItsEnd' /\ Phases'
  BY <1>1, <1>2 DEF IInv, DeliveredAtItsEnd, Phases
<1> QED
  BY <1>1, <1>2, <1>3, <1>4, QuietStepKeeps DEF IInv

(* The end of run(): the event that is lost, and all others, are not due.  *)
LEMMA StopKeepsIInv ==
  ASSUME IInv, Stop
  PROVE  IInv'
<1>1. /\ pc = "loop" /\ pc' = "stopped"
      /\ \A e \in events : IsNext(e) => ~ (e.time <= EndTime)
      /\ events' \subseteq events
      /\ UNCHANGED <<now, frames, active, completed, collided, captured, seq, nodes, joined, tuned,
                     heard, metrics, batch, delivering, cursor, handled>>
  BY DEF Stop, Due, channelVars, deliveryVars, registry
<1>2. completed = {} /\ batch = {} /\ delivering = NoFrame
  BY <1>1 DEF IInv, Phases
<1>3. \A e \in events : e.time > EndTime
  <2>1. EndTime \in Nat /\ \A e \in events : e.time \in Nat
    BY SchedulerAssumption DEF IInv, TypeOK, EventSet
  <2>2. events # {} => \E e \in events : IsNext(e) /\ \A f \in events : e.time <= f.time
    BY SomeEventIsNext DEF IInv, TypeOK
  <2> QED
    BY <1>1, <2>1, <2>2
<1>4. TypeOK'
  <2>1. Ch!TypeOK'
    BY <1>1 DEF IInv, TypeOK, Ch!TypeOK, Ch!FrameIds, Ch!Frame
  <2> QED
    BY <1>1, <2>1 DEF IInv, TypeOK, Ch!FrameIds
<1>5. RegistrationFits' /\ ClockAndNumbers' /\ AheadByContract'
  BY <1>1 DEF IInv, RegistrationFits, Registered, ClockAndNumbers, AheadByContract,
              AgendaIsAhead, ContractKept
<1>6. \A id \in active : frames[id].end > EndTime
  <2>1. \A id \in active : frames[id].end \in Nat /\ EndTime \in Nat
    BY FrameEnds DEF IInv
  <2>2. ASSUME NEW e \in events, e.time <= EndTime
        PROVE  FALSE
    <3>1. e.time \in Nat /\ EndTime \in Nat
      BY SchedulerAssumption DEF IInv, TypeOK, EventSet
    <3> QED
      BY <1>3, <2>2, <3>1
  <2> QED
    BY <2>1, <2>2 DEF IInv, CompletionIsQueued
<1>7. Phases' /\ DeliveredAtItsEnd' /\ CompletionIsQueued' /\ NothingLeftBehind'
  <2>1. \A id \in active : frames[id].end > EndTime => ~ (frames[id].end <= EndTime)
    BY FrameEnds DEF IInv
  <2> QED
    BY <1>1, <1>2, <1>3, <1>6, <2>1
       DEF Phases, DeliveredAtItsEnd, CompletionIsQueued, NothingLeftBehind
<1> QED
  BY <1>4, <1>5, <1>6, <1>7 DEF IInv

(***************************************************************************)
(* Registration: what is asked for names the node or the interferer that   *)
(* is registered with it and, under the contract, is not in the past.      *)
(***************************************************************************)
LEMMA RegisteringKeepsIInv ==
  ASSUME IInv, Registering, NEW requests \in Seq(RequestSet),
         Schedule(events, requests), UNCHANGED <<now, channelVars, metrics,
                                                 deliveryVars, handled>>,
         nodes' \in Seq(NodeIds), Len(nodes) <= Len(nodes'), Len(nodes') <= MaxNodes,
         joined' \in Seq(Nat), Len(joined') = Len(nodes'),
         heard' \in Seq(Seq(ChannelEvent)), Len(heard') <= MaxInterferers,
         tuned' \in Seq(Nat), Len(tuned') = Len(heard'),
         \A r : Registered(r) => Registered(r)',
         \A n \in DOMAIN requests : Registered(requests[n])',
         ContractKept => \A n \in DOMAIN requests : now <= requests[n].time
  PROVE  IInv'
<1>1. /\ UNCHANGED <<now, frames, active, completed, collided, captured, metrics,
                     batch, delivering, cursor, handled>>
      /\ pc \in {"setup", "stopped"} /\ pc' = "setup"
      /\ now \in Nat /\ completed = {} /\ batch = {} /\ delivering = NoFrame
      /\ \A id \in active : frames[id].end > EndTime
  BY DEF Registering, channelVars, deliveryVars, IInv, Phases, TypeOK, Ch!TypeOK
<1>2. /\ TypeOK /\ seq \in Nat /\ events \in SUBSET EventSet
      /\ ClockAndNumbers /\ AheadByContract /\ RegistrationFits
  BY DEF IInv, TypeOK
<1>3. /\ events' \in SUBSET EventSet /\ seq' \in Nat /\ events \subseteq events'
      /\ \A e \in events' \ events : \E n \in DOMAIN requests : Grants(e, requests[n])
  BY <1>2, ScheduleFacts
<1>4. TypeOK'
  <2>1. Ch!TypeOK'
    BY <1>1, <1>2 DEF TypeOK, Ch!TypeOK, Ch!FrameIds, Ch!Frame
  <2>2. cursor' \in 0..(Len(nodes') + 1)
    BY <1>1, <1>2 DEF TypeOK
  <2> QED
    BY <1>1, <1>2, <1>3, <2>1, <2>2 DEF TypeOK, Ch!FrameIds
<1>5. RegistrationFits'
  <2>1. ASSUME NEW e \in events' \ events
        PROVE  Registered(e)'
    <3>1. PICK n \in DOMAIN requests : Grants(e, requests[n])
      BY <1>3
    <3>2. e.kind = requests[n].kind /\ e.who = requests[n].who
      BY <3>1 DEF Grants
    <3>3. Registered(requests[n])'
      OBVIOUS
    <3> QED
      BY <3>2, <3>3 DEF Registered
  <2>2. \A e \in events' : Registered(e)'
    BY <1>2, <2>1 DEF RegistrationFits
  <2> QED
    BY <2>2 DEF RegistrationFits
<1>6. ClockAndNumbers' /\ AheadByContract'
  <2>1. handled.time = now /\ handled.seq \in Int /\ handled.seq < seq
    BY <1>2 DEF TypeOK, ClockAndNumbers
  <2>2. ContractKept =>
          \A e \in events : e.time > now \/ (e.time = now /\ e.seq > handled.seq)
    BY <1>2, <2>1 DEF AheadByContract, AgendaIsAhead
  <2> QED
    BY <1>1, <1>2, <2>1, <2>2, ScheduleKeepsQueue
<1>7. CompletionIsQueued'
  BY <1>1, <1>3 DEF IInv, CompletionIsQueued
<1>8. Phases' /\ DeliveredAtItsEnd' /\ NothingLeftBehind'
  BY <1>1 DEF Phases, DeliveredAtItsEnd, NothingLeftBehind
<1> QED
  BY <1>4, <1>5, <1>6, <1>7, <1>8 DEF IInv

(* add_node.                                                               *)
LEMMA AddNodeKeepsIInv ==
  ASSUME IInv, NEW id \in NodeIds, AddNode(id)
  PROVE  IInv'
<1>1. /\ Registering /\ nodes' = Append(nodes, id) /\ Len(nodes) < MaxNodes
      /\ joined' = Append(joined, Len(frames))
      /\ heard' = heard /\ tuned' = tuned
      /\ UNCHANGED <<now, channelVars, metrics, deliveryVars, handled>>
  BY DEF AddNode
<1>2. PICK answer \in Answers(now) : Schedule(events, Requests(answer, "Wake", id))
  BY DEF AddNode
<1>3. /\ nodes \in Seq(NodeIds) /\ heard \in Seq(Seq(ChannelEvent)) /\ Len(heard) <= MaxInterferers
      /\ joined \in Seq(Nat) /\ Len(joined) = Len(nodes) /\ now \in Nat
      /\ tuned \in Seq(Nat) /\ Len(tuned) = Len(heard) /\ Len(frames) \in Nat
  BY DEF IInv, TypeOK, RegistrationFits, Ch!TypeOK
<1>4. /\ nodes' \in Seq(NodeIds) /\ Len(nodes') = Len(nodes) + 1
      /\ joined' \in Seq(Nat) /\ Len(joined') = Len(nodes')
      /\ \A i \in DOMAIN nodes : i \in DOMAIN nodes' /\ nodes'[i] = nodes[i]
      /\ Len(nodes) + 1 \in DOMAIN nodes' /\ nodes'[Len(nodes) + 1] = id
  BY <1>1, <1>3
<1>5. Len(nodes) <= Len(nodes') /\ Len(nodes') <= MaxNodes
  <2>1. Len(nodes) \in Nat /\ MaxNodes \in Nat
    BY <1>3, SchedulerAssumption
  <2> QED
    BY <1>1, <1>4, <2>1
<1>6. \A r : Registered(r) => Registered(r)'
  BY <1>1, <1>4 DEF Registered
<1>7. \A later : Registered(Request(later, "Wake", id))'
  BY <1>4 DEF Registered, Request
<1>8. /\ Requests(answer, "Wake", id) \in Seq(RequestSet)
      /\ ContractKept => \A n \in DOMAIN Requests(answer, "Wake", id) :
                           now <= Requests(answer, "Wake", id)[n].time
  <2>1. id \in Senders
    BY DEF Senders
  <2> QED
    BY <1>3, <2>1, AnswerRequests
<1>9. PICK requests \in Seq(RequestSet) : requests = Requests(answer, "Wake", id)
  BY <1>8
<1>10. ASSUME NEW n \in DOMAIN requests
       PROVE  Registered(requests[n])'
  <2>1. requests[n] = Request(answer[n], "Wake", id)
    BY <1>9, <1>10 DEF Requests
  <2> QED
    BY <1>7, <2>1 DEF Registered
<1>11. Schedule(events, requests)
  BY <1>2, <1>9
<1>12. ContractKept => \A n \in DOMAIN requests : now <= requests[n].time
  BY <1>8, <1>9
<1>13. /\ heard' \in Seq(Seq(ChannelEvent)) /\ Len(heard') <= MaxInterferers
       /\ tuned' \in Seq(Nat) /\ Len(tuned') = Len(heard')
  BY <1>1, <1>3
<1> QED
  BY <1>1, <1>4, <1>5, <1>6, <1>10, <1>11, <1>12, <1>13, RegisteringKeepsIInv

(* add_interferer.                                                         *)
LEMMA AddInterfererKeepsIInv ==
  ASSUME IInv, NEW firstPoll \in Times(now), AddInterferer(firstPoll)
  PROVE  IInv'
<1> PICK k : k = Len(heard) + 1
  OBVIOUS
<1> DEFINE poll == Request(firstPoll, "InterferencePoll", k)
<1>1. /\ Registering /\ heard' = Append(heard, << >>) /\ Len(heard) < MaxInterferers
      /\ tuned' = Append(tuned, Len(frames))
      /\ nodes' = nodes /\ joined' = joined /\ Schedule(events, <<poll>>)
      /\ UNCHANGED <<now, channelVars, metrics, deliveryVars, handled>>
  BY DEF AddInterferer
<1>2. /\ nodes \in Seq(NodeIds) /\ heard \in Seq(Seq(ChannelEvent)) /\ Len(nodes) <= MaxNodes
      /\ joined \in Seq(Nat) /\ Len(joined) = Len(nodes) /\ now \in Nat
      /\ tuned \in Seq(Nat) /\ Len(tuned) = Len(heard) /\ Len(frames) \in Nat
  BY DEF IInv, TypeOK, RegistrationFits, Ch!TypeOK
<1>3. /\ Len(heard) \in Nat /\ MaxInterferers \in Nat /\ Len(nodes) \in Nat
      /\ firstPoll \in Nat /\ (ContractKept => now <= firstPoll)
  BY <1>2, SchedulerAssumption, TimesAreAhead
<1>4. /\ heard' \in Seq(Seq(ChannelEvent)) /\ Len(heard') = Len(heard) + 1
      /\ tuned' \in Seq(Nat) /\ Len(tuned') = Len(heard')
      /\ DOMAIN heard \subseteq DOMAIN heard' /\ k \in DOMAIN heard'
  BY <1>1, <1>2
<1>5. Len(heard') <= MaxInterferers /\ k \in 1..MaxInterferers
  BY <1>1, <1>3, <1>4
<1>6. \A r : Registered(r) => Registered(r)'
  BY <1>1, <1>4 DEF Registered
<1>7. Registered(poll)'
  BY <1>4 DEF Registered, Request
<1>8. poll \in RequestSet /\ (ContractKept => now <= poll.time)
  BY <1>3, <1>5 DEF Request, RequestSet
<1> HIDE DEF poll
<1>9. PICK requests \in Seq(RequestSet) : requests = <<poll>>
  <2>1. \A r \in RequestSet : <<r>> \in Seq(RequestSet)
    OBVIOUS
  <2> QED
    BY <1>8, <2>1, Zenon
<1>10. /\ \A n \in DOMAIN requests : Registered(requests[n])'
       /\ ContractKept => \A n \in DOMAIN requests : now <= requests[n].time
  <2>1. \A n \in DOMAIN requests : requests[n] = poll
    BY <1>9
  <2> QED
    BY <1>7, <1>8, <2>1 DEF Registered
<1>11. /\ nodes' \in Seq(NodeIds) /\ Len(nodes) <= Len(nodes') /\ Len(nodes') <= MaxNodes
       /\ joined' \in Seq(Nat) /\ Len(joined') = Len(nodes')
  BY <1>1, <1>2, <1>3
<1>12. Schedule(events, requests)
  BY <1>1, <1>9
<1>13. /\ heard' \in Seq(Seq(ChannelEvent)) /\ Len(heard') <= MaxInterferers
       /\ tuned' \in Seq(Nat) /\ Len(tuned') = Len(heard')
  BY <1>4, <1>5
<1>14. Registering /\ UNCHANGED <<now, channelVars, metrics, deliveryVars, handled>>
  BY <1>1
<1> QED
  BY <1>6, <1>10, <1>11, <1>12, <1>13, <1>14, RegisteringKeepsIInv

-----------------------------------------------------------------------------
(* An empty scheduler.                                                     *)
LEMMA Initially == Init => IInv
<1> SUFFICES ASSUME Init
             PROVE  IInv
  OBVIOUS
<1>1. /\ now = 0 /\ frames = << >> /\ active = {} /\ completed = {}
      /\ collided = {} /\ captured = {} /\ events = {} /\ seq = 0 /\ nodes = << >>
      /\ joined = << >> /\ heard = << >> /\ tuned = << >> /\ metrics = NoMetrics /\ pc = "setup" /\ batch = {}
      /\ delivering = NoFrame /\ cursor = 0 /\ handled = [time |-> 0, seq |-> -1]
  BY DEF Init, Ch!Init
<1>2. EndTime \in Nat /\ MaxNodes \in Nat /\ MaxInterferers \in Nat
  BY SchedulerAssumption
<1>3. TypeOK
  <2>1. metrics \in Counters
    BY <1>1 DEF NoMetrics, Counters
  <2>2. Ch!TypeOK
    BY <1>1, <1>2 DEF Ch!TypeOK, Ch!FrameIds
  <2>3. handled \in [time : 0..EndTime, seq : Nat \cup {-1}]
    BY <1>1, <1>2
  <2> QED
    BY <1>1, <2>1, <2>2, <2>3 DEF TypeOK
<1>4. RegistrationFits /\ ClockAndNumbers /\ AheadByContract /\ Phases
  BY <1>1, <1>2 DEF RegistrationFits, ClockAndNumbers, AheadByContract, AgendaIsAhead, Phases
<1>5. CompletionIsQueued /\ DeliveredAtItsEnd /\ NothingLeftBehind
  BY <1>1 DEF CompletionIsQueued, DeliveredAtItsEnd, NothingLeftBehind
<1> QED
  BY <1>3, <1>4, <1>5 DEF IInv

(* Every step of the scheduler keeps the invariant.                        *)
LEMMA StepKeepsIInv == IInv /\ [Next]_vars => IInv'
<1> SUFFICES ASSUME IInv, [Next]_vars
             PROVE  IInv'
  OBVIOUS
<1>1. CASE Setup
  <2>1. ASSUME NEW id \in NodeIds, AddNode(id)
        PROVE  IInv'
    BY <2>1, AddNodeKeepsIInv
  <2>2. ASSUME NEW firstPoll \in Times(now), AddInterferer(firstPoll)
        PROVE  IInv'
    BY <2>2, AddInterfererKeepsIInv
  <2> QED
    BY <1>1, <2>1, <2>2, BackToLoopKeepsIInv DEF Setup
<1>2. CASE Loop
  BY <1>2, PopWakeKeepsIInv, PopTxCompleteKeepsIInv, PopInterferencePollKeepsIInv,
     StopKeepsIInv DEF Loop
<1>3. CASE Delivery
  <2>1. ASSUME NEW i \in DOMAIN nodes, Deliver(i)
        PROVE  IInv'
    BY <2>1, DeliverKeepsIInv
  <2> QED
    BY <1>3, <2>1, DrainKeepsIInv, DeliverySkipsKeepIInv, BackToLoopKeepsIInv DEF Delivery
<1>4. CASE UNCHANGED vars
  <2>1. UNCHANGED <<now, frames, active, completed, collided, captured, events, seq,
                    nodes, joined, tuned, heard, metrics, pc, batch, delivering, cursor, handled>>
    BY <1>4 DEF vars, channelVars, deliveryVars, registry
  <2>2. TypeOK'
    BY <2>1 DEF IInv, TypeOK, Ch!TypeOK, Ch!FrameIds, Ch!Frame
  <2>3. RegistrationFits' /\ ClockAndNumbers' /\ AheadByContract' /\ Phases'
    BY <2>1 DEF IInv, RegistrationFits, Registered, ClockAndNumbers, AheadByContract,
                AgendaIsAhead, ContractKept, Phases
  <2>4. CompletionIsQueued' /\ DeliveredAtItsEnd' /\ NothingLeftBehind'
    BY <2>1 DEF IInv, CompletionIsQueued, DeliveredAtItsEnd, NothingLeftBehind
  <2> QED
    BY <2>2, <2>3, <2>4 DEF IInv
<1> QED
  BY <1>1, <1>2, <1>3, <1>4 DEF Next

(* The inductive invariant of the scheduler.                               *)
THEOREM Inductive == Spec => []IInv
BY Initially, StepKeepsIInv, PTL DEF Spec

(***************************************************************************)
(* The scheduler's state keeps its types, the channel's included; and a    *)
(* queued event names who is there: each wake a node that is registered,   *)
(* so that find_node_idx finds it, and each poll the index of an           *)
(* interferer that is registered.                                          *)
(***************************************************************************)
THEOREM SchedulerTypeCorrect == Spec => [](TypeOK /\ RegistrationFits)
<1>1. IInv => TypeOK /\ RegistrationFits
  BY DEF IInv
<1> QED
  BY <1>1, Inductive, PTL

(***************************************************************************)
(* If callers keep the timer contract simulated time never goes back, and  *)
(* at one instant events are handled in the order in which they were       *)
(* scheduled.                                                              *)
(***************************************************************************)
THEOREM TimeGoesForward ==
  ASSUME Delays \subseteq Nat
  PROVE  Spec => []AgendaIsAhead
<1>1. IInv => AgendaIsAhead
  BY DEF IInv, AheadByContract, ContractKept
<1> QED
  BY <1>1, Inductive, PTL

(* A frame on the air that is due has its completion in the queue.         *)
THEOREM CompletionsAreQueued == Spec => []CompletionIsQueued
<1>1. IInv => CompletionIsQueued
  BY DEF IInv
<1> QED
  BY <1>1, Inductive, PTL

(* Each frame is resolved, drained and delivered at its very end.          *)
THEOREM DeliveryIsPunctual == Spec => []DeliveredAtItsEnd
<1>1. IInv => DeliveredAtItsEnd
  BY DEF IInv
<1> QED
  BY <1>1, Inductive, PTL

(* run() returns with nothing undone that was due by end_time.             *)
THEOREM RunIsComplete == Spec => []NothingLeftBehind
<1>1. IInv => NothingLeftBehind
  BY DEF IInv
<1> QED
  BY <1>1, Inductive, PTL

-----------------------------------------------------------------------------
(***************************************************************************)
(* Whatever the scheduler does to the channel is one call of it, at a time *)
(* that is not in the past if callers name none, or leaves it alone.       *)
(***************************************************************************)
LEMMA StepUsesChannel ==
  ContractKept /\ IInv /\ [Next]_vars => [Ch!Next]_(Ch!vars)
<1> SUFFICES ASSUME ContractKept, IInv, [Next]_vars
             PROVE  [Ch!Next]_(Ch!vars)
  OBVIOUS
<1>1. \A time \in now..EndTime : CallsChannel(time) => Ch!Next
  BY DEF CallsChannel, Ch!Next
<1>2. ASSUME UNCHANGED <<now, channelVars>>
      PROVE  UNCHANGED Ch!vars
  BY <1>2 DEF channelVars, Ch!vars
<1>3. CASE Setup
  BY <1>2, <1>3 DEF Setup, AddNode, AddInterferer, Run
<1>4. CASE Stop
  BY <1>2, <1>4 DEF Stop
<1>5. ASSUME NEW e \in events, PopWake(e)
      PROVE  Ch!Next
  <2>1. Pops(e, "Wake") /\ e.time \in now..EndTime
    BY <1>5, PoppedEvent DEF PopWake
  <2>2. CallsChannel(e.time)
    BY <1>5, WakeIsTurn, TurnUsesChannel
  <2> QED
    BY <1>1, <2>1, <2>2
<1>6. ASSUME NEW e \in events, PopInterferencePoll(e)
      PROVE  Ch!Next
  <2>1. Pops(e, "InterferencePoll") /\ e.time \in now..EndTime
    BY <1>6, PoppedEvent DEF PopInterferencePoll
  <2>2. CallsChannel(e.time)
    BY <1>6, PollIsTurn, TurnUsesChannel
  <2> QED
    BY <1>1, <2>1, <2>2
<1>7. ASSUME NEW e \in events, PopTxComplete(e)
      PROVE  Ch!Next
  <2>1. e.time \in now..EndTime /\ Ch!ResolveAt(e.time)
    BY <1>7, PoppedEvent DEF PopTxComplete
  <2> QED
    BY <1>1, <2>1 DEF CallsChannel
<1>8. ASSUME NEW i \in DOMAIN nodes, Deliver(i)
      PROVE  Ch!Next
  <2>1. now \in now..EndTime
    BY SchedulerAssumption DEF IInv, TypeOK, Ch!TypeOK
  <2>2. CallsChannel(now)
    BY <1>8, DeliveryIsTurn, TurnUsesChannel
  <2> QED
    BY <1>1, <2>1, <2>2
<1>9. CASE Delivery
  <2>1. CASE Drain
    BY <2>1 DEF Drain, Ch!Next
  <2>2. ASSUME NEW id \in batch, SkipCollided(id) \/ StartDelivery(id)
        PROVE  UNCHANGED Ch!vars
    BY <1>2, <2>2 DEF SkipCollided, StartDelivery, TakesFrame
  <2>3. ASSUME NEW i \in DOMAIN nodes, SkipSender(i)
        PROVE  UNCHANGED Ch!vars
    BY <1>2, <2>3 DEF SkipSender
  <2>4. CASE EndDelivery \/ EndBatch
    BY <1>2, <2>4 DEF EndDelivery, EndBatch
  <2> QED
    BY <1>8, <1>9, <2>1, <2>2, <2>3, <2>4 DEF Delivery
<1>10. CASE Loop
  BY <1>4, <1>5, <1>6, <1>7, <1>10 DEF Loop
<1>11. CASE UNCHANGED vars
  BY <1>2, <1>11 DEF vars
<1> QED
  BY <1>3, <1>9, <1>10, <1>11 DEF Next

(***************************************************************************)
(* If its own callers keep the timer contract, the scheduler is a correct  *)
(* caller of the channel: its calls come in the order of time, none after  *)
(* end_time, through every handler and reply.                              *)
(***************************************************************************)
THEOREM SchedulerUsesChannel ==
  ASSUME Delays \subseteq Nat
  PROVE  Spec => UsesChannel
<1>1. Init => Ch!Init
  BY DEF Init
<1>2. IInv /\ [Next]_vars => [Ch!Next]_(Ch!vars)
  BY StepUsesChannel DEF ContractKept
<1> QED
  BY <1>1, <1>2, Inductive, PTL DEF Spec, UsesChannel, Ch!Spec

(* The channel's own promises hold of every run.                           *)
LEMMA SameVerdicts ==
  /\ P!CollidedIffDestroyed <=> Ch!CollidedIffDestroyed
  /\ P!CapturedIffSurvived <=> Ch!CapturedIffSurvived
<1>1. P!FrameIds = Ch!FrameIds
  BY DEF P!FrameIds, Ch!FrameIds
<1>2. \A f, g : P!Destroys(f, g) <=> Ch!Destroys(f, g)
  BY SameMeet DEF P!Destroys, Ch!Destroys
<1>3. \A fs, id : P!IsDestroyed(fs, id) <=> Ch!IsDestroyed(fs, id)
  BY <1>2 DEF P!IsDestroyed, Ch!IsDestroyed
<1>4. \A fs, id : P!IsMet(fs, id) <=> Ch!IsMet(fs, id)
  BY SameMeet DEF P!IsMet, Ch!IsMet
<1> QED
  BY <1>1, <1>3, <1>4 DEF P!CollidedIffDestroyed, Ch!CollidedIffDestroyed,
                          P!CapturedIffSurvived, Ch!CapturedIffSurvived

(***************************************************************************)
(* In every run of the scheduler, whatever nodes and interferers do within *)
(* the timer contract, the flags that deliver_completed_to_nodes goes by   *)
(* are those that all frames begun so far justify.                         *)
(***************************************************************************)
THEOREM DeliveryGoesByTrueVerdicts ==
  ASSUME Delays \subseteq Nat
  PROVE  Spec => [](Ch!CollidedIffDestroyed /\ Ch!CapturedIffSurvived)
<1>1. Init => P!Init
  BY DEF Init, Ch!Init, P!Init
<1>2. IInv /\ [Next]_vars => [P!Next]_(P!vars)
  BY StepUsesChannel, SameStep DEF ContractKept
<1>3. P!Spec => []P!CollidedIffDestroyed
  BY P!VerdictsAreTrue, SchedulerAssumption
<1>4. P!Spec => []P!CapturedIffSurvived
  BY P!CapturesAreTrue, SchedulerAssumption
<1> QED
  BY <1>1, <1>2, <1>3, <1>4, Inductive, SameVerdicts, PTL DEF Spec, P!Spec
=============================================================================
