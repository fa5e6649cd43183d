-------------------------- MODULE AccountingProofs --------------------------
(***************************************************************************)
(* What the counters and the observers of the scheduler amount to, for     *)
(* every choice of its constants.  The argument: begin_transmission marks  *)
(* frames on the air only, so what is known of a frame that left the air   *)
(* is final; a frame leaves the air, the batch and the delivery loop once; *)
(* and what is registered between two calls of run() finds only frames on  *)
(* the air that end after end_time, and so are never delivered.            *)
(***************************************************************************)
EXTENDS SchedulerProofs, FiniteSetTheorems

(* The frames that the delivery loop is not done with.                     *)
Unsettled == active \cup completed \cup batch \cup ({delivering} \ {NoFrame})

(* Those that it has looked at: done with, or being delivered.             *)
LookedAt == Settled \cup ({delivering} \ {NoFrame})

(* No frame is in two places, and only a frame that came through is        *)
(* delivered, from the first node on.                                      *)
Apart ==
  /\ batch \cap active = {}
  /\ delivering \notin active \cup completed \cup batch
  /\ delivering # NoFrame => delivering \notin collided /\ cursor >= 1

(* A frame begun before a node or an interferer was registered, and not    *)
(* done with, ends after the run.                                          *)
Newcomers ==
  /\ \A i \in DOMAIN nodes : joined[i] <= Len(frames)
  /\ \A k \in DOMAIN heard : tuned[k] <= Len(frames)
  /\ \A f \in Unsettled : frames[f].end <= EndTime =>
       /\ \A i \in DOMAIN nodes : joined[i] < f
       /\ \A k \in DOMAIN heard : tuned[k] < f

(* The counters of verdicts, by the flags that the code goes by.           *)
Lost   == Settled \cap collided
Caught == {f \in LookedAt : f \notin collided /\ f \in captured}

VerdictsByFlags ==
  /\ metrics.collisions = Cardinality(Lost)
  /\ metrics.captures = Cardinality(Caught)

AInv ==
  /\ Apart
  /\ Newcomers
  /\ RxAccounting
  /\ VerdictsByFlags

-----------------------------------------------------------------------------
(* What the invariant of the scheduler says of the sets of frames.         *)
LEMMA FrameSets ==
  ASSUME IInv
  PROVE  /\ Len(frames) \in Nat /\ Ch!FrameIds = 1..Len(frames)
         /\ NoFrame \notin Ch!FrameIds /\ Ch!FrameIds \subseteq Nat
         /\ Len(frames) + 1 \notin Ch!FrameIds
         /\ active \subseteq Ch!FrameIds /\ completed \subseteq Ch!FrameIds
         /\ active \cap completed = {}
         /\ batch \subseteq Ch!FrameIds /\ delivering \in Ch!FrameIds \cup {NoFrame}
         /\ Unsettled \subseteq Ch!FrameIds
         /\ Settled = Ch!FrameIds \ Unsettled
         /\ nodes \in Seq(NodeIds) /\ DOMAIN nodes = 1..Len(nodes) /\ Len(nodes) \in Nat
         /\ DOMAIN heard = 1..Len(heard) /\ Len(heard) \in Nat
         /\ joined \in Seq(Nat) /\ Len(joined) = Len(nodes)
         /\ tuned \in Seq(Nat) /\ Len(tuned) = Len(heard)
         /\ cursor \in Int /\ EndTime \in Nat /\ now <= EndTime
<1>1. /\ frames \in Seq(Ch!Frame) /\ active \subseteq Ch!FrameIds
      /\ completed \subseteq Ch!FrameIds \ active
      /\ batch \subseteq Ch!FrameIds /\ delivering \in Ch!FrameIds \cup {NoFrame}
      /\ nodes \in Seq(NodeIds) /\ joined \in Seq(Nat) /\ Len(joined) = Len(nodes)
      /\ tuned \in Seq(Nat) /\ Len(tuned) = Len(heard)
      /\ heard \in Seq(Seq(ChannelEvent)) /\ cursor \in 0..(Len(nodes) + 1) /\ now \in 0..EndTime
  BY DEF IInv, TypeOK, Ch!TypeOK
<1>2. EndTime \in Nat
  BY SchedulerAssumption
<1>3. Len(frames) \in Nat /\ Ch!FrameIds = 1..Len(frames)
  BY <1>1 DEF Ch!FrameIds
<1>4. /\ DOMAIN nodes = 1..Len(nodes) /\ Len(nodes) \in Nat
      /\ DOMAIN heard = 1..Len(heard) /\ Len(heard) \in Nat
  BY <1>1
<1>5. /\ NoFrame \notin Ch!FrameIds /\ Ch!FrameIds \subseteq Nat
      /\ Len(frames) + 1 \notin Ch!FrameIds
  BY <1>3 DEF NoFrame
<1>6. Unsettled \subseteq Ch!FrameIds /\ Settled = Ch!FrameIds \ Unsettled
  BY <1>1, <1>5 DEF Unsettled, Settled
<1>7. cursor \in Int /\ now <= EndTime
  BY <1>1, <1>2, <1>4
<1> QED
  BY <1>1, <1>2, <1>3, <1>4, <1>5, <1>6, <1>7

(* The identifier of a registered interferer is one of the senders.        *)
LEMMA InterfererIsSender ==
  ASSUME IInv, NEW k \in DOMAIN heard
  PROVE  SyntheticId(k) \in Senders
<1>1. k \in 1..Len(heard) /\ Len(heard) \in Nat
  BY FrameSets
<1>2. Len(heard) <= MaxInterferers /\ MaxInterferers \in Nat
  BY SchedulerAssumption DEF IInv, RegistrationFits
<1>3. k \in 1..MaxInterferers
  BY <1>1, <1>2
<1> QED
  BY <1>3 DEF Senders

(* When each node and interferer was registered is a number of frames.     *)
LEMMA RegistrationIsNumbered ==
  ASSUME IInv
  PROVE  /\ \A i \in DOMAIN nodes : joined[i] \in Nat
         /\ \A k \in DOMAIN heard : tuned[k] \in Nat
<1>1. /\ DOMAIN nodes = 1..Len(nodes) /\ DOMAIN heard = 1..Len(heard)
      /\ joined \in Seq(Nat) /\ Len(joined) = Len(nodes)
      /\ tuned \in Seq(Nat) /\ Len(tuned) = Len(heard)
  BY FrameSets
<1>2. \A i \in DOMAIN nodes : joined[i] \in Nat
  <2>1. \A i \in 1..Len(joined) : joined[i] \in Nat
    BY <1>1
  <2> QED
    BY <1>1, <2>1
<1>3. \A k \in DOMAIN heard : tuned[k] \in Nat
  <2>1. \A k \in 1..Len(tuned) : tuned[k] \in Nat
    BY <1>1
  <2> QED
    BY <1>1, <2>1
<1> QED
  BY <1>2, <1>3

-----------------------------------------------------------------------------
(***************************************************************************)
(* What a turn does to the air: nothing, or one frame begins, which leaves *)
(* the flags of the frames that are off the air alone.                     *)
(***************************************************************************)
NewFrame ==
  /\ Ch!FrameIds' = Ch!FrameIds \cup {Len(frames) + 1}
  /\ Len(frames') = Len(frames) + 1
  /\ active' = active \cup {Len(frames) + 1} /\ completed' = completed
  /\ \A id \in Ch!FrameIds : frames'[id] = frames[id]
  /\ \A id \in Ch!FrameIds \ active :
       /\ id \in collided' <=> id \in collided
       /\ id \in captured' <=> id \in captured
  /\ LET new == frames'[Len(frames) + 1]
     IN  new.start = now' /\ ObserveAll(<<Started(new.sender, new.band, new.start)>>)

SameAir == UNCHANGED <<frames, active, completed, collided, captured, heard>>

(* The counters that the air decides.                                      *)
SameCounts(m) ==
  metrics'.rx = m.rx /\ metrics'.collisions = m.collisions /\ metrics'.captures = m.captures

LEMMA RecordsOfSending ==
  ASSUME NEW m \in Counters
  PROVE  /\ \A id \in NodeIds :
              /\ RecordTx(m, id).rx = m.rx
              /\ RecordTx(m, id).collisions = m.collisions
              /\ RecordTx(m, id).captures = m.captures
         /\ \A duration \in Nat :
              /\ RecordAirtime(m, duration).rx = m.rx
              /\ RecordAirtime(m, duration).collisions = m.collisions
              /\ RecordAirtime(m, duration).captures = m.captures
BY DEF Counters, RecordTx, RecordAirtime

(* begin_transmission marks frames on the air, and the new one, only.      *)
LEMMA BeginningMarksTheAir ==
  ASSUME IInv, NEW sender \in Senders, NEW tx \in Ch!Transmissions,
         NEW time \in Nat, Ch!BeginTransmission(sender, tx, time),
         ObserveAll(<<Started(sender, tx.band, time)>>)
  PROVE  NewFrame
<1> DEFINE new == Ch!FrameOf(sender, tx, time)
<1>1. /\ now' = time /\ completed' = completed
      /\ active' = active \cup {Len(frames) + 1}
      /\ Ch!FrameIds' = Ch!FrameIds \cup {Len(frames) + 1}
      /\ \A id \in Ch!FrameIds : frames'[id] = frames[id] /\ id # Len(frames) + 1
  BY BeginFacts DEF IInv
<1>2. /\ frames' = Append(frames, new)
      /\ collided' = collided \cup Ch!Beaten(new) \cup Ch!Level(new)
                       \cup {n \in {Len(frames) + 1} : Ch!NewCollides(new)}
      /\ captured' = ((captured \cup Ch!Stronger(new)) \ Ch!Level(new))
                       \cup {n \in {Len(frames) + 1} : Ch!NewCaptures(new)}
  BY DEF Ch!BeginTransmission
<1>3. /\ Ch!Beaten(new) \subseteq active /\ Ch!Level(new) \subseteq active
      /\ Ch!Stronger(new) \subseteq active
  BY DEF Ch!Beaten, Ch!Level, Ch!Stronger, Ch!Hit
<1>4. Len(frames') = Len(frames) + 1
  <2>1. frames \in Seq(Ch!Frame)
    BY DEF IInv, TypeOK, Ch!TypeOK
  <2>2. frames \in Seq(Ch!Frame \cup {new}) /\ new \in Ch!Frame \cup {new}
    BY <2>1, SeqMonotonic
  <2> QED
    BY <1>2, <2>2, AppendProperties
<1>5. frames'[Len(frames) + 1] = new
  <2>1. frames \in Seq(Ch!Frame)
    BY DEF IInv, TypeOK, Ch!TypeOK
  <2>2. frames \in Seq(Ch!Frame \cup {new}) /\ new \in Ch!Frame \cup {new}
    BY <2>1, SeqMonotonic
  <2> QED
    BY <1>2, <2>2, AppendProperties
<1>6. new.sender = sender /\ new.band = tx.band /\ new.start = time
  BY DEF Ch!FrameOf
<1> HIDE DEF new
<1>7. ASSUME NEW id \in Ch!FrameIds \ active
      PROVE  (id \in collided' <=> id \in collided) /\ (id \in captured' <=> id \in captured)
  BY <1>1, <1>2, <1>3, <1>7
<1> QED
  BY <1>1, <1>4, <1>5, <1>6, <1>7 DEF NewFrame

LEMMA NodeOnTheAir ==
  ASSUME IInv, NEW time \in Nat, NEW i \in DOMAIN nodes, NEW queue, NEW wake,
         NEW m \in Counters, HandlePollTransmit(i, time, queue, wake, m)
  PROVE  (NewFrame \/ SameAir) /\ SameCounts(m)
<1>1. nodes[i] \in NodeIds /\ nodes[i] \in Senders
  BY DEF IInv, TypeOK, Senders
<1>2. CASE NodeStaysSilent(time, queue, wake, m)
  BY <1>2 DEF NodeStaysSilent, SameAir, SameCounts, channelVars
<1>3. CASE NodeTransmits(i, time, queue, wake, m)
  <2>1. PICK tx \in Ch!Transmissions :
          /\ Ch!BeginTransmission(nodes[i], tx, time)
          /\ ObserveAll(<<Started(nodes[i], tx.band, time)>>)
          /\ metrics' = RecordAirtime(RecordTx(m, nodes[i]), tx.duration)
    BY <1>3 DEF NodeTransmits
  <2>2. NewFrame
    BY <1>1, <2>1, BeginningMarksTheAir
  <2>3. tx.duration \in Nat /\ RecordTx(m, nodes[i]) \in Counters
    BY <1>1, TransmissionEnds, RecordingKeepsType
  <2> QED
    BY <1>1, <2>1, <2>2, <2>3, RecordsOfSending DEF SameCounts
<1> QED
  BY <1>2, <1>3 DEF HandlePollTransmit

LEMMA InterfererOnTheAir ==
  ASSUME IInv, NEW time \in Nat, NEW k \in DOMAIN heard, NEW queue, NEW poll,
         InterfererStaysSilent(time, queue, poll) \/ InterfererInjects(k, time, queue, poll)
  PROVE  (NewFrame \/ SameAir) /\ SameCounts(metrics)
<1>1. metrics \in Counters /\ SyntheticId(k) \in Senders
  BY InterfererIsSender DEF IInv, TypeOK
<1>2. CASE InterfererStaysSilent(time, queue, poll)
  BY <1>2 DEF InterfererStaysSilent, SameAir, SameCounts, channelVars
<1>3. CASE InterfererInjects(k, time, queue, poll)
  <2>1. PICK tx \in Ch!Transmissions :
          /\ Ch!BeginTransmission(SyntheticId(k), tx, time)
          /\ ObserveAll(<<Started(SyntheticId(k), tx.band, time)>>)
          /\ metrics' = RecordAirtime(metrics, tx.duration)
    BY <1>3 DEF InterfererInjects
  <2>2. NewFrame
    BY <1>1, <2>1, BeginningMarksTheAir
  <2>3. tx.duration \in Nat
    BY TransmissionEnds
  <2> QED
    BY <1>1, <2>1, <2>2, <2>3, RecordsOfSending DEF SameCounts
<1> QED
  BY <1>2, <1>3

-----------------------------------------------------------------------------
(***************************************************************************)
(* What a turn keeps: the frames that are not on the air stay in their     *)
(* places with their flags, and the observers hear of the new one.         *)
(***************************************************************************)
LEMMA TurnKeepsFrames ==
  ASSUME IInv, NewFrame \/ SameAir, UNCHANGED <<batch, delivering>>
  PROVE  /\ Settled' = Settled /\ LookedAt' = LookedAt
         /\ LookedAt \subseteq Ch!FrameIds
         /\ Apart => LookedAt \cap active = {}
         /\ \A f \in Ch!FrameIds : frames'[f] = frames[f]
         /\ Apart => \A f \in LookedAt : /\ f \in collided' <=> f \in collided
                                         /\ f \in captured' <=> f \in captured
<1>1. /\ Settled = Ch!FrameIds \ Unsettled /\ Unsettled \subseteq Ch!FrameIds
      /\ Len(frames) + 1 \notin Ch!FrameIds /\ NoFrame \notin Ch!FrameIds
      /\ active \subseteq Ch!FrameIds /\ completed \subseteq Ch!FrameIds
      /\ batch \subseteq Ch!FrameIds /\ delivering \in Ch!FrameIds \cup {NoFrame}
  BY FrameSets
<1>2. LookedAt \subseteq Ch!FrameIds
  BY <1>1 DEF LookedAt
<1>3. Apart => LookedAt \cap active = {}
  BY <1>1 DEF LookedAt, Apart, Unsettled
<1>4. CASE SameAir
  <2>1. Settled' = Settled
    BY <1>4 DEF SameAir, Settled, Ch!FrameIds
  <2> QED
    BY <1>2, <1>3, <1>4, <2>1 DEF SameAir, LookedAt
<1>5. CASE NewFrame
  <2>1. Settled' = Settled
    BY <1>1, <1>5 DEF NewFrame, Settled
  <2> QED
    BY <1>2, <1>3, <1>5, <2>1 DEF NewFrame, LookedAt
<1> QED
  BY <1>4, <1>5

LEMMA TurnKeepsApart ==
  ASSUME IInv, Apart, NewFrame \/ SameAir, UNCHANGED <<batch, delivering>>,
         delivering # NoFrame => cursor' >= 1
  PROVE  Apart'
<1>1. /\ Len(frames) + 1 \notin Ch!FrameIds /\ Len(frames) + 1 # NoFrame
      /\ batch \subseteq Ch!FrameIds /\ delivering \in Ch!FrameIds \cup {NoFrame}
      /\ Len(frames) \in Nat
  BY FrameSets DEF NoFrame
<1>2. CASE SameAir
  BY <1>2 DEF SameAir, Apart
<1>3. CASE NewFrame
  <2>1. /\ active' = active \cup {Len(frames) + 1} /\ completed' = completed
        /\ \A f \in Ch!FrameIds \ active : f \in collided' <=> f \in collided
    BY <1>3 DEF NewFrame
  <2>2. batch' \cap active' = {} /\ delivering' \notin active' \cup completed' \cup batch'
    BY <1>1, <2>1 DEF Apart
  <2>3. delivering' # NoFrame => delivering' \notin collided'
    BY <1>1, <2>1 DEF Apart
  <2> QED
    BY <2>2, <2>3 DEF Apart
<1> QED
  BY <1>2, <1>3

LEMMA TurnKeepsNewcomers ==
  ASSUME IInv, Newcomers, NewFrame \/ SameAir,
         UNCHANGED <<nodes, joined, tuned, batch, delivering>>
  PROVE  Newcomers' /\ DOMAIN heard' = DOMAIN heard
<1>1. /\ Len(frames) \in Nat /\ Unsettled \subseteq Ch!FrameIds
      /\ \A i \in DOMAIN nodes : joined[i] \in Nat
      /\ \A k \in DOMAIN heard : tuned[k] \in Nat
  BY FrameSets, RegistrationIsNumbered
<1>2. CASE SameAir
  <2>1. Unsettled' = Unsettled
    BY <1>2 DEF SameAir, Unsettled
  <2> QED
    BY <1>2, <2>1 DEF SameAir, Newcomers
<1>3. CASE NewFrame
  <2>1. /\ Len(frames') = Len(frames) + 1
        /\ active' = active \cup {Len(frames) + 1} /\ completed' = completed
        /\ \A f \in Ch!FrameIds : frames'[f] = frames[f]
        /\ DOMAIN heard' = DOMAIN heard
    BY <1>3 DEF NewFrame, ObserveAll
  <2>2. Unsettled' = Unsettled \cup {Len(frames) + 1}
    BY <2>1 DEF Unsettled
  <2>3. /\ \A i \in DOMAIN nodes : joined[i] < Len(frames) + 1 /\ joined[i] <= Len(frames')
        /\ \A k \in DOMAIN heard : tuned[k] < Len(frames) + 1 /\ tuned[k] <= Len(frames')
    BY <1>1, <2>1 DEF Newcomers
  <2>4. \A f \in Unsettled : frames'[f].end <= EndTime =>
          /\ \A i \in DOMAIN nodes : joined[i] < f
          /\ \A k \in DOMAIN heard : tuned[k] < f
    BY <1>1, <2>1 DEF Newcomers
  <2> QED
    BY <2>1, <2>2, <2>3, <2>4 DEF Newcomers
<1> QED
  BY <1>2, <1>3

-----------------------------------------------------------------------------
(***************************************************************************)
(* The receptions.                                                         *)
(***************************************************************************)
LEMMA ReceptionsAreFinite ==
  ASSUME IInv, NEW id
  PROVE  IsFiniteSet(Receptions(id))
<1>1. /\ Ch!FrameIds = 1..Len(frames) /\ Len(frames) \in Nat
      /\ DOMAIN nodes = 1..Len(nodes) /\ Len(nodes) \in Nat
      /\ Settled \subseteq Ch!FrameIds /\ delivering \in Ch!FrameIds \cup {NoFrame}
  BY FrameSets
<1>2. IsFiniteSet(Ch!FrameIds \X DOMAIN nodes)
  <2>1. IsFiniteSet(Ch!FrameIds)
    BY <1>1, FS_Interval
  <2>2. IsFiniteSet(DOMAIN nodes)
    BY <1>1, FS_Interval
  <2> QED
    BY <2>1, <2>2, FS_Product
<1>3. \A i : ReceivedAt(i) \subseteq Ch!FrameIds
  BY <1>1 DEF ReceivedAt
<1>4. Receptions(id) \subseteq Ch!FrameIds \X DOMAIN nodes
  BY <1>3 DEF Receptions
<1> QED
  BY <1>2, <1>4, FS_Subset

LEMMA SameReceptions ==
  ASSUME nodes' = nodes, \A i \in DOMAIN nodes : ReceivedAt(i)' = ReceivedAt(i)
  PROVE  \A id : Receptions(id)' = Receptions(id)
BY DEF Receptions

(* One node receives one frame more.                                       *)
LEMMA OneReceptionMore ==
  ASSUME nodes' = nodes, NEW j \in DOMAIN nodes, NEW f, f \notin ReceivedAt(j),
         ReceivedAt(j)' = ReceivedAt(j) \cup {f},
         \A i \in DOMAIN nodes \ {j} : ReceivedAt(i)' = ReceivedAt(i)
  PROVE  /\ Receptions(nodes[j])' = Receptions(nodes[j]) \cup {<<f, j>>}
         /\ <<f, j>> \notin Receptions(nodes[j])
         /\ \A id : id # nodes[j] => Receptions(id)' = Receptions(id)
<1>1. \A id, r : r \in Receptions(id) <=>
        \E i \in DOMAIN nodes : nodes[i] = id /\ \E g \in ReceivedAt(i) : r = <<g, i>>
  BY DEF Receptions
<1>2. \A id, r : r \in Receptions(id)' <=>
        \E i \in DOMAIN nodes : nodes[i] = id /\ \E g \in ReceivedAt(i)' : r = <<g, i>>
  BY DEF Receptions
<1>3. \A r : r \in Receptions(nodes[j])' <=> r \in Receptions(nodes[j]) \cup {<<f, j>>}
  BY <1>1, <1>2
<1>4. <<f, j>> \notin Receptions(nodes[j])
  BY <1>1
<1>5. \A id : id # nodes[j] => Receptions(id)' = Receptions(id)
  BY DEF Receptions
<1> QED
  BY <1>3, <1>4, <1>5

(* The counters are right as long as what they count stays the same.       *)
LEMMA SameCountsKeepAccounts ==
  ASSUME RxAccounting, VerdictsByFlags, SameCounts(metrics),
         \A id : Receptions(id)' = Receptions(id), Lost' = Lost, Caught' = Caught
  PROVE  RxAccounting' /\ VerdictsByFlags'
BY DEF RxAccounting, VerdictsByFlags, SameCounts

-----------------------------------------------------------------------------
(***************************************************************************)
(* What a turn at the cursor's present place keeps.                        *)
(***************************************************************************)
LEMMA TurnKeepsVerdicts ==
  ASSUME IInv, Apart, NewFrame \/ SameAir, UNCHANGED <<batch, delivering>>
  PROVE  Lost' = Lost /\ Caught' = Caught
<1>1. /\ Settled' = Settled /\ LookedAt' = LookedAt
      /\ \A f \in LookedAt : /\ f \in collided' <=> f \in collided
                             /\ f \in captured' <=> f \in captured
  BY TurnKeepsFrames
<1>2. Settled \subseteq LookedAt
  BY DEF LookedAt
<1>3. \A f : f \in Lost' <=> f \in Lost
  BY <1>1, <1>2 DEF Lost
<1>4. \A f : f \in Caught' <=> f \in Caught
  BY <1>1 DEF Caught
<1>5. Lost' = Lost
  BY <1>3
<1>6. Caught' = Caught
  BY <1>4
<1> QED
  BY <1>5, <1>6

(* What was received, but for the place the delivery loop has come to.     *)
LEMMA TurnKeepsReceived ==
  ASSUME IInv, Apart, NewFrame \/ SameAir, UNCHANGED <<nodes, joined, batch, delivering>>
  PROVE  \A i : ReceivedAt(i)' =
           {f \in LookedAt :
              /\ f > joined[i]
              /\ f \notin collided
              /\ f = delivering => i < cursor'
              /\ nodes[i] # frames[f].sender}
<1>1. /\ LookedAt \subseteq Ch!FrameIds /\ LookedAt' = LookedAt
      /\ \A f \in Ch!FrameIds : frames'[f] = frames[f]
      /\ \A f \in LookedAt : f \in collided' <=> f \in collided
  BY TurnKeepsFrames
<1>2. Settled' = Settled /\ NoFrame \notin Settled
  BY TurnKeepsFrames, FrameSets
<1>3. (Settled' \cup {delivering'}) \ {NoFrame} = LookedAt
  BY <1>2 DEF LookedAt
<1> QED
  BY <1>1, <1>3 DEF ReceivedAt

(* The same, before the turn.                                              *)
LEMMA Received ==
  ASSUME IInv
  PROVE  \A i : ReceivedAt(i) =
           {f \in LookedAt :
              /\ f > joined[i]
              /\ f \notin collided
              /\ f = delivering => i < cursor
              /\ nodes[i] # frames[f].sender}
<1>1. NoFrame \notin Settled
  BY FrameSets
<1>2. (Settled \cup {delivering}) \ {NoFrame} = LookedAt
  BY <1>1 DEF LookedAt
<1> QED
  BY <1>2 DEF ReceivedAt

(* Outside the loop over the nodes a turn adds no reception.               *)
LEMMA TurnAddsNoReception ==
  ASSUME IInv, Apart, NewFrame \/ SameAir,
         UNCHANGED <<nodes, joined, batch, delivering, cursor>>
  PROVE  \A i : ReceivedAt(i)' = ReceivedAt(i)
<1> TAKE i
<1>1. ReceivedAt(i)' = {f \in LookedAt :
                          /\ f > joined[i]
                          /\ f \notin collided
                          /\ f = delivering => i < cursor'
                          /\ nodes[i] # frames[f].sender}
  BY TurnKeepsReceived
<1>2. ReceivedAt(i) = {f \in LookedAt :
                         /\ f > joined[i]
                         /\ f \notin collided
                         /\ f = delivering => i < cursor
                         /\ nodes[i] # frames[f].sender}
  BY Received
<1> QED
  BY <1>1, <1>2

(* The turn of a handler, out of the delivery loop, changes no account.    *)
LEMMA PopTurnKeepsAInv ==
  ASSUME IInv, AInv, NewFrame \/ SameAir, SameCounts(metrics),
         UNCHANGED <<nodes, joined, tuned, batch, delivering, cursor>>
  PROVE  AInv'
<1>1. Apart' /\ Newcomers'
  <2>1. Apart'
    BY TurnKeepsApart DEF AInv, Apart
  <2> QED
    BY <2>1, TurnKeepsNewcomers DEF AInv
<1>2. Lost' = Lost /\ Caught' = Caught
  BY TurnKeepsVerdicts DEF AInv
<1>3. \A i : ReceivedAt(i)' = ReceivedAt(i)
  BY TurnAddsNoReception DEF AInv
<1>4. \A id : Receptions(id)' = Receptions(id)
  BY <1>3, SameReceptions
<1> QED
  BY <1>1, <1>2, <1>4, SameCountsKeepAccounts DEF AInv

(* A wake and a poll.                                                      *)
LEMMA PopWakeKeepsAInv ==
  ASSUME IInv, AInv, NEW e \in events, PopWake(e)
  PROVE  AInv'
<1>1. /\ Pops(e, "Wake")
      /\ UNCHANGED <<nodes, joined, tuned, batch, delivering, cursor>>
  BY DEF PopWake, registry, deliveryVars
<1>2. e.time \in Nat /\ Registered(e) /\ e.kind = "Wake"
  BY <1>1, PoppedEvent
<1>3. FindNode(e.who) \in DOMAIN nodes /\ metrics \in Counters
  BY <1>2, FindNodeFinds DEF IInv, TypeOK, Registered
<1>4. PICK answer \in Answers(e.time) :
        HandlePollTransmit(FindNode(e.who), e.time, events \ {e},
                           Requests(answer, "Wake", e.who), metrics)
  BY DEF PopWake
<1>5. (NewFrame \/ SameAir) /\ SameCounts(metrics)
  BY <1>2, <1>3, <1>4, NodeOnTheAir
<1> QED
  BY <1>1, <1>5, PopTurnKeepsAInv

LEMMA PopInterferencePollKeepsAInv ==
  ASSUME IInv, AInv, NEW e \in events, PopInterferencePoll(e)
  PROVE  AInv'
<1>1. /\ Pops(e, "InterferencePoll")
      /\ UNCHANGED <<nodes, joined, tuned, batch, delivering, cursor>>
  BY DEF PopInterferencePoll, registry, deliveryVars
<1>2. e.time \in Nat /\ Registered(e) /\ e.kind = "InterferencePoll"
  BY <1>1, PoppedEvent
<1>3. e.who \in DOMAIN heard
  BY <1>2 DEF Registered
<1>4. PICK answer \in Answers(e.time) :
        \/ InterfererStaysSilent(e.time, events \ {e},
                                 Requests(answer, "InterferencePoll", e.who))
        \/ InterfererInjects(e.who, e.time, events \ {e},
                             Requests(answer, "InterferencePoll", e.who))
  BY DEF PopInterferencePoll
<1>5. (NewFrame \/ SameAir) /\ SameCounts(metrics)
  BY <1>2, <1>3, <1>4, InterfererOnTheAir
<1> QED
  BY <1>1, <1>5, PopTurnKeepsAInv

-----------------------------------------------------------------------------
(***************************************************************************)
(* The steps that begin no frame.                                          *)
(***************************************************************************)
LEMMA QuietAirKeeps ==
  ASSUME Newcomers, UNCHANGED <<frames, nodes, joined, heard, tuned>>,
         Unsettled' \subseteq Unsettled
  PROVE  Newcomers'
BY DEF Newcomers

(* A step that leaves the air, and where each frame is, as they are.       *)
LEMMA StillStepKeepsAccounts ==
  ASSUME IInv, RxAccounting, VerdictsByFlags, metrics' = metrics,
         UNCHANGED <<frames, collided, captured, nodes, joined, delivering, cursor>>,
         Settled' = Settled
  PROVE  RxAccounting' /\ VerdictsByFlags'
<1>1. LookedAt' = LookedAt
  BY DEF LookedAt
<1>2. Lost' = Lost /\ Caught' = Caught
  BY <1>1 DEF Lost, Caught
<1>3. \A i : ReceivedAt(i)' = ReceivedAt(i)
  BY DEF ReceivedAt
<1>4. \A id : Receptions(id)' = Receptions(id)
  BY <1>3, SameReceptions
<1> QED
  BY <1>2, <1>4, SameCountsKeepAccounts DEF SameCounts

(* resolve_at moves frames that are still to be delivered, and observers   *)
(* hear of each that left the air, once.                                   *)
LEMMA PopTxCompleteKeepsAInv ==
  ASSUME IInv, AInv, NEW e \in events, PopTxComplete(e)
  PROVE  AInv'
<1> DEFINE over == Ch!Over(e.time)
<1>1. /\ Pops(e, "TxComplete") /\ Ch!ResolveAt(e.time)
      /\ ObserveCompletions(over)
      /\ UNCHANGED <<nodes, joined, tuned, metrics, batch, delivering, cursor>>
  BY DEF PopTxComplete, deliveryVars, registry
<1>2. /\ e.time \in Nat /\ e.time <= EndTime /\ EndTime \in Nat
      /\ completed = {} /\ batch = {} /\ delivering = NoFrame
      /\ \A id \in active : frames[id].end \in Nat
  <2>1. EndTime \in Nat
    BY SchedulerAssumption
  <2>2. e.time \in 0..EndTime
    BY <1>1, PoppedEvent
  <2> QED
    BY <1>1, <2>1, <2>2, PoppedEvent
<1>3. /\ frames' = frames /\ collided' = collided /\ captured' = captured
      /\ active' = active \ over /\ completed' = over
      /\ over \subseteq active /\ \A id \in over : frames[id].end <= e.time
  BY <1>1, <1>2 DEF Ch!ResolveAt, Ch!Over
<1>4. /\ active \subseteq Ch!FrameIds /\ NoFrame \notin Ch!FrameIds
      /\ DOMAIN heard' = DOMAIN heard /\ Ch!FrameIds' = Ch!FrameIds
  BY <1>1, <1>3, FrameSets DEF ObserveCompletions, ObserveAll, Ch!FrameIds
<1> HIDE DEF over
<1>5. Unsettled' = Unsettled /\ Settled' = Settled
  BY <1>1, <1>2, <1>3, <1>4 DEF Unsettled, Settled
<1>6. Apart'
  BY <1>1, <1>2, <1>3, <1>4 DEF Apart
<1>7. Newcomers'
  BY <1>1, <1>3, <1>4, <1>5 DEF AInv, Newcomers
<1>8. RxAccounting' /\ VerdictsByFlags'
  BY <1>1, <1>3, <1>5, StillStepKeepsAccounts DEF AInv
<1> QED
  BY <1>6, <1>7, <1>8 DEF AInv

(* drain_completed hands the resolved frames on.                           *)
LEMMA DrainKeepsAInv ==
  ASSUME IInv, AInv, Drain
  PROVE  AInv'
<1>1. /\ batch' = completed /\ completed' = {} /\ batch = {} /\ delivering = NoFrame
      /\ UNCHANGED <<frames, active, collided, captured, nodes, joined, tuned,
                     heard, metrics, delivering, cursor>>
  BY DEF Drain, Ch!DrainCompleted, registry, IInv, Phases
<1>2. /\ active \cap completed = {} /\ Ch!FrameIds' = Ch!FrameIds
      /\ active \subseteq Ch!FrameIds /\ completed \subseteq Ch!FrameIds
      /\ NoFrame \notin Ch!FrameIds
  BY <1>1, FrameSets DEF Ch!FrameIds
<1>3. Unsettled' = Unsettled /\ Settled' = Settled
  BY <1>1, <1>2 DEF Unsettled, Settled
<1>4. Apart'
  BY <1>1, <1>2 DEF Apart
<1>5. Newcomers'
  BY <1>1, <1>3, QuietAirKeeps DEF AInv
<1>6. RxAccounting' /\ VerdictsByFlags'
  BY <1>1, <1>3, StillStepKeepsAccounts DEF AInv
<1> QED
  BY <1>4, <1>5, <1>6 DEF AInv

(* The loops begin and end, and what is left of the queue is of no matter. *)
LEMMA BackToLoopKeepsAInv ==
  ASSUME IInv, AInv,
         UNCHANGED <<frames, active, completed, collided, captured, nodes, joined,
                     tuned, heard, metrics, batch, delivering, cursor>>
  PROVE  AInv'
<1>1. Unsettled' = Unsettled /\ Settled' = Settled
  BY DEF Unsettled, Settled, Ch!FrameIds
<1>2. Apart'
  BY DEF AInv, Apart
<1>3. Newcomers'
  BY <1>1, QuietAirKeeps DEF AInv
<1>4. RxAccounting' /\ VerdictsByFlags'
  BY <1>1, StillStepKeepsAccounts DEF AInv
<1> QED
  BY <1>2, <1>3, <1>4 DEF AInv

-----------------------------------------------------------------------------
(***************************************************************************)
(* The delivery loop.                                                      *)
(***************************************************************************)
LEMMA FramesAreFinite ==
  ASSUME IInv
  PROVE  \A S \in SUBSET Ch!FrameIds : IsFiniteSet(S)
<1>1. IsFiniteSet(Ch!FrameIds)
  BY FrameSets, FS_Interval
<1> QED
  BY <1>1, FS_Subset

(* The frame that the loop takes leaves the batch for good.                *)
LEMMA TakenFrame ==
  ASSUME IInv, Apart, NEW id, TakesFrame(id)
  PROVE  /\ id \in batch /\ batch' = batch \ {id} /\ delivering = NoFrame
         /\ completed = {} /\ id \in Ch!FrameIds /\ id # NoFrame /\ id \notin active
         /\ id \in Unsettled /\ id \notin Settled
         /\ LookedAt = Settled
         /\ UNCHANGED <<frames, active, completed, collided, captured,
                        nodes, joined, tuned, heard>>
<1>1. /\ pc = "deliver" /\ delivering = NoFrame /\ id = Min(batch) /\ batch # {}
      /\ batch' = batch \ {id}
      /\ UNCHANGED <<frames, active, completed, collided, captured,
                     nodes, joined, tuned, heard>>
  BY DEF TakesFrame, channelVars, registry
<1>2. /\ batch \subseteq Ch!FrameIds /\ Ch!FrameIds \subseteq Nat
      /\ NoFrame \notin Ch!FrameIds /\ Settled = Ch!FrameIds \ Unsettled
  BY FrameSets
<1>3. id \in batch
  <2>1. batch \in SUBSET Nat
    BY <1>2
  <2> QED
    BY <1>1, <2>1, LeastNumber
<1>4. completed = {}
  BY <1>1 DEF IInv, Phases
<1>5. id \notin active
  BY <1>3 DEF Apart
<1>6. LookedAt = Settled
  BY <1>1 DEF LookedAt
<1>7. id \in Unsettled
  BY <1>3 DEF Unsettled
<1> QED
  BY <1>1, <1>2, <1>3, <1>4, <1>5, <1>6, <1>7

(* Before a delivery begins, and after it has ended, each node has what    *)
(* it will have of the settled frames.                                     *)
LEMMA ReceivedBetween ==
  ASSUME IInv, delivering = NoFrame
  PROVE  \A i : ReceivedAt(i) =
           {f \in Settled : f > joined[i] /\ f \notin collided
                              /\ nodes[i] # frames[f].sender}
<1>1. NoFrame \notin Settled
  BY FrameSets
<1> QED
  BY <1>1 DEF ReceivedAt

(* A frame that collided is settled without anyone hearing it.             *)
LEMMA SkipCollidedSettles ==
  ASSUME IInv, Apart, NEW id \in batch, SkipCollided(id)
  PROVE  /\ Settled' = Settled \cup {id}
         /\ \A i : ReceivedAt(i)' = ReceivedAt(i)
<1>1. TakesFrame(id) /\ id \in collided /\ delivering' = delivering
  BY DEF SkipCollided
<1>2. /\ batch' = batch \ {id} /\ delivering = NoFrame
      /\ completed = {} /\ id \in Ch!FrameIds /\ id # NoFrame /\ id \notin active
      /\ id \notin Settled
      /\ UNCHANGED <<frames, active, completed, collided, nodes, joined>>
  BY <1>1, TakenFrame
<1>3. Settled = Ch!FrameIds \ Unsettled /\ NoFrame \notin Ch!FrameIds
  BY FrameSets
<1>4. Settled' = Settled \cup {id}
  BY <1>1, <1>2, <1>3 DEF Settled, Unsettled, Ch!FrameIds
<1>5. \A i : ReceivedAt(i) =
        {f \in Settled : f > joined[i] /\ f \notin collided
                           /\ nodes[i] # frames[f].sender}
  BY <1>2, ReceivedBetween
<1>6. (Settled' \cup {delivering'}) \ {NoFrame} = Settled \cup {id}
  BY <1>1, <1>2, <1>3, <1>4
<1>7. \A i : ReceivedAt(i)' =
        {f \in Settled \cup {id} : f > joined[i] /\ f \notin collided
                                      /\ nodes[i] # frames[f].sender}
  BY <1>1, <1>2, <1>3, <1>6 DEF ReceivedAt
<1> QED
  BY <1>1, <1>4, <1>5, <1>7

LEMMA SkipCollidedKeepsAInv ==
  ASSUME IInv, AInv, NEW id \in batch, SkipCollided(id)
  PROVE  AInv'
<1>1. /\ TakesFrame(id) /\ id \in collided /\ metrics' = RecordCollision(metrics)
      /\ delivering' = delivering /\ cursor' = cursor
  BY DEF SkipCollided
<1>2. /\ id \in batch /\ batch' = batch \ {id} /\ delivering = NoFrame
      /\ completed = {} /\ id \in Ch!FrameIds /\ id # NoFrame /\ id \notin active
      /\ id \notin Settled /\ LookedAt = Settled
      /\ UNCHANGED <<frames, active, completed, collided, captured,
                     nodes, joined, tuned, heard>>
  BY <1>1, TakenFrame DEF AInv
<1>3. /\ Settled = Ch!FrameIds \ Unsettled /\ Ch!FrameIds' = Ch!FrameIds
      /\ NoFrame \notin Ch!FrameIds
  BY <1>2, FrameSets DEF Ch!FrameIds
<1>4. Unsettled' = Unsettled \ {id}
  BY <1>1, <1>2 DEF Unsettled
<1>5. Settled' = Settled \cup {id} /\ LookedAt' = Settled \cup {id}
  <2>1. Settled' = Settled \cup {id}
    BY SkipCollidedSettles DEF AInv
  <2> QED
    BY <1>1, <1>2, <2>1 DEF LookedAt
<1>6. Apart' /\ Newcomers'
  <2>1. Apart'
    BY <1>1, <1>2 DEF AInv, Apart
  <2> QED
    BY <1>2, <1>4, <2>1, QuietAirKeeps DEF AInv
<1>7. /\ metrics'.rx = metrics.rx /\ metrics'.collisions = metrics.collisions + 1
      /\ metrics'.captures = metrics.captures
  BY <1>1 DEF RecordCollision, IInv, TypeOK, Counters
<1>8. VerdictsByFlags'
  <2>1. Lost' = Lost \cup {id} /\ id \notin Lost
    BY <1>1, <1>2, <1>5 DEF Lost
  <2>2. Caught' = Caught
    BY <1>1, <1>2, <1>5 DEF Caught
  <2>3. Cardinality(Lost \cup {id}) = Cardinality(Lost) + 1
    <3>1. Lost \in SUBSET Ch!FrameIds
      BY <1>3 DEF Lost
    <3>2. IsFiniteSet(Lost)
      BY <3>1, FramesAreFinite
    <3> QED
      BY <2>1, <3>2, FS_AddElement
  <2> QED
    BY <1>7, <2>1, <2>2, <2>3 DEF AInv, VerdictsByFlags
<1>9. RxAccounting'
  <2>1. \A i : ReceivedAt(i)' = ReceivedAt(i)
    BY SkipCollidedSettles DEF AInv
  <2>2. \A k : Receptions(k)' = Receptions(k)
    BY <1>2, <2>1, SameReceptions
  <2> QED
    BY <1>7, <2>2 DEF AInv, RxAccounting
<1> QED
  BY <1>6, <1>8, <1>9 DEF AInv

(* The delivery of a frame opens before the first node has heard it.       *)
LEMMA DeliveryOpens ==
  ASSUME IInv, Apart, NEW id \in batch, StartDelivery(id)
  PROVE  /\ Settled' = Settled
         /\ \A i \in DOMAIN nodes : ReceivedAt(i)' = ReceivedAt(i)
<1>1. TakesFrame(id) /\ delivering' = id /\ cursor' = 1
  BY DEF StartDelivery
<1>2. /\ batch' = batch \ {id} /\ delivering = NoFrame
      /\ completed = {} /\ id \in Ch!FrameIds /\ id # NoFrame /\ id \notin active
      /\ id \in Unsettled /\ id \notin Settled
      /\ UNCHANGED <<frames, active, completed, collided, nodes, joined>>
  BY <1>1, TakenFrame
<1>3. /\ Settled = Ch!FrameIds \ Unsettled /\ NoFrame \notin Ch!FrameIds
      /\ DOMAIN nodes = 1..Len(nodes) /\ Len(nodes) \in Nat
  BY FrameSets
<1>4. Settled' = Settled
  BY <1>1, <1>2, <1>3 DEF Settled, Unsettled, Ch!FrameIds
<1>5. \A i : ReceivedAt(i) =
        {f \in Settled : f > joined[i] /\ f \notin collided
                           /\ nodes[i] # frames[f].sender}
  BY <1>2, ReceivedBetween
<1>6. (Settled' \cup {delivering'}) \ {NoFrame} = Settled \cup {id}
  BY <1>1, <1>2, <1>3, <1>4
<1>7. \A i : ReceivedAt(i)' =
        {f \in Settled \cup {id} : /\ f > joined[i] /\ f \notin collided
                                   /\ f = id => i < 1
                                   /\ nodes[i] # frames[f].sender}
  BY <1>1, <1>2, <1>3, <1>6 DEF ReceivedAt
<1>8. \A i \in DOMAIN nodes : ~ (i < 1)
  BY <1>3
<1> QED
  BY <1>2, <1>4, <1>5, <1>7, <1>8

LEMMA StartDeliveryKeepsAInv ==
  ASSUME IInv, AInv, NEW id \in batch, StartDelivery(id)
  PROVE  AInv'
<1>1. /\ TakesFrame(id) /\ id \notin collided /\ delivering' = id /\ cursor' = 1
      /\ metrics' = IF id \in captured THEN RecordCapture(metrics) ELSE metrics
  BY DEF StartDelivery
<1>2. /\ id \in batch /\ batch' = batch \ {id} /\ delivering = NoFrame
      /\ completed = {} /\ id \in Ch!FrameIds /\ id # NoFrame /\ id \notin active
      /\ id \notin Settled /\ LookedAt = Settled
      /\ UNCHANGED <<frames, active, completed, collided, captured,
                     nodes, joined, tuned, heard>>
  BY <1>1, TakenFrame DEF AInv
<1>3. /\ Settled = Ch!FrameIds \ Unsettled /\ Ch!FrameIds' = Ch!FrameIds
      /\ NoFrame \notin Ch!FrameIds /\ DOMAIN nodes = 1..Len(nodes) /\ Len(nodes) \in Nat
  BY <1>2, FrameSets DEF Ch!FrameIds
<1>4. Unsettled' = Unsettled
  BY <1>1, <1>2 DEF Unsettled
<1>5. Settled' = Settled /\ LookedAt' = Settled \cup {id}
  <2>1. Settled' = Settled
    BY DeliveryOpens DEF AInv
  <2> QED
    BY <1>1, <1>2, <2>1 DEF LookedAt
<1>6. Apart' /\ Newcomers'
  <2>1. Apart'
    BY <1>1, <1>2 DEF AInv, Apart
  <2> QED
    BY <1>2, <1>4, <2>1, QuietAirKeeps DEF AInv
<1>7. /\ metrics'.rx = metrics.rx /\ metrics'.collisions = metrics.collisions
      /\ metrics'.captures = metrics.captures + (IF id \in captured THEN 1 ELSE 0)
  BY <1>1 DEF RecordCapture, IInv, TypeOK, Counters
<1>8. VerdictsByFlags'
  <2>1. Lost' = Lost
    BY <1>2, <1>5 DEF Lost
  <2>2. Caught' = Caught \cup (IF id \in captured THEN {id} ELSE {}) /\ id \notin Caught
    BY <1>1, <1>2, <1>5 DEF Caught
  <2>3. Cardinality(Caught \cup {id}) = Cardinality(Caught) + 1
    <3>1. Caught \in SUBSET Ch!FrameIds
      BY <1>2, <1>3 DEF Caught
    <3>2. IsFiniteSet(Caught)
      BY <3>1, FramesAreFinite
    <3> QED
      BY <2>2, <3>2, FS_AddElement
  <2>4. CASE id \in captured
    BY <1>7, <2>1, <2>2, <2>3, <2>4 DEF AInv, VerdictsByFlags
  <2>5. CASE id \notin captured
    <3>1. Caught' = Caught
      BY <2>2, <2>5
    <3>2. metrics'.captures = metrics.captures
      BY <1>1, <2>5
    <3> QED
      BY <1>7, <2>1, <3>1, <3>2 DEF AInv, VerdictsByFlags
  <2> QED
    BY <2>4, <2>5
<1>9. RxAccounting'
  <2>1. \A i \in DOMAIN nodes : ReceivedAt(i)' = ReceivedAt(i)
    BY DeliveryOpens DEF AInv
  <2>2. \A k : Receptions(k)' = Receptions(k)
    BY <1>2, <2>1, SameReceptions
  <2> QED
    BY <1>7, <2>2 DEF AInv, RxAccounting
<1> QED
  BY <1>6, <1>8, <1>9 DEF AInv

(* The sender of the frame has no part of it.                              *)
LEMMA SenderHearsNothing ==
  ASSUME IInv, NEW i \in DOMAIN nodes, SkipSender(i)
  PROVE  /\ Settled' = Settled
         /\ \A j \in DOMAIN nodes : ReceivedAt(j)' = ReceivedAt(j)
<1>1. /\ i = cursor /\ cursor' = i + 1 /\ nodes[i] = frames[delivering].sender
      /\ UNCHANGED <<frames, active, completed, collided, nodes, joined, batch, delivering>>
  BY DEF SkipSender, AtNode, IsSender, channelVars, registry
<1>2. Settled' = Settled /\ DOMAIN nodes \subseteq Nat
  BY <1>1, FrameSets DEF Settled, Ch!FrameIds
<1>3. ASSUME NEW j \in DOMAIN nodes, NEW f
      PROVE  (f = delivering => j < i + 1) /\ nodes[j] # frames[f].sender
               <=> (f = delivering => j < i) /\ nodes[j] # frames[f].sender
  <2>1. j \in Nat /\ i \in Nat
    BY <1>2
  <2>2. j < i + 1 <=> j < i \/ j = i
    BY <2>1
  <2> QED
    BY <1>1, <2>2
<1> QED
  BY <1>1, <1>2, <1>3 DEF ReceivedAt

LEMMA SkipSenderKeepsAInv ==
  ASSUME IInv, AInv, NEW i \in DOMAIN nodes, SkipSender(i)
  PROVE  AInv'
<1>1. /\ i = cursor /\ cursor' = i + 1 /\ nodes[i] = frames[delivering].sender
      /\ UNCHANGED <<frames, active, completed, collided, captured, nodes, joined, tuned,
                     heard, metrics, batch, delivering>>
  BY DEF SkipSender, AtNode, IsSender, channelVars, registry
<1>2. /\ Unsettled' = Unsettled /\ Settled' = Settled /\ LookedAt' = LookedAt
      /\ DOMAIN nodes \subseteq Nat
  BY <1>1, FrameSets DEF Unsettled, Settled, LookedAt, Ch!FrameIds
<1>3. Apart' /\ Newcomers'
  <2>1. Apart'
    BY <1>1, <1>2 DEF AInv, Apart
  <2> QED
    BY <1>1, <1>2, <2>1, QuietAirKeeps DEF AInv
<1>4. Lost' = Lost /\ Caught' = Caught
  BY <1>1, <1>2 DEF Lost, Caught
<1>5. \A j \in DOMAIN nodes : ReceivedAt(j)' = ReceivedAt(j)
  BY SenderHearsNothing
<1>6. \A k : Receptions(k)' = Receptions(k)
  BY <1>1, <1>5, SameReceptions
<1> QED
  BY <1>1, <1>3, <1>4, <1>6, SameCountsKeepAccounts DEF AInv, SameCounts

(* The frame in delivery came through, and each node that it comes to was  *)
(* there when it began: one registered later finds it after the run.       *)
LEMMA FrameInDelivery ==
  ASSUME IInv, Apart, Newcomers, delivering # NoFrame
  PROVE  /\ delivering \in Ch!FrameIds /\ delivering \in LookedAt
         /\ delivering \in Unsettled /\ delivering \notin collided
         /\ frames[delivering].end = now
         /\ \A i \in DOMAIN nodes : delivering > joined[i]
<1>1. now <= EndTime /\ delivering \in Ch!FrameIds /\ Ch!FrameIds \subseteq Nat
  BY FrameSets
<1>2. delivering \in LookedAt /\ delivering \in Unsettled /\ delivering \notin collided
  BY DEF LookedAt, Unsettled, Apart
<1>3. frames[delivering].end = now
  BY DEF IInv, DeliveredAtItsEnd
<1>4. ASSUME NEW i \in DOMAIN nodes
      PROVE  delivering > joined[i]
  <2>1. joined[i] < delivering
    BY <1>1, <1>2, <1>3 DEF Newcomers
  <2>2. joined[i] \in Nat /\ delivering \in Nat
    BY <1>1, RegistrationIsNumbered
  <2> QED
    BY <2>1, <2>2
<1> QED
  BY <1>1, <1>2, <1>3, <1>4

(* The node that the delivery has come to hears the frame, and no other.   *)
LEMMA NodeHears ==
  ASSUME IInv, Apart, Newcomers, NewFrame \/ SameAir, NEW i \in DOMAIN nodes,
         i = cursor, cursor' = i + 1, delivering # NoFrame,
         nodes[i] # frames[delivering].sender,
         UNCHANGED <<nodes, joined, batch, delivering>>
  PROVE  /\ delivering \notin ReceivedAt(i)
         /\ ReceivedAt(i)' = ReceivedAt(i) \cup {delivering}
         /\ \A j \in DOMAIN nodes \ {i} : ReceivedAt(j)' = ReceivedAt(j)
<1>1. DOMAIN nodes \subseteq Nat
  BY FrameSets
<1>2. delivering \in LookedAt /\ delivering \notin collided /\ delivering > joined[i]
  BY FrameInDelivery
<1>3. \A j : ReceivedAt(j)' =
        {f \in LookedAt :
           /\ f > joined[j]
           /\ f \notin collided
           /\ f = delivering => j < i + 1
           /\ nodes[j] # frames[f].sender}
  BY TurnKeepsReceived
<1>4. \A j : ReceivedAt(j) =
        {f \in LookedAt :
           /\ f > joined[j]
           /\ f \notin collided
           /\ f = delivering => j < i
           /\ nodes[j] # frames[f].sender}
  BY Received
<1>5. i \in Nat /\ i < i + 1 /\ ~ (i < i)
  BY <1>1
<1>6. \A j \in DOMAIN nodes \ {i} : j < i + 1 <=> j < i
  BY <1>1
<1>7. delivering \notin ReceivedAt(i)
  BY <1>4, <1>5
<1>8. ReceivedAt(i)' = ReceivedAt(i) \cup {delivering}
  BY <1>2, <1>3, <1>4, <1>5
<1>9. \A j \in DOMAIN nodes \ {i} : ReceivedAt(j)' = ReceivedAt(j)
  BY <1>3, <1>4, <1>6
<1> QED
  BY <1>7, <1>8, <1>9

(* Any other node receives it, and may reply with a frame of its own.      *)
LEMMA DeliverKeepsAInv ==
  ASSUME IInv, AInv, NEW i \in DOMAIN nodes, Deliver(i)
  PROVE  AInv'
<1>1. /\ i = cursor /\ cursor' = i + 1 /\ nodes[i] # frames[delivering].sender
      /\ delivering # NoFrame
      /\ UNCHANGED <<nodes, joined, tuned, batch, delivering>>
  BY DEF Deliver, AtNode, IsSender, registry
<1>2. /\ now \in Nat /\ now <= EndTime /\ DOMAIN nodes \subseteq Nat
      /\ nodes[i] \in NodeIds /\ metrics \in Counters
  <2>1. /\ now \in 0..EndTime /\ EndTime \in Nat /\ nodes \in Seq(NodeIds)
        /\ metrics \in Counters
    BY SchedulerAssumption DEF IInv, TypeOK, Ch!TypeOK
  <2> QED
    BY <2>1
<1>3. (NewFrame \/ SameAir) /\ SameCounts(RecordRx(metrics, nodes[i]))
  <2>1. RecordRx(metrics, nodes[i]) \in Counters
    BY <1>2, RecordingKeepsType
  <2>2. PICK answer \in Answers(now) :
          HandlePollTransmit(i, now, events, Requests(answer, "Wake", nodes[i]),
                             RecordRx(metrics, nodes[i]))
    BY DEF Deliver
  <2> QED
    BY <1>2, <2>1, <2>2, NodeOnTheAir
<1>4. /\ metrics'.rx = [metrics.rx EXCEPT ![nodes[i]] = @ + 1]
      /\ metrics'.collisions = metrics.collisions
      /\ metrics'.captures = metrics.captures
      /\ metrics.rx \in [NodeIds -> Nat]
  BY <1>2, <1>3 DEF SameCounts, RecordRx, Counters
<1>5. Apart' /\ Newcomers'
  <2>1. Apart'
    BY <1>1, <1>2, <1>3, TurnKeepsApart DEF AInv
  <2> QED
    BY <1>1, <1>3, <2>1, TurnKeepsNewcomers DEF AInv
<1>6. Lost' = Lost /\ Caught' = Caught
  BY <1>1, <1>3, TurnKeepsVerdicts DEF AInv
<1>10. /\ delivering \notin ReceivedAt(i)
       /\ ReceivedAt(i)' = ReceivedAt(i) \cup {delivering}
       /\ \A j \in DOMAIN nodes \ {i} : ReceivedAt(j)' = ReceivedAt(j)
  BY <1>1, <1>3, NodeHears DEF AInv
<1>11. RxAccounting'
  <2>1. /\ Receptions(nodes[i])' = Receptions(nodes[i]) \cup {<<delivering, i>>}
        /\ <<delivering, i>> \notin Receptions(nodes[i])
        /\ \A id : id # nodes[i] => Receptions(id)' = Receptions(id)
    BY <1>1, <1>10, OneReceptionMore
  <2>2. Cardinality(Receptions(nodes[i])') = Cardinality(Receptions(nodes[i])) + 1
    BY <2>1, ReceptionsAreFinite, FS_AddElement
  <2>3. ASSUME NEW id \in NodeIds
        PROVE  metrics'.rx[id] = Cardinality(Receptions(id)')
    <3>1. CASE id = nodes[i]
      <4>1. Receptions(id)' = Receptions(nodes[i])'
        BY <1>1, <3>1
      <4>2. metrics'.rx[id] = metrics.rx[id] + 1
        BY <1>4, <3>1
      <4> QED
        BY <2>2, <3>1, <4>1, <4>2 DEF AInv, RxAccounting
    <3>2. CASE id # nodes[i]
      BY <1>2, <1>4, <2>1, <3>2 DEF AInv, RxAccounting
    <3> QED
      BY <3>1, <3>2
  <2> QED
    BY <2>3 DEF RxAccounting
<1>12. VerdictsByFlags'
  BY <1>4, <1>6 DEF AInv, VerdictsByFlags
<1> QED
  BY <1>5, <1>11, <1>12 DEF AInv

(* The delivery closes when every node that was to hear the frame has.     *)
LEMMA DeliveryCloses ==
  ASSUME IInv, Apart, EndDelivery
  PROVE  /\ Settled' = LookedAt /\ LookedAt = Settled \cup {delivering}
         /\ \A i \in DOMAIN nodes : i < cursor /\ ReceivedAt(i)' = ReceivedAt(i)
<1>1. /\ delivering # NoFrame /\ cursor \notin DOMAIN nodes
      /\ delivering' = NoFrame /\ cursor' = 0
      /\ UNCHANGED <<frames, active, completed, collided, nodes, joined, batch>>
  BY DEF EndDelivery, channelVars, registry
<1>2. /\ Ch!FrameIds' = Ch!FrameIds /\ NoFrame \notin Ch!FrameIds
      /\ delivering \in Ch!FrameIds /\ delivering \notin active \cup completed \cup batch
      /\ active \subseteq Ch!FrameIds /\ completed \subseteq Ch!FrameIds
      /\ batch \subseteq Ch!FrameIds
  BY <1>1, FrameSets DEF Ch!FrameIds, Apart
<1>3. \A i \in DOMAIN nodes : i < cursor
  <2>1. /\ DOMAIN nodes = 1..Len(nodes) /\ Len(nodes) \in Nat /\ cursor \in Int
        /\ cursor >= 1
    BY <1>1, FrameSets DEF Apart
  <2> QED
    BY <1>1, <2>1
<1>4. LookedAt = Settled \cup {delivering}
  BY <1>1 DEF LookedAt
<1>5. Settled' = LookedAt
  <2>1. Settled' = Ch!FrameIds \ (active \cup completed \cup batch)
    BY <1>1, <1>2 DEF Settled
  <2>2. Settled = Ch!FrameIds \ (active \cup completed \cup batch \cup {delivering})
    BY DEF Settled
  <2> QED
    BY <1>2, <1>4, <2>1, <2>2
<1>6. \A i : ReceivedAt(i) =
        {f \in LookedAt :
           /\ f > joined[i]
           /\ f \notin collided
           /\ f = delivering => i < cursor
           /\ nodes[i] # frames[f].sender}
  BY Received
<1>7. \A i : ReceivedAt(i)' =
        {f \in LookedAt :
           /\ f > joined[i]
           /\ f \notin collided
           /\ f = NoFrame => i < 0
           /\ nodes[i] # frames[f].sender}
  <2>1. (Settled' \cup {delivering'}) \ {NoFrame} = LookedAt
    BY <1>1, <1>2, <1>4, <1>5 DEF Settled
  <2> QED
    BY <1>1, <2>1 DEF ReceivedAt
<1>8. NoFrame \notin LookedAt
  BY <1>2, <1>4 DEF Settled
<1>9. \A i \in DOMAIN nodes : ReceivedAt(i)' = ReceivedAt(i)
  BY <1>3, <1>6, <1>7, <1>8
<1> QED
  BY <1>3, <1>4, <1>5, <1>9

(* The delivery ends once every node had its turn.                         *)
LEMMA EndDeliveryKeepsAInv ==
  ASSUME IInv, AInv, EndDelivery
  PROVE  AInv'
<1>1. /\ delivering # NoFrame /\ cursor \notin DOMAIN nodes
      /\ delivering' = NoFrame /\ cursor' = 0
      /\ UNCHANGED <<frames, active, completed, collided, captured, nodes, joined, tuned,
                     heard, metrics, batch>>
  BY DEF EndDelivery, channelVars, registry
<1>2. /\ Settled = Ch!FrameIds \ Unsettled /\ Ch!FrameIds' = Ch!FrameIds
      /\ NoFrame \notin Ch!FrameIds /\ delivering \in Ch!FrameIds
      /\ active \subseteq Ch!FrameIds /\ completed \subseteq Ch!FrameIds
      /\ batch \subseteq Ch!FrameIds
  BY <1>1, FrameSets DEF Ch!FrameIds
<1>4. /\ delivering \notin active \cup completed \cup batch /\ delivering \notin collided
  BY <1>1 DEF AInv, Apart
<1>5. Unsettled' = Unsettled \ {delivering}
  BY <1>1, <1>4 DEF Unsettled
<1>6. Settled' = LookedAt /\ LookedAt' = LookedAt /\ LookedAt = Settled \cup {delivering}
  <2>1. Settled' = LookedAt /\ LookedAt = Settled \cup {delivering}
    BY DeliveryCloses DEF AInv
  <2> QED
    BY <1>1, <2>1 DEF LookedAt
<1>7. Apart' /\ Newcomers'
  <2>1. Apart'
    BY <1>1, <1>2 DEF AInv, Apart
  <2> QED
    BY <1>1, <1>5, <2>1, QuietAirKeeps DEF AInv
<1>8. Lost' = Lost /\ Caught' = Caught
  <2>1. Lost' = Lost
    BY <1>1, <1>4, <1>6 DEF Lost
  <2>2. Caught' = Caught
    BY <1>1, <1>6 DEF Caught
  <2> QED
    BY <2>1, <2>2
<1>9. \A i \in DOMAIN nodes : ReceivedAt(i)' = ReceivedAt(i)
  BY DeliveryCloses DEF AInv
<1>10. \A k : Receptions(k)' = Receptions(k)
  BY <1>1, <1>9, SameReceptions
<1> QED
  BY <1>1, <1>7, <1>8, <1>10, SameCountsKeepAccounts DEF AInv, SameCounts

-----------------------------------------------------------------------------
(***************************************************************************)
(* Registration.  The frames on the air then end after the run.            *)
(***************************************************************************)
LEMMA BetweenRuns ==
  ASSUME IInv, Registering
  PROVE  /\ batch = {} /\ completed = {} /\ delivering = NoFrame
         /\ Unsettled = active
         /\ \A f \in Unsettled : ~ (frames[f].end <= EndTime)
<1>1. /\ batch = {} /\ completed = {} /\ delivering = NoFrame
      /\ \A f \in active : frames[f].end > EndTime
  BY DEF Registering, IInv, Phases
<1>2. \A f \in active : ~ (frames[f].end <= EndTime)
  BY <1>1, FrameEnds DEF IInv
<1> QED
  BY <1>1, <1>2 DEF Unsettled

(* A node that is registered has heard nothing yet.                        *)
LEMMA NewcomerHasHeardNothing ==
  ASSUME IInv, NEW id \in NodeIds, AddNode(id), NEW last, last = Len(nodes) + 1
  PROVE  /\ DOMAIN nodes' = DOMAIN nodes \cup {last} /\ last \notin DOMAIN nodes
         /\ \A i \in DOMAIN nodes : nodes'[i] = nodes[i] /\ joined'[i] = joined[i]
         /\ joined'[last] = Len(frames)
         /\ Settled' = Settled
         /\ \A i \in DOMAIN nodes : ReceivedAt(i)' = ReceivedAt(i)
         /\ ReceivedAt(last)' = {}
<1>1. /\ Registering /\ nodes' = Append(nodes, id) /\ joined' = Append(joined, Len(frames))
      /\ UNCHANGED <<frames, active, completed, collided, batch, delivering, cursor>>
  BY DEF AddNode, channelVars, deliveryVars
<1>2. Settled' = Settled /\ Ch!FrameIds' = Ch!FrameIds /\ delivering = NoFrame
  BY <1>1, BetweenRuns DEF Settled, Ch!FrameIds
<1>3. /\ DOMAIN nodes' = DOMAIN nodes \cup {last} /\ last \notin DOMAIN nodes
      /\ \A i \in DOMAIN nodes : nodes'[i] = nodes[i] /\ joined'[i] = joined[i]
      /\ joined'[last] = Len(frames)
  <2>1. /\ nodes \in Seq(NodeIds) /\ joined \in Seq(Nat) /\ Len(joined) = Len(nodes)
        /\ Len(nodes) \in Nat /\ DOMAIN nodes = 1..Len(nodes) /\ Len(frames) \in Nat
    BY FrameSets
  <2>2. /\ DOMAIN nodes' = 1..(Len(nodes) + 1)
        /\ \A i \in 1..Len(nodes) : nodes'[i] = nodes[i]
    BY <1>1, <2>1
  <2>3. /\ \A i \in 1..Len(nodes) : joined'[i] = joined[i]
        /\ joined'[Len(nodes) + 1] = Len(frames)
    BY <1>1, <2>1
  <2>4. 1..(Len(nodes) + 1) = 1..Len(nodes) \cup {Len(nodes) + 1}
    BY <2>1
  <2> QED
    BY <2>1, <2>2, <2>3, <2>4
<1>4. \A i \in DOMAIN nodes : ReceivedAt(i)' = ReceivedAt(i)
  BY <1>1, <1>2, <1>3 DEF ReceivedAt
<1>5. ReceivedAt(last)' = {}
  <2>1. (Settled' \cup {delivering'}) \ {NoFrame} \subseteq Ch!FrameIds
    BY <1>1, <1>2, FrameSets
  <2>2. \A f \in Ch!FrameIds : ~ (f > Len(frames))
    BY FrameSets
  <2> QED
    BY <1>3, <2>1, <2>2 DEF ReceivedAt
<1> QED
  BY <1>2, <1>3, <1>4, <1>5

LEMMA AddNodeKeepsAInv ==
  ASSUME IInv, AInv, NEW id \in NodeIds, AddNode(id)
  PROVE  AInv'
<1> PICK last : last = Len(nodes) + 1
  OBVIOUS
<1>1. /\ Registering /\ nodes' = Append(nodes, id) /\ joined' = Append(joined, Len(frames))
      /\ UNCHANGED <<frames, active, completed, collided, captured, heard, tuned,
                     metrics, batch, delivering, cursor>>
  BY DEF AddNode, channelVars, deliveryVars
<1>2. /\ batch = {} /\ completed = {} /\ delivering = NoFrame /\ Unsettled = active
      /\ \A f \in Unsettled : ~ (frames[f].end <= EndTime)
  BY <1>1, BetweenRuns
<1>3. /\ Unsettled' = Unsettled /\ Settled' = Settled /\ LookedAt' = LookedAt
      /\ Ch!FrameIds' = Ch!FrameIds
  BY <1>1 DEF Unsettled, Settled, LookedAt, Ch!FrameIds
<1>4. /\ DOMAIN nodes' = DOMAIN nodes \cup {last} /\ last \notin DOMAIN nodes
      /\ \A i \in DOMAIN nodes : nodes'[i] = nodes[i] /\ joined'[i] = joined[i]
      /\ joined'[last] = Len(frames)
  BY NewcomerHasHeardNothing
<1>5. Apart'
  BY <1>1 DEF AInv, Apart
<1>6. Newcomers'
  <2>1. Len(frames) <= Len(frames)
    BY FrameSets
  <2>2. \A i \in DOMAIN nodes' : joined'[i] <= Len(frames')
    BY <1>1, <1>4, <2>1 DEF AInv, Newcomers
  <2> QED
    BY <1>1, <1>2, <1>3, <2>2 DEF AInv, Newcomers
<1>7. Lost' = Lost /\ Caught' = Caught
  BY <1>1, <1>3 DEF Lost, Caught
<1>8. \A k : Receptions(k)' = Receptions(k)
  <2>1. \A i \in DOMAIN nodes : ReceivedAt(i)' = ReceivedAt(i)
    BY NewcomerHasHeardNothing
  <2>2. ReceivedAt(last)' = {}
    BY NewcomerHasHeardNothing
  <2>3. \A k, r : r \in Receptions(k)' <=> r \in Receptions(k)
    <3>1. \A k, r : r \in Receptions(k) <=>
            \E i \in DOMAIN nodes : nodes[i] = k /\ \E g \in ReceivedAt(i) : r = <<g, i>>
      BY DEF Receptions
    <3>2. \A k, r : r \in Receptions(k)' <=>
            \E i \in DOMAIN nodes' : nodes'[i] = k /\ \E g \in ReceivedAt(i)' : r = <<g, i>>
      BY DEF Receptions
    <3> QED
      BY <1>4, <2>1, <2>2, <3>1, <3>2
  <2>4. ASSUME NEW k
        PROVE  Receptions(k)' = Receptions(k)
    <3>1. Receptions(k)' \subseteq Receptions(k) /\ Receptions(k) \subseteq Receptions(k)'
      BY <2>3
    <3> QED
      BY <3>1
  <2> QED
    BY <2>4
<1> QED
  BY <1>1, <1>5, <1>6, <1>7, <1>8, SameCountsKeepAccounts DEF AInv, SameCounts

LEMMA AddInterfererKeepsAInv ==
  ASSUME IInv, AInv, NEW firstPoll \in Times(now), AddInterferer(firstPoll)
  PROVE  AInv'
<1> PICK last : last = Len(heard) + 1
  OBVIOUS
<1>1. /\ Registering /\ heard' = Append(heard, << >>) /\ tuned' = Append(tuned, Len(frames))
      /\ UNCHANGED <<frames, active, completed, collided, captured, nodes, joined,
                     metrics, batch, delivering, cursor>>
  BY DEF AddInterferer, channelVars, deliveryVars
<1>2. /\ batch = {} /\ completed = {} /\ delivering = NoFrame /\ Unsettled = active
      /\ \A f \in Unsettled : ~ (frames[f].end <= EndTime)
  BY <1>1, BetweenRuns
<1>3. Unsettled' = Unsettled /\ Settled' = Settled /\ Ch!FrameIds' = Ch!FrameIds
  BY <1>1 DEF Unsettled, Settled, Ch!FrameIds
<1>4. /\ DOMAIN heard' = DOMAIN heard \cup {last} /\ last \notin DOMAIN heard
      /\ \A k \in DOMAIN heard : heard'[k] = heard[k] /\ tuned'[k] = tuned[k]
      /\ heard'[last] = << >> /\ tuned'[last] = Len(frames)
  <2>1. /\ heard \in Seq(Seq(ChannelEvent)) /\ tuned \in Seq(Nat) /\ Len(tuned) = Len(heard)
        /\ Len(heard) \in Nat /\ DOMAIN heard = 1..Len(heard) /\ Len(frames) \in Nat
    BY FrameSets DEF IInv, TypeOK
  <2>2. /\ DOMAIN heard' = 1..(Len(heard) + 1)
        /\ \A k \in 1..Len(heard) : heard'[k] = heard[k]
        /\ heard'[Len(heard) + 1] = << >>
    BY <1>1, <2>1
  <2>3. /\ \A k \in 1..Len(heard) : tuned'[k] = tuned[k]
        /\ tuned'[Len(heard) + 1] = Len(frames)
    BY <1>1, <2>1
  <2>4. 1..(Len(heard) + 1) = 1..Len(heard) \cup {Len(heard) + 1}
    BY <2>1
  <2> QED
    BY <2>1, <2>2, <2>3, <2>4
<1>5. Apart'
  BY <1>1 DEF AInv, Apart
<1>6. Newcomers'
  <2>1. Len(frames) <= Len(frames)
    BY FrameSets
  <2>2. \A k \in DOMAIN heard' : tuned'[k] <= Len(frames')
    BY <1>1, <1>4, <2>1 DEF AInv, Newcomers
  <2> QED
    BY <1>1, <1>2, <1>3, <2>2 DEF AInv, Newcomers
<1>7. RxAccounting' /\ VerdictsByFlags'
  BY <1>1, <1>3, StillStepKeepsAccounts DEF AInv
<1> QED
  BY <1>5, <1>6, <1>7 DEF AInv

-----------------------------------------------------------------------------
(* An empty scheduler has counted nothing.                                 *)
LEMMA AccountsOpenAtZero == Init => AInv
<1> SUFFICES ASSUME Init
             PROVE  AInv
  OBVIOUS
<1>1. /\ frames = << >> /\ active = {} /\ completed = {} /\ nodes = << >> /\ heard = << >>
      /\ batch = {} /\ delivering = NoFrame /\ metrics = NoMetrics
  BY DEF Init, Ch!Init
<1>2. /\ DOMAIN nodes = {} /\ DOMAIN heard = {} /\ Ch!FrameIds = {}
  BY <1>1 DEF Ch!FrameIds
<1>3. Settled = {} /\ LookedAt = {} /\ Unsettled = {}
  BY <1>1, <1>2 DEF Settled, LookedAt, Unsettled
<1>4. Lost = {} /\ Caught = {} /\ \A id : Receptions(id) = {}
  BY <1>2, <1>3 DEF Lost, Caught, Receptions
<1>5. Cardinality({}) = 0
  BY FS_EmptySet
<1>6. RxAccounting /\ VerdictsByFlags
  BY <1>1, <1>4, <1>5 DEF RxAccounting, VerdictsByFlags, NoMetrics
<1>7. Apart /\ Newcomers
  BY <1>1, <1>2, <1>3 DEF Apart, Newcomers
<1> QED
  BY <1>6, <1>7 DEF AInv

(* Every step of the scheduler keeps its books.                            *)
LEMMA StepKeepsAInv == IInv /\ AInv /\ [Next]_vars => AInv'
<1> SUFFICES ASSUME IInv, AInv, [Next]_vars
             PROVE  AInv'
  OBVIOUS
<1>1. CASE Setup
  <2>1. ASSUME NEW id \in NodeIds, AddNode(id)
        PROVE  AInv'
    BY <2>1, AddNodeKeepsAInv
  <2>2. ASSUME NEW firstPoll \in Times(now), AddInterferer(firstPoll)
        PROVE  AInv'
    BY <2>2, AddInterfererKeepsAInv
  <2>3. CASE Run
    BY <2>3, BackToLoopKeepsAInv DEF Run, channelVars, registry, deliveryVars
  <2> QED
    BY <1>1, <2>1, <2>2, <2>3 DEF Setup
<1>2. CASE Loop
  <2>1. CASE Stop
    BY <2>1, BackToLoopKeepsAInv DEF Stop, channelVars, registry, deliveryVars
  <2> QED
    BY <1>2, <2>1, PopWakeKeepsAInv, PopTxCompleteKeepsAInv, PopInterferencePollKeepsAInv
       DEF Loop
<1>3. CASE Delivery
  <2>1. ASSUME NEW id \in batch, SkipCollided(id)
        PROVE  AInv'
    BY <2>1, SkipCollidedKeepsAInv
  <2>2. ASSUME NEW id \in batch, StartDelivery(id)
        PROVE  AInv'
    BY <2>2, StartDeliveryKeepsAInv
  <2>3. ASSUME NEW i \in DOMAIN nodes, SkipSender(i)
        PROVE  AInv'
    BY <2>3, SkipSenderKeepsAInv
  <2>4. ASSUME NEW i \in DOMAIN nodes, Deliver(i)
        PROVE  AInv'
    BY <2>4, DeliverKeepsAInv
  <2>5. CASE EndBatch
    BY <2>5, BackToLoopKeepsAInv DEF EndBatch, channelVars, registry, deliveryVars
  <2> QED
    BY <1>3, <2>1, <2>2, <2>3, <2>4, <2>5, DrainKeepsAInv, EndDeliveryKeepsAInv DEF Delivery
<1>4. CASE UNCHANGED vars
  BY <1>4, BackToLoopKeepsAInv DEF vars, channelVars, registry, deliveryVars
<1> QED
  BY <1>1, <1>2, <1>3, <1>4 DEF Next

(* The books of the scheduler are kept.                                    *)
THEOREM AccountsAreKept == Spec => []AInv
BY AccountsOpenAtZero, StepKeepsAInv, Inductive, PTL DEF Spec

(***************************************************************************)
(* Each node is counted one reception for each frame that came through at  *)
(* its end while the node was there, and that another one sent.            *)
(***************************************************************************)
THEOREM ReceptionsAreCounted == Spec => []RxAccounting
<1>1. AInv => RxAccounting
  BY DEF AInv
<1> QED
  BY <1>1, AccountsAreKept, PTL

(* Two sets without a common element count for the sum.                    *)
LEMMA DisjointUnion ==
  ASSUME NEW S, NEW T, IsFiniteSet(S), IsFiniteSet(T), S \cap T = {}
  PROVE  Cardinality(S \cup T) = Cardinality(S) + Cardinality(T)
<1>1. Cardinality(S \cup T) =
        Cardinality(S) + Cardinality(T) - Cardinality(S \cap T)
  BY FS_Union
<1>2. Cardinality(S \cap T) = 0
  BY FS_EmptySet
<1>3. Cardinality(S) \in Nat /\ Cardinality(T) \in Nat
  BY FS_CardinalityType
<1>4. Cardinality(S) + Cardinality(T) - 0 = Cardinality(S) + Cardinality(T)
  BY <1>3
<1> QED
  BY <1>1, <1>2, <1>4

(* A node that alone has its identifier is counted what it received.       *)
LEMMA ReceptionsOfOneNode ==
  ASSUME IInv, NEW i \in DOMAIN nodes, \A k \in DOMAIN nodes : nodes[k] = nodes[i] => k = i
  PROVE  /\ IsFiniteSet(ReceivedAt(i))
         /\ Cardinality(Receptions(nodes[i])) = Cardinality(ReceivedAt(i))
<1>1. ReceivedAt(i) \subseteq Ch!FrameIds
  BY FrameSets DEF ReceivedAt
<1>2. IsFiniteSet(ReceivedAt(i))
  BY <1>1, FramesAreFinite
<1>3. IsFiniteSet({i}) /\ Cardinality({i}) = 1
  BY FS_Singleton
<1>4. Cardinality(ReceivedAt(i) \X {i}) = Cardinality(ReceivedAt(i)) * Cardinality({i})
  BY <1>2, <1>3, FS_Product
<1>5. Cardinality(ReceivedAt(i)) * Cardinality({i}) = Cardinality(ReceivedAt(i))
  BY <1>2, <1>3, FS_CardinalityType
<1>6. Receptions(nodes[i]) = ReceivedAt(i) \X {i}
  <2>1. {k \in DOMAIN nodes : nodes[k] = nodes[i]} = {i}
    OBVIOUS
  <2> QED
    BY <2>1 DEF Receptions
<1> QED
  BY <1>2, <1>4, <1>5, <1>6

(* The frames of a node that came through, which it does not hear itself.  *)
Spared(i) == {f \in Settled \ collided : frames[f].sender = nodes[i]}

(***************************************************************************)
(* The counters of one node that was there from the beginning and alone    *)
(* has its identifier account for every frame that ever began, whenever    *)
(* run() is not inside a handler: it heard the frame, or sent it, or it    *)
(* was lost, or it is still on the air.                                    *)
(***************************************************************************)
EveryFrameHasOneFate ==
  pc \in {"setup", "loop", "stopped"} =>
    \A i \in DOMAIN nodes :
      joined[i] = 0 /\ (\A k \in DOMAIN nodes : nodes[k] = nodes[i] => k = i) =>
        metrics.rx[nodes[i]] + Cardinality(Spared(i)) + metrics.collisions
          + Cardinality(active) = Len(frames)

LEMMA FatesAddUp ==
  ASSUME IInv, AInv
  PROVE  EveryFrameHasOneFate
<1> SUFFICES ASSUME pc \in {"setup", "loop", "stopped"}, NEW i \in DOMAIN nodes, joined[i] = 0,
                    \A k \in DOMAIN nodes : nodes[k] = nodes[i] => k = i
             PROVE  metrics.rx[nodes[i]] + Cardinality(Spared(i)) + metrics.collisions
                      + Cardinality(active) = Len(frames)
  BY DEF EveryFrameHasOneFate
<1>1. /\ Len(frames) \in Nat /\ Ch!FrameIds = 1..Len(frames) /\ NoFrame \notin Ch!FrameIds
      /\ active \subseteq Ch!FrameIds
  BY FrameSets DEF IInv, TypeOK, Ch!TypeOK
<1>2. Settled = Ch!FrameIds \ active /\ delivering = NoFrame
  BY <1>1 DEF IInv, Phases, Settled
<1>3. ReceivedAt(i) = {f \in Settled : f \notin collided /\ nodes[i] # frames[f].sender}
  BY <1>1, <1>2 DEF ReceivedAt
<1>4. /\ ReceivedAt(i) \cup Spared(i) = Settled \ collided
      /\ ReceivedAt(i) \cap Spared(i) = {}
  BY <1>3 DEF Spared
<1>5. /\ (Settled \ collided) \cup Lost = Settled /\ (Settled \ collided) \cap Lost = {}
      /\ Settled \cup active = Ch!FrameIds /\ Settled \cap active = {}
  BY <1>1, <1>2 DEF Lost
<1>6. /\ IsFiniteSet(ReceivedAt(i)) /\ IsFiniteSet(Spared(i)) /\ IsFiniteSet(Lost)
      /\ IsFiniteSet(Settled) /\ IsFiniteSet(Settled \ collided) /\ IsFiniteSet(active)
  BY <1>1, <1>2, <1>3, FramesAreFinite DEF Spared, Lost
<1>7. Cardinality(Settled \ collided) = Cardinality(ReceivedAt(i)) + Cardinality(Spared(i))
  BY <1>4, <1>6, DisjointUnion
<1>8. Cardinality(Settled) = Cardinality(Settled \ collided) + Cardinality(Lost)
  BY <1>5, <1>6, DisjointUnion
<1>9. Len(frames) = Cardinality(Settled) + Cardinality(active)
  <2>1. Cardinality(Ch!FrameIds) = Cardinality(Settled) + Cardinality(active)
    BY <1>5, <1>6, DisjointUnion
  <2>2. PICK n \in Nat : n = Len(frames)
    BY <1>1
  <2>3. Cardinality(1..n) = n
    <3>1. 1 \in Int /\ n \in Int
      OBVIOUS
    <3>2. Cardinality(1..n) = IF 1 > n THEN 0 ELSE n - 1 + 1
      BY <3>1, FS_Interval
    <3> QED
      BY <3>2
  <2> QED
    BY <1>1, <2>1, <2>2, <2>3
<1>10. /\ metrics.rx[nodes[i]] = Cardinality(ReceivedAt(i))
       /\ metrics.collisions = Cardinality(Lost)
  <2>1. nodes[i] \in NodeIds
    BY DEF IInv, TypeOK
  <2> QED
    BY <2>1, ReceptionsOfOneNode DEF AInv, RxAccounting, VerdictsByFlags
<1> QED
  BY <1>6, <1>7, <1>8, <1>9, <1>10, FS_CardinalityType

(***************************************************************************)
(* So the counters of any simulation add up, and no reply, no second run() *)
(* and no wake in the past loses a frame or counts it twice.  What a test  *)
(* of random simulations bounds, in scalability_and_metrics_tests.rs:334,  *)
(* is an equation: a receiver has no more than what was not lost.          *)
(***************************************************************************)
THEOREM CountersAddUp == Spec => []EveryFrameHasOneFate
<1> QED
  BY FatesAddUp, AccountsAreKept, Inductive, PTL

(* With true flags, what is counted by them is counted by the outcomes.    *)
LEMMA FlagsTellOutcomes ==
  ASSUME IInv, AInv, Ch!CollidedIffDestroyed, Ch!CapturedIffSurvived
  PROVE  VerdictAccounting
<1>1. Settled \subseteq Ch!FrameIds /\ LookedAt \subseteq Ch!FrameIds
  BY FrameSets DEF LookedAt
<1>2. \A f \in Ch!FrameIds : f \in collided <=> Ch!Outcome(frames, f) = "collided"
  BY DEF Ch!CollidedIffDestroyed, Ch!Outcome
<1>3. \A f \in Ch!FrameIds :
        f \notin collided /\ f \in captured <=> Ch!Outcome(frames, f) = "captured"
  BY DEF Ch!CollidedIffDestroyed, Ch!CapturedIffSurvived, Ch!Outcome
<1>4. Lost = {f \in Settled : Ch!Outcome(frames, f) = "collided"}
  BY <1>1, <1>2 DEF Lost
<1>5. Caught = {f \in LookedAt : Ch!Outcome(frames, f) = "captured"}
  BY <1>1, <1>3 DEF Caught
<1> QED
  BY <1>4, <1>5 DEF AInv, VerdictsByFlags, VerdictAccounting, Quantify, LookedAt

(***************************************************************************)
(* If callers keep the timer contract, the collisions and captures counted *)
(* are those that all the frames that ever began justify, whatever the     *)
(* order in which they began and ended.                                    *)
(***************************************************************************)
THEOREM VerdictsAreCounted ==
  ASSUME Delays \subseteq Nat
  PROVE  Spec => []VerdictAccounting
<1>1. Spec => [](Ch!CollidedIffDestroyed /\ Ch!CapturedIffSurvived)
  BY DeliveryGoesByTrueVerdicts
<1> QED
  BY <1>1, AccountsAreKept, Inductive, FlagsTellOutcomes, PTL

-----------------------------------------------------------------------------
(***************************************************************************)
(* What was sent.  The argument: an identifier that is no interferer's is  *)
(* that of nodes only, and the guards of registration keep it so; each     *)
(* frame that begins is counted in the very handler in which it begins.    *)
(***************************************************************************)
Sending ==
  /\ \A i \in DOMAIN nodes, k \in DOMAIN heard : nodes[i] # SyntheticId(k)
  /\ \A id \in NodeIds :
       (\A k \in DOMAIN heard : id # SyntheticId(k)) =>
         metrics.tx[id] = Cardinality(SentBy(id))
  /\ IsFiniteSet(OnAir)
  /\ metrics.airtime = Cardinality(OnAir)

(* A duration is a number of instants.                                     *)
LEMMA InstantsOfFrame ==
  ASSUME NEW time \in Nat, NEW duration \in Nat
  PROVE  /\ IsFiniteSet(time .. (time + duration - 1))
         /\ Cardinality(time .. (time + duration - 1)) = duration
<1> DEFINE last == time + duration - 1
<1>1. /\ time \in Int /\ last \in Int
      /\ time > last => duration = 0
      /\ last - time + 1 = duration
  OBVIOUS
<1> HIDE DEF last
<1>2. IsFiniteSet(time .. last) /\ Cardinality(time .. last) = duration
  BY <1>1, FS_Interval
<1> QED
  BY <1>2 DEF last

(* A frame that begins is one more of its sender, on the air for as long   *)
(* as it takes.                                                            *)
LEMMA BeginningIsCounted ==
  ASSUME IInv, IsFiniteSet(OnAir), NEW sender \in Senders, NEW tx \in Ch!Transmissions,
         NEW time \in Nat, Ch!BeginTransmission(sender, tx, time)
  PROVE  /\ Cardinality(SentBy(sender)') = Cardinality(SentBy(sender)) + 1
         /\ \A id : id # sender => SentBy(id)' = SentBy(id)
         /\ IsFiniteSet(OnAir')
         /\ Cardinality(OnAir') = Cardinality(OnAir) + tx.duration
<1> PICK new : new = Len(frames) + 1
  OBVIOUS
<1>1. /\ Ch!FrameIds' = Ch!FrameIds \cup {new} /\ new \notin Ch!FrameIds
      /\ \A f \in Ch!FrameIds : frames'[f] = frames[f]
      /\ frames'[new].start = time /\ frames'[new].end = time + tx.duration
      /\ frames'[new].sender = sender
  BY BeginFacts, FrameSets DEF IInv
<1>2. SentBy(sender)' = SentBy(sender) \cup {new} /\ new \notin SentBy(sender)
  BY <1>1 DEF SentBy
<1>3. \A id : id # sender => SentBy(id)' = SentBy(id)
  BY <1>1 DEF SentBy
<1>4. IsFiniteSet(SentBy(sender))
  BY FramesAreFinite DEF SentBy
<1>5. Cardinality(SentBy(sender)') = Cardinality(SentBy(sender)) + 1
  BY <1>2, <1>4, FS_AddElement
<1> DEFINE instants == time .. (time + tx.duration - 1)
<1>6. IsFiniteSet(instants) /\ Cardinality(instants) = tx.duration
  <2>1. tx.duration \in Nat
    BY TransmissionEnds
  <2> QED
    BY <2>1, InstantsOfFrame
<1> HIDE DEF instants
<1>7. IsFiniteSet({new} \X instants) /\ Cardinality({new} \X instants) = tx.duration
  <2>1. IsFiniteSet({new}) /\ Cardinality({new}) = 1
    BY FS_Singleton
  <2>2. /\ IsFiniteSet({new} \X instants)
        /\ Cardinality({new} \X instants) = Cardinality({new}) * Cardinality(instants)
    BY <1>6, <2>1, FS_Product
  <2>3. tx.duration \in Nat
    BY TransmissionEnds
  <2> QED
    BY <1>6, <2>1, <2>2, <2>3
<1>8. OnAir' = OnAir \cup ({new} \X instants) /\ OnAir \cap ({new} \X instants) = {}
  <2> DEFINE box(f)  == {f} \X (frames[f].start .. frames[f].end - 1)
             late(f) == {f} \X (frames'[f].start .. frames'[f].end - 1)
  <2>1. \A pair : pair \in OnAir <=> \E f \in Ch!FrameIds : pair \in box(f)
    BY DEF OnAir
  <2>2. \A pair : pair \in OnAir' <=> \E f \in Ch!FrameIds' : pair \in late(f)
    BY DEF OnAir
  <2>3. late(new) = {new} \X instants /\ \A f \in Ch!FrameIds : late(f) = box(f)
    <3>1. frames'[new].start .. frames'[new].end - 1 = instants
      <4>1. frames'[new].start = time /\ frames'[new].end = time + tx.duration
        BY <1>1
      <4>2. tx.duration \in Nat
        BY TransmissionEnds
      <4> QED
        BY <4>1, <4>2 DEF instants
    <3>2. \A f \in Ch!FrameIds : frames'[f] = frames[f]
      BY <1>1
    <3> QED
      BY <3>1, <3>2, Zenon
  <2> HIDE DEF box, late
  <2>4. \A pair : pair \in OnAir' <=> pair \in OnAir \/ pair \in {new} \X instants
    BY <1>1, <2>1, <2>2, <2>3
  <2>5. \A pair \in OnAir : pair[1] \in Ch!FrameIds
    BY <2>1 DEF box
  <2>6. \A pair \in {new} \X instants : pair[1] = new
    OBVIOUS
  <2> DEFINE more == {new} \X instants
  <2> HIDE DEF more
  <2>7. OnAir' = OnAir \cup more
    BY <2>4 DEF more
  <2>8. OnAir \cap more = {}
    BY <1>1, <2>5, <2>6, Zenon DEF more
  <2> QED
    BY <2>7, <2>8 DEF more
<1>9. IsFiniteSet(OnAir') /\ Cardinality(OnAir') = Cardinality(OnAir) + tx.duration
  <2>1. /\ IsFiniteSet(OnAir \cup ({new} \X instants))
        /\ Cardinality(OnAir \cup ({new} \X instants))
             = Cardinality(OnAir) + Cardinality({new} \X instants) - Cardinality({})
    BY <1>7, <1>8, FS_Union
  <2>2. Cardinality({}) = 0 /\ Cardinality(OnAir) \in Nat
    BY FS_EmptySet, FS_CardinalityType
  <2>3. tx.duration \in Nat
    BY TransmissionEnds
  <2> QED
    BY <1>7, <1>8, <2>1, <2>2, <2>3
<1> QED
  BY <1>3, <1>5, <1>9

(* A step that begins no frame counts none.                                *)
LEMMA SilenceKeepsSending ==
  ASSUME Sending, frames' = frames, nodes' = nodes, DOMAIN heard' = DOMAIN heard,
         metrics'.tx = metrics.tx, metrics'.airtime = metrics.airtime
  PROVE  Sending'
<1>1. OnAir' = OnAir /\ \A id : SentBy(id)' = SentBy(id)
  BY DEF OnAir, SentBy, Ch!FrameIds
<1>2. \A k : SyntheticId(k)' = SyntheticId(k)
  BY DEF SyntheticId
<1> QED
  BY <1>1, <1>2 DEF Sending

LEMMA NodeKeepsSending ==
  ASSUME IInv, Sending, NEW time \in Nat, NEW i \in DOMAIN nodes, NEW queue, NEW wake,
         NEW m \in Counters, m.tx = metrics.tx, m.airtime = metrics.airtime,
         HandlePollTransmit(i, time, queue, wake, m), nodes' = nodes
  PROVE  Sending'
<1>1. nodes[i] \in NodeIds /\ nodes[i] \in Senders
  BY DEF IInv, TypeOK, Senders
<1>2. CASE NodeStaysSilent(time, queue, wake, m)
  BY <1>2, SilenceKeepsSending DEF NodeStaysSilent, channelVars
<1>3. CASE NodeTransmits(i, time, queue, wake, m)
  <2>1. PICK tx \in Ch!Transmissions :
          /\ Ch!BeginTransmission(nodes[i], tx, time)
          /\ ObserveAll(<<Started(nodes[i], tx.band, time)>>)
          /\ metrics' = RecordAirtime(RecordTx(m, nodes[i]), tx.duration)
    BY <1>3 DEF NodeTransmits
  <2>2. DOMAIN heard' = DOMAIN heard /\ \A k : SyntheticId(k)' = SyntheticId(k)
    BY <2>1 DEF ObserveAll, SyntheticId
  <2>3. /\ metrics'.tx = [metrics.tx EXCEPT ![nodes[i]] = @ + 1]
        /\ metrics'.airtime = metrics.airtime + tx.duration
        /\ metrics.tx \in [NodeIds -> Nat]
    BY <2>1 DEF RecordAirtime, RecordTx, Counters
  <2>4. /\ Cardinality(SentBy(nodes[i])') = Cardinality(SentBy(nodes[i])) + 1
        /\ \A id : id # nodes[i] => SentBy(id)' = SentBy(id)
        /\ IsFiniteSet(OnAir')
        /\ Cardinality(OnAir') = Cardinality(OnAir) + tx.duration
    BY <1>1, <2>1, BeginningIsCounted DEF Sending
  <2>5. ASSUME NEW id \in NodeIds, \A k \in DOMAIN heard : id # SyntheticId(k)
        PROVE  metrics'.tx[id] = Cardinality(SentBy(id)')
    <3>1. metrics.tx[id] = Cardinality(SentBy(id))
      BY <2>5 DEF Sending
    <3>2. CASE id = nodes[i]
      <4>1. SentBy(id)' = SentBy(nodes[i])'
        BY <3>2 DEF SentBy
      <4>2. metrics'.tx[id] = metrics.tx[id] + 1
        BY <2>3, <3>2
      <4> QED
        BY <2>4, <3>1, <3>2, <4>1, <4>2
    <3>3. CASE id # nodes[i]
      BY <2>3, <2>4, <3>1, <3>3
    <3> QED
      BY <3>2, <3>3
  <2> QED
    BY <2>2, <2>3, <2>4, <2>5 DEF Sending
<1> QED
  BY <1>2, <1>3 DEF HandlePollTransmit

(* The frame of an interferer has an identifier that is no node's.         *)
LEMMA InterfererKeepsSending ==
  ASSUME IInv, Sending, NEW time \in Nat, NEW k \in DOMAIN heard, NEW queue, NEW poll,
         InterfererStaysSilent(time, queue, poll) \/ InterfererInjects(k, time, queue, poll),
         nodes' = nodes
  PROVE  Sending'
<1>1. SyntheticId(k) \in Senders
  BY InterfererIsSender
<1>2. CASE InterfererStaysSilent(time, queue, poll)
  BY <1>2, SilenceKeepsSending DEF InterfererStaysSilent, channelVars
<1>3. CASE InterfererInjects(k, time, queue, poll)
  <2>1. PICK tx \in Ch!Transmissions :
          /\ Ch!BeginTransmission(SyntheticId(k), tx, time)
          /\ ObserveAll(<<Started(SyntheticId(k), tx.band, time)>>)
          /\ metrics' = RecordAirtime(metrics, tx.duration)
    BY <1>3 DEF InterfererInjects
  <2>2. DOMAIN heard' = DOMAIN heard /\ \A j : SyntheticId(j)' = SyntheticId(j)
    BY <2>1 DEF ObserveAll, SyntheticId
  <2>3. metrics'.tx = metrics.tx /\ metrics'.airtime = metrics.airtime + tx.duration
    BY <2>1 DEF RecordAirtime, IInv, TypeOK, Counters
  <2>4. /\ \A id : id # SyntheticId(k) => SentBy(id)' = SentBy(id)
        /\ IsFiniteSet(OnAir')
        /\ Cardinality(OnAir') = Cardinality(OnAir) + tx.duration
    BY <1>1, <2>1, BeginningIsCounted DEF Sending
  <2> QED
    BY <2>2, <2>3, <2>4 DEF Sending
<1> QED
  BY <1>2, <1>3

(* The guards of add_node and add_interferer keep the identifiers apart.   *)
LEMMA RegisteringKeepsSending ==
  ASSUME IInv, Sending,
         \/ \E id \in NodeIds : AddNode(id)
         \/ \E firstPoll \in Times(now) : AddInterferer(firstPoll)
  PROVE  Sending'
<1>1. /\ frames' = frames /\ metrics' = metrics
      /\ OnAir' = OnAir /\ \A id : SentBy(id)' = SentBy(id)
      /\ \A k : SyntheticId(k)' = SyntheticId(k)
  BY DEF AddNode, AddInterferer, channelVars, OnAir, SentBy, Ch!FrameIds, SyntheticId
<1>2. /\ nodes \in Seq(NodeIds) /\ Len(nodes) \in Nat /\ DOMAIN nodes = 1..Len(nodes)
      /\ heard \in Seq(Seq(ChannelEvent)) /\ Len(heard) \in Nat /\ DOMAIN heard = 1..Len(heard)
  BY FrameSets DEF IInv, TypeOK
<1>3. CASE \E id \in NodeIds : AddNode(id)
  <2>1. PICK id \in NodeIds :
          /\ nodes' = Append(nodes, id) /\ heard' = heard
          /\ \A k \in DOMAIN heard : id # SyntheticId(k)
    BY <1>3 DEF AddNode
  <2>2. \A i \in DOMAIN nodes' :
          \/ i \in DOMAIN nodes /\ nodes'[i] = nodes[i]
          \/ nodes'[i] = id
    BY <1>2, <2>1
  <2> QED
    BY <1>1, <2>1, <2>2 DEF Sending
<1>4. CASE \E firstPoll \in Times(now) : AddInterferer(firstPoll)
  <2>1. /\ heard' = Append(heard, << >>) /\ nodes' = nodes
        /\ \A i \in DOMAIN nodes : nodes[i] # SyntheticId(Len(heard) + 1)
    BY <1>4 DEF AddInterferer
  <2>2. DOMAIN heard' = DOMAIN heard \cup {Len(heard) + 1}
    <3>1. DOMAIN heard' = 1..(Len(heard) + 1)
      BY <1>2, <2>1
    <3> QED
      BY <1>2, <3>1
  <2> QED
    BY <1>1, <2>1, <2>2 DEF Sending
<1> QED
  BY <1>3, <1>4

LEMMA StepKeepsSending == IInv /\ Sending /\ [Next]_vars => Sending'
<1> SUFFICES ASSUME IInv, Sending, [Next]_vars
             PROVE  Sending'
  OBVIOUS
<1>1. metrics \in Counters /\ now \in Nat
  <2>1. metrics \in Counters /\ now \in 0..EndTime /\ EndTime \in Nat
    BY SchedulerAssumption DEF IInv, TypeOK, Ch!TypeOK
  <2> QED
    BY <2>1
<1>2. CASE Setup
  <2>1. CASE Run
    BY <2>1, SilenceKeepsSending DEF Run, channelVars, registry
  <2> QED
    BY <1>2, <2>1, RegisteringKeepsSending DEF Setup
<1>3. ASSUME NEW e \in events, PopWake(e)
      PROVE  Sending'
  <2>1. e.time \in Nat /\ Registered(e) /\ e.kind = "Wake" /\ nodes' = nodes
    BY <1>3, PoppedEvent DEF PopWake, registry
  <2>2. FindNode(e.who) \in DOMAIN nodes
    BY <2>1, FindNodeFinds DEF IInv, TypeOK, Registered
  <2>3. PICK answer \in Answers(e.time) :
          HandlePollTransmit(FindNode(e.who), e.time, events \ {e},
                             Requests(answer, "Wake", e.who), metrics)
    BY <1>3 DEF PopWake
  <2> QED
    BY <1>1, <2>1, <2>2, <2>3, NodeKeepsSending
<1>4. ASSUME NEW e \in events, PopInterferencePoll(e)
      PROVE  Sending'
  <2>1. /\ e.time \in Nat /\ Registered(e) /\ e.kind = "InterferencePoll"
        /\ nodes' = nodes
    BY <1>4, PoppedEvent DEF PopInterferencePoll, registry
  <2>2. e.who \in DOMAIN heard
    BY <2>1 DEF Registered
  <2>3. PICK answer \in Answers(e.time) :
          \/ InterfererStaysSilent(e.time, events \ {e},
                                   Requests(answer, "InterferencePoll", e.who))
          \/ InterfererInjects(e.who, e.time, events \ {e},
                               Requests(answer, "InterferencePoll", e.who))
    BY <1>4 DEF PopInterferencePoll
  <2> QED
    BY <2>1, <2>2, <2>3, InterfererKeepsSending
<1>5. ASSUME NEW e \in events, PopTxComplete(e)
      PROVE  Sending'
  BY <1>5, SilenceKeepsSending DEF PopTxComplete, Ch!ResolveAt, ObserveCompletions, ObserveAll, registry
<1>6. CASE Loop
  <2>1. CASE Stop
    BY <2>1, SilenceKeepsSending DEF Stop, channelVars, registry
  <2> QED
    BY <1>3, <1>4, <1>5, <1>6, <2>1 DEF Loop
<1>7. ASSUME NEW id \in batch, SkipCollided(id) \/ StartDelivery(id)
      PROVE  Sending'
  <2>1. metrics'.tx = metrics.tx /\ metrics'.airtime = metrics.airtime
    BY <1>1, <1>7 DEF SkipCollided, StartDelivery, RecordCollision, RecordCapture, Counters
  <2> QED
    BY <1>7, <2>1, SilenceKeepsSending
       DEF SkipCollided, StartDelivery, TakesFrame, channelVars, registry
<1>8. ASSUME NEW i \in DOMAIN nodes, Deliver(i)
      PROVE  Sending'
  <2>1. PICK answer \in Answers(now) :
          HandlePollTransmit(i, now, events, Requests(answer, "Wake", nodes[i]),
                             RecordRx(metrics, nodes[i]))
    BY <1>8 DEF Deliver
  <2>2. nodes[i] \in NodeIds /\ nodes' = nodes
    BY <1>8 DEF IInv, TypeOK, Deliver, AtNode, registry
  <2>3. /\ RecordRx(metrics, nodes[i]) \in Counters
        /\ RecordRx(metrics, nodes[i]).tx = metrics.tx
        /\ RecordRx(metrics, nodes[i]).airtime = metrics.airtime
    BY <1>1, <2>2, RecordingKeepsType DEF RecordRx, Counters
  <2> QED
    BY <1>1, <2>1, <2>2, <2>3, NodeKeepsSending
<1>9. CASE Delivery
  <2>1. CASE Drain
    BY <2>1, SilenceKeepsSending DEF Drain, Ch!DrainCompleted, registry
  <2>2. ASSUME NEW i \in DOMAIN nodes, SkipSender(i)
        PROVE  Sending'
    BY <2>2, SilenceKeepsSending DEF SkipSender, AtNode, channelVars, registry
  <2>3. CASE EndDelivery \/ EndBatch
    BY <2>3, SilenceKeepsSending DEF EndDelivery, EndBatch, channelVars, registry
  <2> QED
    BY <1>7, <1>8, <1>9, <2>1, <2>2, <2>3 DEF Delivery
<1>10. CASE UNCHANGED vars
  BY <1>10, SilenceKeepsSending DEF vars, channelVars, registry
<1> QED
  BY <1>2, <1>6, <1>9, <1>10 DEF Next

LEMMA NothingSentYet == Init => Sending
<1> SUFFICES ASSUME Init
             PROVE  Sending
  OBVIOUS
<1>1. /\ frames = << >> /\ nodes = << >> /\ heard = << >> /\ metrics = NoMetrics
  BY DEF Init, Ch!Init
<1>2. OnAir = {} /\ \A id : SentBy(id) = {}
  BY <1>1 DEF OnAir, SentBy, Ch!FrameIds
<1>3. /\ metrics.airtime = 0
      /\ \A id \in NodeIds : metrics.tx[id] = 0
  BY <1>1 DEF NoMetrics
<1>4. IsFiniteSet({}) /\ Cardinality({}) = 0
  BY FS_EmptySet
<1>5. IsFiniteSet(OnAir) /\ Cardinality(OnAir) = 0
  BY <1>2, <1>4
<1>6. \A id \in NodeIds : Cardinality(SentBy(id)) = 0
  BY <1>2, <1>4
<1>7. \A i \in DOMAIN nodes, k \in DOMAIN heard : nodes[i] # SyntheticId(k)
  BY <1>1
<1> QED
  BY <1>3, <1>5, <1>6, <1>7 DEF Sending

LEMMA SendingIsKept == Spec => []Sending
BY NothingSentYet, StepKeepsSending, Inductive, PTL DEF Spec

(***************************************************************************)
(* tx counts the frames of each node, and none of an interferer, though    *)
(* both are told apart by the identifier alone; the airtime is that of all *)
(* frames.                                                                 *)
(***************************************************************************)
THEOREM TransmissionsAreCounted == Spec => []TxAccounting
<1>1. IInv /\ Sending => TxAccounting
  <2> SUFFICES ASSUME IInv, Sending
               PROVE  TxAccounting
    OBVIOUS
  <2>1. \A i \in DOMAIN nodes : nodes[i] \in NodeIds
    BY DEF IInv, TypeOK
  <2> QED
    BY <2>1 DEF Sending, TxAccounting
<1> QED
  BY <1>1, SendingIsKept, Inductive, PTL

-----------------------------------------------------------------------------
(***************************************************************************)
(* The order in which frames are settled, if callers keep the timer        *)
(* contract.  The argument: what is off the air ended before all that is   *)
(* on the air, since a frame that begins ends no earlier than now; and the *)
(* frames of a batch, all of one end, are taken from the least up.         *)
(***************************************************************************)
OffTheAir == Ch!FrameIds \ active

Ordered ==
  /\ \A f \in OffTheAir : frames[f].end <= now
  /\ \A f \in OffTheAir, g \in active : EarlierEnd(f, g)
  /\ \A f \in Settled, g \in OffTheAir \ Settled : EarlierEnd(f, g)
  /\ delivering # NoFrame => \A g \in batch : EarlierEnd(delivering, g)

LEMMA FrameTimes ==
  ASSUME IInv
  PROVE  now \in Nat /\ \A f \in Ch!FrameIds : f \in Nat /\ frames[f].end \in Nat
<1>1. frames \in Seq(Ch!Frame) /\ now \in 0..EndTime /\ EndTime \in Nat
  BY SchedulerAssumption DEF IInv, TypeOK, Ch!TypeOK
<1>2. \A f \in Ch!FrameIds : frames[f] \in Ch!Frame
  BY <1>1 DEF Ch!FrameIds
<1> QED
  BY <1>1, <1>2, FrameSets DEF Ch!Frame

(* As long as frames keep their ends they keep their order.                *)
LEMMA SameOrder ==
  ASSUME \A f \in Ch!FrameIds : frames'[f] = frames[f]
  PROVE  \A f, g \in Ch!FrameIds : EarlierEnd(f, g)' <=> EarlierEnd(f, g)
BY DEF EarlierEnd

(* A step that moves no frame, while the clock may go on.                  *)
LEMMA StillStepKeepsOrder ==
  ASSUME IInv, Ordered, now <= now', now' \in Nat,
         UNCHANGED <<frames, active, completed, batch, delivering>>
  PROVE  Ordered'
<1>1. /\ OffTheAir' = OffTheAir /\ Settled' = Settled /\ OffTheAir \subseteq Ch!FrameIds
      /\ \A f, g : EarlierEnd(f, g)' <=> EarlierEnd(f, g)
  BY DEF OffTheAir, Settled, EarlierEnd, Ch!FrameIds
<1>2. \A f \in OffTheAir : frames[f].end <= now'
  BY <1>1, FrameTimes DEF Ordered
<1> QED
  BY <1>1, <1>2 DEF Ordered

LEMMA TurnKeepsOrder ==
  ASSUME IInv, Ordered, NEW time \in Nat, now <= time, NEW queue, Turn(time, queue),
         UNCHANGED <<batch, delivering>>
  PROVE  Ordered'
<1>1. CASE KeepsQuiet(time)
  BY <1>1, StillStepKeepsOrder DEF KeepsQuiet, channelVars
<1>2. CASE \E requests \in Seq(RequestSet) : Begins(time, requests)
  <2> PICK new : new = Len(frames) + 1
    OBVIOUS
  <2>1. PICK sender \in Senders, tx \in Ch!Transmissions :
          Ch!BeginTransmission(sender, tx, time)
    BY <1>2 DEF Begins
  <2>2. /\ now' = time /\ completed' = completed /\ active' = active \cup {new}
        /\ Ch!FrameIds' = Ch!FrameIds \cup {new}
        /\ \A f \in Ch!FrameIds : frames'[f] = frames[f]
        /\ frames'[new].end = time + tx.duration
    BY <2>1, BeginFacts DEF IInv
  <2>3. /\ new \notin Ch!FrameIds /\ new # NoFrame /\ \A f \in Ch!FrameIds : f < new
        /\ batch \subseteq Ch!FrameIds /\ delivering \in Ch!FrameIds \cup {NoFrame}
        /\ active \subseteq Ch!FrameIds
    BY FrameSets DEF NoFrame
  <2>4. OffTheAir' = OffTheAir /\ Settled' = Settled
    BY <2>2, <2>3 DEF OffTheAir, Settled
  <2>5. OffTheAir \subseteq Ch!FrameIds /\ Settled \subseteq Ch!FrameIds
    BY DEF OffTheAir, Settled
  <2>6. \A f, g \in Ch!FrameIds : EarlierEnd(f, g)' <=> EarlierEnd(f, g)
    BY <2>2, SameOrder
  <2>7. ASSUME NEW f \in OffTheAir
        PROVE  frames'[f].end <= now' /\ EarlierEnd(f, new)'
    <3>1. frames[f].end <= now /\ frames'[f] = frames[f] /\ f < new
      BY <2>2, <2>3, <2>5, <2>7 DEF Ordered
    <3>2. frames[f].end \in Nat /\ now \in Nat
      BY <2>5, <2>7, FrameTimes
    <3>3. tx.duration \in Nat
      BY TransmissionEnds
    <3>4. frames[f].end <= time /\ frames[f].end <= time + tx.duration
      BY <3>1, <3>2, <3>3
    <3> QED
      BY <2>2, <3>1, <3>2, <3>3, <3>4 DEF EarlierEnd
  <2>8. \A f \in OffTheAir', g \in active' : EarlierEnd(f, g)'
    BY <2>2, <2>3, <2>4, <2>5, <2>6, <2>7 DEF Ordered
  <2>9. \A f \in Settled', g \in OffTheAir' \ Settled' : EarlierEnd(f, g)'
    BY <2>4, <2>5, <2>6 DEF Ordered
  <2>10. ASSUME delivering # NoFrame, NEW g \in batch
         PROVE  EarlierEnd(delivering, g)'
    <3>1. PICK d \in Ch!FrameIds : d = delivering
      BY <2>3, <2>10
    <3>2. EarlierEnd(d, g)'
      BY <2>3, <2>6, <2>10, <3>1 DEF Ordered
    <3> QED
      BY <3>1, <3>2 DEF EarlierEnd
  <2>11. \A f \in OffTheAir' : frames'[f].end <= now'
    BY <2>4, <2>7
  <2> QED
    BY <2>8, <2>9, <2>10, <2>11 DEF Ordered
<1> QED
  BY <1>1, <1>2 DEF Turn

(* What leaves the air ends now, and what stays on it ends later.          *)
LEMMA PopTxCompleteKeepsOrder ==
  ASSUME ContractKept, IInv, Ordered, NEW e \in events, PopTxComplete(e)
  PROVE  Ordered'
<1> DEFINE over == Ch!Over(e.time)
<1>1. /\ e.time \in Nat /\ now <= e.time
      /\ \A f \in active : frames[f].end \in Nat /\ e.time <= frames[f].end
      /\ completed = {} /\ batch = {} /\ delivering = NoFrame
  <2>1. Pops(e, "TxComplete") /\ now \in Nat
    BY FrameTimes DEF PopTxComplete
  <2>2. e.time \in now..EndTime /\ EndTime \in Nat
    BY <2>1, PoppedEvent, SchedulerAssumption
  <2> QED
    BY <2>1, <2>2, PoppedEvent
<1>2. /\ now' = e.time /\ frames' = frames /\ active' = active \ over
      /\ completed' = over /\ batch' = {} /\ delivering' = NoFrame
      /\ over = {f \in active : frames[f].end <= e.time}
  BY <1>1 DEF PopTxComplete, Ch!ResolveAt, deliveryVars, Ch!Over
<1> HIDE DEF over
<1>3. /\ active \subseteq Ch!FrameIds /\ NoFrame \notin Ch!FrameIds
      /\ Ch!FrameIds' = Ch!FrameIds
  BY <1>2, FrameSets DEF Ch!FrameIds
<1>4. OffTheAir' = OffTheAir \cup over /\ Settled' = Settled /\ Settled \subseteq OffTheAir
  BY <1>1, <1>2, <1>3 DEF OffTheAir, Settled
<1>5. \A f, g : EarlierEnd(f, g)' <=> EarlierEnd(f, g)
  BY <1>2 DEF EarlierEnd
<1>6. \A f \in OffTheAir' : frames[f].end <= e.time
  <2>1. \A f \in OffTheAir : frames[f].end \in Nat /\ frames[f].end <= now
    BY FrameTimes DEF OffTheAir, Ordered
  <2>2. now \in Nat
    BY FrameTimes
  <2> QED
    BY <1>1, <1>2, <1>4, <2>1, <2>2
<1>7. \A f \in OffTheAir', g \in active' : EarlierEnd(f, g)
  <2>1. \A f \in over, g \in active \ over : frames[f].end < frames[g].end
    BY <1>1, <1>2
  <2> QED
    BY <1>2, <1>4, <2>1 DEF Ordered, EarlierEnd
<1>8. \A f \in Settled, g \in OffTheAir' \ Settled : EarlierEnd(f, g)
  BY <1>2, <1>4 DEF Ordered
<1> QED
  BY <1>2, <1>4, <1>5, <1>6, <1>7, <1>8 DEF Ordered

(* drain_completed moves frames from one place off the air to another.     *)
LEMMA DrainKeepsOrder ==
  ASSUME IInv, Ordered, Drain
  PROVE  Ordered'
<1>1. /\ batch' = completed /\ completed' = {} /\ batch = {} /\ delivering = NoFrame
      /\ UNCHANGED <<now, frames, active, delivering>>
  BY DEF Drain, Ch!DrainCompleted, IInv, Phases
<1>2. OffTheAir' = OffTheAir /\ Settled' = Settled
  BY <1>1 DEF OffTheAir, Settled, Ch!FrameIds
<1>3. \A f, g : EarlierEnd(f, g)' <=> EarlierEnd(f, g)
  BY <1>1 DEF EarlierEnd
<1> QED
  BY <1>1, <1>2, <1>3 DEF Ordered

(* The least frame of a batch is before the others, which end with it.     *)
LEMMA TakenFrameIsFirst ==
  ASSUME IInv, AInv, Ordered, NEW id, TakesFrame(id)
  PROVE  /\ \A g \in batch \ {id} : EarlierEnd(id, g)
         /\ \A g \in OffTheAir \ (Settled \cup {id}) : g \in batch \ {id}
<1>1. /\ id \in batch /\ id = Min(batch) /\ delivering = NoFrame /\ completed = {}
      /\ batch \subseteq Ch!FrameIds
  BY TakenFrame, FrameSets DEF AInv, TakesFrame
<1>2. \A g \in batch : g \in Nat /\ frames[g].end = now /\ now \in Nat
  BY <1>1, FrameTimes DEF IInv, DeliveredAtItsEnd
<1>3. \A g \in batch : id <= g
  <2>1. batch \in SUBSET Nat /\ batch # {}
    BY <1>1, <1>2
  <2> QED
    BY <1>1, <2>1, LeastNumber
<1>4. ASSUME NEW g \in batch \ {id}
      PROVE  EarlierEnd(id, g)
  <2>1. frames[id].end = frames[g].end /\ id \in Nat /\ g \in Nat
    BY <1>1, <1>2
  <2>2. id <= g /\ id # g
    BY <1>3
  <2> QED
    BY <2>1, <2>2 DEF EarlierEnd
<1>5. ASSUME NEW g \in OffTheAir \ (Settled \cup {id})
      PROVE  g \in batch \ {id}
  <2>1. g \in Ch!FrameIds /\ g \notin active /\ g # NoFrame
    BY FrameSets DEF OffTheAir
  <2>2. g \in active \cup completed \cup batch \cup {delivering}
    BY <2>1 DEF Settled
  <2> QED
    BY <1>1, <2>1, <2>2
<1> QED
  BY <1>4, <1>5

LEMMA TakingKeepsOrder ==
  ASSUME IInv, AInv, Ordered, NEW id \in batch, SkipCollided(id) \/ StartDelivery(id)
  PROVE  Ordered'
<1>1. TakesFrame(id)
  BY DEF SkipCollided, StartDelivery
<1>2. /\ batch' = batch \ {id} /\ delivering = NoFrame /\ completed = {}
      /\ id \in Ch!FrameIds /\ id # NoFrame /\ id \notin active
      /\ id \notin Settled
      /\ UNCHANGED <<now, frames, active, completed>>
  BY <1>1, TakenFrame DEF AInv, TakesFrame
<1>3. /\ \A g \in batch \ {id} : EarlierEnd(id, g)
      /\ \A g \in OffTheAir \ (Settled \cup {id}) : g \in batch \ {id}
  BY <1>1, TakenFrameIsFirst
<1>4. OffTheAir' = OffTheAir /\ \A f, g : EarlierEnd(f, g)' <=> EarlierEnd(f, g)
  BY <1>2 DEF OffTheAir, EarlierEnd, Ch!FrameIds
<1>5. CASE SkipCollided(id)
  <2>1. delivering' = NoFrame
    BY <1>2, <1>5 DEF SkipCollided
  <2>2. Settled' = Settled \cup {id}
    BY <1>2, <2>1, FrameSets DEF Settled, Ch!FrameIds
  <2> QED
    BY <1>2, <1>3, <1>4, <2>1, <2>2 DEF Ordered
<1>6. CASE StartDelivery(id)
  <2>1. delivering' = id
    BY <1>6 DEF StartDelivery
  <2>2. Settled' = Settled
    BY <1>2, <2>1, FrameSets DEF Settled, Ch!FrameIds
  <2> QED
    BY <1>2, <1>3, <1>4, <2>1, <2>2 DEF Ordered
<1> QED
  BY <1>5, <1>6

LEMMA EndDeliveryKeepsOrder ==
  ASSUME IInv, AInv, Ordered, EndDelivery
  PROVE  Ordered'
<1>1. /\ delivering # NoFrame /\ delivering' = NoFrame
      /\ UNCHANGED <<now, frames, active, completed, batch>>
      /\ completed = {}
  BY DEF EndDelivery, channelVars, IInv, Phases
<1>2. OffTheAir' = OffTheAir /\ \A f, g : EarlierEnd(f, g)' <=> EarlierEnd(f, g)
  BY <1>1 DEF OffTheAir, EarlierEnd, Ch!FrameIds
<1>3. /\ delivering \in Ch!FrameIds /\ NoFrame \notin Ch!FrameIds
      /\ delivering \notin active \cup completed \cup batch
  BY <1>1, FrameSets DEF AInv, Apart
<1>4. Settled' = Settled \cup {delivering} /\ delivering \in OffTheAir
  BY <1>1, <1>3 DEF Settled, OffTheAir, Ch!FrameIds
<1>5. \A g \in OffTheAir \ Settled' : g \in batch
  BY <1>1, <1>4 DEF OffTheAir, Settled
<1> QED
  BY <1>1, <1>2, <1>4, <1>5 DEF Ordered

LEMMA StepKeepsOrder == ContractKept /\ IInv /\ AInv /\ Ordered /\ [Next]_vars => Ordered'
<1> SUFFICES ASSUME ContractKept, IInv, AInv, Ordered, [Next]_vars
             PROVE  Ordered'
  OBVIOUS
<1>1. now \in Nat /\ now <= now
  BY FrameTimes
<1>2. ASSUME UNCHANGED <<now, channelVars, batch, delivering>>
      PROVE  Ordered'
  BY <1>1, <1>2, StillStepKeepsOrder DEF channelVars
<1>3. CASE Setup
  BY <1>2, <1>3 DEF Setup, AddNode, AddInterferer, Run, deliveryVars
<1>4. ASSUME NEW e \in events, NEW kind, Pops(e, kind)
      PROVE  e.time \in Nat /\ now <= e.time
  <2>1. e.time \in now..EndTime /\ EndTime \in Nat
    BY <1>4, PoppedEvent, SchedulerAssumption
  <2> QED
    BY <1>1, <2>1
<1>5. ASSUME NEW e \in events, PopWake(e)
      PROVE  Ordered'
  <2>1. e.time \in Nat /\ now <= e.time /\ UNCHANGED <<batch, delivering>>
    BY <1>4, <1>5 DEF PopWake, deliveryVars
  <2> QED
    BY <1>5, <2>1, WakeIsTurn, TurnKeepsOrder
<1>6. ASSUME NEW e \in events, PopInterferencePoll(e)
      PROVE  Ordered'
  <2>1. e.time \in Nat /\ now <= e.time /\ UNCHANGED <<batch, delivering>>
    BY <1>4, <1>6 DEF PopInterferencePoll, deliveryVars
  <2> QED
    BY <1>6, <2>1, PollIsTurn, TurnKeepsOrder
<1>7. CASE Loop
  <2>1. CASE Stop
    BY <1>2, <2>1 DEF Stop, deliveryVars
  <2> QED
    BY <1>5, <1>6, <1>7, <2>1, PopTxCompleteKeepsOrder DEF Loop
<1>8. ASSUME NEW i \in DOMAIN nodes, Deliver(i)
      PROVE  Ordered'
  <2>1. UNCHANGED <<batch, delivering>>
    BY <1>8 DEF Deliver, AtNode
  <2> QED
    BY <1>1, <1>8, <2>1, DeliveryIsTurn, TurnKeepsOrder
<1>9. CASE Delivery
  <2>1. ASSUME NEW i \in DOMAIN nodes, SkipSender(i)
        PROVE  Ordered'
    BY <1>2, <2>1 DEF SkipSender, AtNode
  <2>2. CASE EndBatch
    BY <1>2, <2>2 DEF EndBatch, deliveryVars
  <2> QED
    BY <1>8, <1>9, <2>1, <2>2, DrainKeepsOrder, TakingKeepsOrder, EndDeliveryKeepsOrder
       DEF Delivery
<1>10. CASE UNCHANGED vars
  BY <1>2, <1>10 DEF vars, deliveryVars
<1> QED
  BY <1>3, <1>7, <1>9, <1>10 DEF Next

(* What is known of the order of frames, in every state of a run.          *)
LEMMA OrderIsKept ==
  ASSUME Delays \subseteq Nat
  PROVE  Spec => []Ordered
<1>1. Init => Ordered
  BY DEF Init, Ch!Init, Ordered, OffTheAir, Settled, Ch!FrameIds
<1>2. IInv /\ AInv /\ Ordered /\ [Next]_vars => Ordered'
  BY StepKeepsOrder DEF ContractKept
<1> QED
  BY <1>1, <1>2, Inductive, AccountsAreKept, PTL DEF Spec

(***************************************************************************)
(* If callers keep the timer contract the frames are settled, delivered or *)
(* counted as lost, in the order of their ends and of their beginnings,    *)
(* whatever the order in which their completions were queued.              *)
(***************************************************************************)
THEOREM FramesSettleInOrder ==
  ASSUME Delays \subseteq Nat
  PROVE  Spec => []SettledInOrder
<1>1. Ordered => SettledInOrder
  <2> SUFFICES ASSUME Ordered, NEW f \in Settled, NEW g \in Ch!FrameIds \ Settled
               PROVE  EarlierEnd(f, g)
    BY DEF SettledInOrder
  <2>1. f \in OffTheAir
    BY DEF Settled, OffTheAir
  <2> QED
    BY <2>1 DEF Ordered, OffTheAir
<1> QED
  BY <1>1, OrderIsKept, PTL

-----------------------------------------------------------------------------
(***************************************************************************)
(* What observers are told, if callers keep the timer contract.  The       *)
(* argument: each frame that begins is the next one of all, and each batch *)
(* that ends is later than all that ended before and told from the least   *)
(* number up, which is the order of EarlierEnd since they end together.    *)
(***************************************************************************)
TimesPast(news) == \A n \in DOMAIN news : news[n].time <= now

Observing ==
  /\ ObserversTrackTheAir
  /\ \A k \in DOMAIN heard : TimesPast(heard[k])

(* What is counted of the events told grows with those that are told.      *)
LEMMA ToldIsANumber ==
  ASSUME NEW news, NEW kind, NEW n \in Nat
  PROVE  Told(news, kind, n) \in Nat /\ IsFiniteSet({m \in 1..n : news[m].kind = kind})
<1>1. 1 \in Int /\ n \in Int
  OBVIOUS
<1>2. IsFiniteSet({m \in 1..n : news[m].kind = kind})
  BY <1>1, FS_Interval, FS_Subset
<1> QED
  BY <1>2, FS_CardinalityType DEF Told

LEMMA ToldBefore ==
  ASSUME NEW news, NEW longer, NEW n \in Nat, \A m \in 1..n : longer[m] = news[m],
         NEW kind
  PROVE  Told(longer, kind, n) = Told(news, kind, n)
<1>1. \A m \in 1..n : longer[m].kind = kind <=> news[m].kind = kind
  OBVIOUS
<1> QED
  BY <1>1 DEF Told

LEMMA ToldMore ==
  ASSUME NEW news, NEW n \in Nat, NEW upTo \in Nat, n <= upTo, NEW kind,
         \A m \in (n + 1)..upTo : news[m].kind = kind
  PROVE  Told(news, kind, upTo) = Told(news, kind, n) + (upTo - n)
<1> DEFINE old == {m \in 1..n : news[m].kind = kind}
           all == {m \in 1..upTo : news[m].kind = kind}
           new == (n + 1)..upTo
<1>1. all = old \cup new /\ old \cap new = {}
  OBVIOUS
<1>2. IsFiniteSet(new) /\ Cardinality(new) = upTo - n
  <2>1. n + 1 \in Int /\ upTo \in Int
    OBVIOUS
  <2>2. IsFiniteSet(new) /\ Cardinality(new) = IF n + 1 > upTo THEN 0 ELSE upTo - (n + 1) + 1
    BY <2>1, FS_Interval
  <2> QED
    BY <2>2
<1>3. IsFiniteSet(old)
  BY ToldIsANumber
<1> HIDE DEF new
<1>4. Cardinality(all) = Cardinality(old) + Cardinality(new)
  BY <1>1, <1>2, <1>3, DisjointUnion
<1> QED
  BY <1>2, <1>4 DEF Told

LEMMA ToldNoMore ==
  ASSUME NEW news, NEW n \in Nat, NEW upTo \in Nat, n <= upTo, NEW kind,
         \A m \in (n + 1)..upTo : news[m].kind # kind
  PROVE  Told(news, kind, upTo) = Told(news, kind, n)
<1>1. {m \in 1..upTo : news[m].kind = kind} = {m \in 1..n : news[m].kind = kind}
  OBVIOUS
<1> QED
  BY <1>1 DEF Told

(* The frames begun since an observer was registered.                      *)
LEMMA BegunSince ==
  ASSUME IInv, NEW since \in Nat, since <= Len(frames)
  PROVE  /\ IsFiniteSet({f \in Ch!FrameIds : f > since})
         /\ since + Cardinality({f \in Ch!FrameIds : f > since}) = Len(frames)
<1> DEFINE begun == {f \in Ch!FrameIds : f > since}
<1>1. Len(frames) \in Nat /\ Ch!FrameIds = 1..Len(frames)
  BY FrameSets
<1>2. begun = (since + 1)..Len(frames)
  BY <1>1
<1> HIDE DEF begun
<1>3. since + 1 \in Int /\ Len(frames) \in Int
  BY <1>1
<1>4. /\ IsFiniteSet(begun)
      /\ Cardinality(begun) =
           IF since + 1 > Len(frames) THEN 0 ELSE Len(frames) - (since + 1) + 1
  BY <1>2, <1>3, FS_Interval
<1>5. since + Cardinality(begun) = Len(frames)
  BY <1>1, <1>4
<1> QED
  BY <1>4, <1>5 DEF begun

(* A step that leaves the air alone, the clock apart.                      *)
LEMMA StillAirIsTracked ==
  ASSUME UNCHANGED <<frames, active, collided>>, NEW news, NEW since
  PROVE  TracksTheAir(news, since)' <=> TracksTheAir(news, since)
<1>1. Ch!FrameIds' = Ch!FrameIds /\ \A f : Completed(f)' = Completed(f)
  BY DEF Ch!FrameIds, Completed
<1>2. \A f, ended : UpTo(f, ended)' = UpTo(f, ended)
  BY DEF UpTo, EarlierEnd
<1> QED
  BY <1>1, <1>2 DEF TracksTheAir

(* A frame begins, and is told.                                            *)
LEMMA BeginningIsTracked ==
  ASSUME IInv, NewFrame, NEW news \in Seq(ChannelEvent), NEW since \in Nat,
         since <= Len(frames), TracksTheAir(news, since), TimesPast(news),
         now <= now', now' \in Nat,
         NEW event, event = Started(frames'[Len(frames) + 1].sender,
                                    frames'[Len(frames) + 1].band, now'),
         frames'[Len(frames) + 1].start = now',
         event \in ChannelEvent
  PROVE  TracksTheAir(news \o <<event>>, since)' /\ TimesPast(news \o <<event>>)'
<1> DEFINE longer == news \o <<event>>
           last   == Len(news)
           new    == Len(frames) + 1
           begun  == {f \in Ch!FrameIds : f > since}
           begunNext == {f \in Ch!FrameIds' : f > since}
<1> PICK ended : ended = begun \ active
  OBVIOUS
<1>1. /\ last \in Nat /\ DOMAIN news = 1..last
      /\ Len(longer) = last + 1 /\ DOMAIN longer = 1..(last + 1)
      /\ \A n \in 1..last : longer[n] = news[n]
      /\ longer[last + 1] = event
  OBVIOUS
<1>2. /\ Ch!FrameIds' = Ch!FrameIds \cup {new} /\ active' = active \cup {new}
      /\ \A f \in Ch!FrameIds : frames'[f] = frames[f]
      /\ \A f \in Ch!FrameIds \ active : f \in collided' <=> f \in collided
      /\ new \notin Ch!FrameIds /\ new \in Nat /\ new > since
  BY FrameSets DEF NewFrame
<1>3. /\ Told(news, "started", last) = Cardinality(begun)
      /\ Told(news, "completed", last) = Cardinality(ended)
      /\ \A n \in DOMAIN news :
           \/ \E f \in begun :
                /\ f = since + Told(news, "started", n)
                /\ news[n] = Started(frames[f].sender, frames[f].band, frames[f].start)
           \/ \E f \in ended :
                /\ Cardinality(UpTo(f, ended)) = Told(news, "completed", n)
                /\ news[n] = Completed(f)
      /\ \A m, n \in DOMAIN news : m <= n => news[m].time <= news[n].time
  BY DEF TracksTheAir
<1>4. /\ IsFiniteSet(begun) /\ Cardinality(begun) \in Nat
      /\ since + Cardinality(begun) = Len(frames)
  BY BegunSince, FS_CardinalityType
<1>5. /\ begunNext = begun \cup {new} /\ new \notin begun
      /\ begunNext \ active' = ended /\ begun \subseteq Ch!FrameIds
  BY <1>2
<1>6. /\ event.kind = "started" /\ event.time = now'
      /\ event = Started(frames'[new].sender, frames'[new].band, frames'[new].start)
  BY DEF Started
<1> HIDE DEF longer, last, new, begun, begunNext
<1>7. \A n \in 0..last : \A kind : Told(longer, kind, n) = Told(news, kind, n)
  <2> TAKE n \in 0..last
  <2>1. n \in Nat
    BY <1>1
  <2>2. \A m \in 1..n : longer[m] = news[m]
    BY <1>1
  <2> QED
    BY <2>1, <2>2, ToldBefore
<1>8. /\ Told(longer, "started", last + 1) = Cardinality(begun) + 1
      /\ Told(longer, "completed", last + 1) = Cardinality(ended)
  <2>1. \A m \in (last + 1)..(last + 1) : longer[m].kind = "started"
    BY <1>1, <1>6
  <2>2. /\ Told(longer, "started", last + 1) = Told(longer, "started", last) + 1
        /\ Told(longer, "completed", last + 1) = Told(longer, "completed", last)
    <3>1. PICK more \in Nat : more = last + 1
      BY <1>1
    <3>2. last \in Nat /\ last <= more /\ \A m \in (last + 1)..more : longer[m].kind = "started"
      BY <1>1, <2>1, <3>1
    <3>3. Told(longer, "started", more) = Told(longer, "started", last) + (more - last)
      BY <3>1, <3>2, ToldMore
    <3>4. \A m \in (last + 1)..more : longer[m].kind # "completed"
      BY <3>2
    <3>5. Told(longer, "completed", more) = Told(longer, "completed", last)
      BY <3>1, <3>2, <3>4, ToldNoMore
    <3>6. more - last = 1
      BY <1>1, <3>1
    <3> QED
      BY <3>1, <3>3, <3>5, <3>6
  <2>3. \A kind : Told(longer, kind, last) = Told(news, kind, last)
    <3>1. last \in 0..last
      BY <1>1
    <3> QED
      BY <1>7, <3>1
  <2> QED
    BY <1>3, <2>2, <2>3
<1>9. Cardinality(begunNext) = Cardinality(begun) + 1
  BY <1>4, <1>5, FS_AddElement
<1>10. \A f \in ended : UpTo(f, ended)' = UpTo(f, ended) /\ Completed(f)' = Completed(f)
  <2>1. ended \subseteq Ch!FrameIds /\ ended \subseteq Ch!FrameIds \ active
    BY <1>5
  <2>2. \A f, g \in Ch!FrameIds : EarlierEnd(f, g)' <=> EarlierEnd(f, g)
    BY <1>2, SameOrder
  <2>3. \A f \in ended : UpTo(f, ended)' = UpTo(f, ended)
    <3>1. \A f \in ended, g \in ended : EarlierEnd(f, g)' <=> EarlierEnd(f, g)
      BY <2>1, <2>2
    <3> QED
      BY <3>1 DEF UpTo
  <2>4. \A f \in ended : Completed(f)' = Completed(f)
    BY <1>2, <2>1 DEF Completed
  <2> QED
    BY <2>3, <2>4
<1>11. ASSUME NEW n \in 1..(last + 1)
       PROVE  \/ \E f \in begunNext :
                   /\ f = since + Told(longer, "started", n)
                   /\ longer[n] = Started(frames'[f].sender, frames'[f].band, frames'[f].start)
              \/ \E f \in ended :
                   /\ Cardinality(UpTo(f, ended)') = Told(longer, "completed", n)
                   /\ longer[n] = Completed(f)'
  <2>1. CASE n = last + 1
    <3>1. since + Told(longer, "started", n) = new
      BY <1>4, <1>8, <2>1 DEF new
    <3>2. longer[n] = Started(frames'[new].sender, frames'[new].band, frames'[new].start)
      BY <1>1, <1>6, <2>1
    <3> QED
      BY <1>5, <3>1, <3>2
  <2>2. CASE n # last + 1
    <3>1. n \in 1..last /\ n \in 0..last
      BY <1>1, <2>2
    <3>2. CASE \E f \in begun :
                 /\ f = since + Told(news, "started", n)
                 /\ news[n] = Started(frames[f].sender, frames[f].band, frames[f].start)
      <4>1. PICK f \in begun :
                 /\ f = since + Told(news, "started", n)
                 /\ news[n] = Started(frames[f].sender, frames[f].band, frames[f].start)
        BY <3>2
      <4>2. frames'[f] = frames[f] /\ f \in begunNext
        BY <1>2, <1>5
      <4> QED
        BY <1>1, <1>7, <3>1, <4>1, <4>2
    <3>3. CASE \E f \in ended :
                 /\ Cardinality(UpTo(f, ended)) = Told(news, "completed", n)
                 /\ news[n] = Completed(f)
      BY <1>1, <1>7, <1>10, <3>1, <3>3
    <3> QED
      BY <1>1, <1>3, <3>1, <3>2, <3>3
  <2> QED
    BY <2>1, <2>2
<1>12. \A n \in 1..(last + 1) : longer[n].time <= now' /\ longer[n].time \in Nat
  <2>1. \A n \in 1..last : news[n] \in ChannelEvent
    BY <1>1, ElementOfSeq
  <2>2. \A n \in 1..last : news[n].time \in Nat /\ news[n].time <= now
    BY <1>1, <2>1 DEF ChannelEvent, TimesPast
  <2>3. now \in Nat
    BY FrameTimes
  <2>4. \A n \in 1..last : longer[n].time <= now' /\ longer[n].time \in Nat
    BY <1>1, <2>2, <2>3
  <2> QED
    BY <1>1, <1>6, <2>4
<1>13. ASSUME NEW m \in 1..(last + 1), NEW n \in 1..(last + 1), m <= n
       PROVE  longer[m].time <= longer[n].time
  <2>1. CASE n = last + 1
    BY <1>1, <1>6, <1>12, <2>1
  <2>2. CASE n # last + 1
    <3>1. m \in 1..last /\ n \in 1..last
      BY <1>1, <1>13, <2>2
    <3> QED
      BY <1>1, <1>3, <1>13, <3>1
  <2> QED
    BY <2>1, <2>2
<1>14. TracksTheAir(longer, since)'
  <2>1. /\ Told(longer, "started", Len(longer)) = Cardinality(begunNext)
        /\ Told(longer, "completed", Len(longer)) = Cardinality(ended)
    BY <1>1, <1>8, <1>9
  <2>2. \A n \in DOMAIN longer :
          \/ \E f \in begunNext :
               /\ f = since + Told(longer, "started", n)
               /\ longer[n] = Started(frames'[f].sender, frames'[f].band, frames'[f].start)
          \/ \E f \in ended :
               /\ Cardinality(UpTo(f, ended)') = Told(longer, "completed", n)
               /\ longer[n] = Completed(f)'
    BY <1>1, <1>11
  <2>3. \A m, n \in DOMAIN longer : m <= n => longer[m].time <= longer[n].time
    BY <1>1, <1>13
  <2>4. begunNext = {f \in Ch!FrameIds' : f > since} /\ ended = begunNext \ active'
    BY <1>5 DEF begunNext
  <2> QED
    BY <2>1, <2>2, <2>3, <2>4 DEF TracksTheAir
<1>15. TimesPast(longer)'
  BY <1>1, <1>12 DEF TimesPast
<1> QED
  BY <1>14, <1>15 DEF longer

(* Frames of one end leave the air, and are told from the least up.        *)
LEMMA UpToLeaving ==
  ASSUME IInv, Ordered, NEW over \in SUBSET active, NEW time \in Nat,
         \A f \in over : frames[f].end = time,
         NEW ended \in SUBSET OffTheAir, IsFiniteSet(ended), IsFiniteSet(over)
  PROVE  /\ \A f \in ended : UpTo(f, ended \cup over) = UpTo(f, ended)
         /\ \A f \in over : Cardinality(UpTo(f, ended \cup over)) =
              Cardinality(ended) + Cardinality({g \in over : g < f}) + 1
<1>1. /\ over \subseteq Ch!FrameIds /\ ended \subseteq Ch!FrameIds /\ over \cap ended = {}
      /\ \A f \in Ch!FrameIds : f \in Nat /\ frames[f].end \in Nat
  BY FrameSets, FrameTimes DEF OffTheAir
<1>2. \A f \in ended, g \in over : EarlierEnd(f, g) /\ ~ EarlierEnd(g, f) /\ f # g
  <2>1. \A f \in ended, g \in over : EarlierEnd(f, g) /\ f # g
    BY <1>1 DEF Ordered
  <2>2. ASSUME NEW f \in ended, NEW g \in over
        PROVE  ~ EarlierEnd(g, f)
    <3>1. /\ EarlierEnd(f, g) /\ f \in Nat /\ g \in Nat
          /\ frames[f].end \in Nat /\ frames[g].end \in Nat
      BY <1>1, <2>1
    <3> QED
      BY <3>1 DEF EarlierEnd
  <2> QED
    BY <2>1, <2>2
<1>3. \A f \in ended : UpTo(f, ended \cup over) = UpTo(f, ended)
  BY <1>2 DEF UpTo
<1>4. ASSUME NEW f \in over
      PROVE  Cardinality(UpTo(f, ended \cup over)) =
               Cardinality(ended) + Cardinality({g \in over : g < f}) + 1
  <2> DEFINE before == {g \in over : g < f}
  <2>1. \A g \in over : EarlierEnd(g, f) <=> g < f
    BY <1>1 DEF EarlierEnd
  <2>2. UpTo(f, ended \cup over) = (ended \cup before) \cup {f}
    BY <1>2, <2>1 DEF UpTo
  <2>3. f \notin ended \cup before /\ ended \cap before = {}
    BY <1>1, <1>4
  <2>4. IsFiniteSet(before)
    BY FS_Subset
  <2> HIDE DEF before
  <2>5. Cardinality(ended \cup before) = Cardinality(ended) + Cardinality(before)
    BY <2>3, <2>4, DisjointUnion
  <2>6. IsFiniteSet(ended \cup before)
    BY <2>4, FS_Union
  <2>7. Cardinality((ended \cup before) \cup {f}) = Cardinality(ended \cup before) + 1
    BY <2>3, <2>6, FS_AddElement
  <2> QED
    BY <2>2, <2>5, <2>7 DEF before
<1> QED
  BY <1>3, <1>4

LEMMA CompletionsAreTracked ==
  ASSUME IInv, Ordered, NEW news \in Seq(ChannelEvent), NEW since \in Nat,
         TracksTheAir(news, since), TimesPast(news),
         NEW time \in Nat, now <= time, now' = time,
         NEW over \in SUBSET active, \A f \in over : frames[f].end = time /\ f > since,
         active' = active \ over, UNCHANGED <<frames, collided>>,
         NEW order \in InVectorOrder(over),
         NEW told \in Seq(ChannelEvent), told = [n \in DOMAIN order |-> Completed(order[n])]
  PROVE  TracksTheAir(news \o told, since)' /\ TimesPast(news \o told)'
<1> DEFINE longer == news \o told
           last   == Len(news)
           more   == Cardinality(over)
           begun  == {f \in Ch!FrameIds : f > since}
<1> PICK ended : ended = begun \ active
  OBVIOUS
<1> PICK endedNext : endedNext = ended \cup over
  OBVIOUS
<1>1. /\ IsFiniteSet(over) /\ IsFiniteSet(ended) /\ more \in Nat /\ Cardinality(ended) \in Nat
      /\ over \subseteq Ch!FrameIds /\ ended \subseteq OffTheAir /\ over \cap ended = {}
      /\ over \subseteq begun
  <2>1. IsFiniteSet(Ch!FrameIds)
    <3>1. 1 \in Int /\ Len(frames) \in Int /\ Ch!FrameIds = 1..Len(frames)
      BY FrameSets
    <3> QED
      BY <3>1, FS_Interval
  <2>2. over \subseteq Ch!FrameIds /\ ended \subseteq Ch!FrameIds
    BY FrameSets
  <2> QED
    BY <2>1, <2>2, FS_Subset, FS_CardinalityType DEF OffTheAir
<1>2. /\ order \in [1..more -> over]
      /\ \A n \in 1..more : Cardinality({g \in over : g < order[n]}) = n - 1
  BY DEF InVectorOrder
<1>3. /\ last \in Nat /\ DOMAIN news = 1..last
      /\ Len(longer) = last + more /\ DOMAIN longer = 1..(last + more)
      /\ \A n \in 1..last : longer[n] = news[n]
      /\ \A n \in (last + 1)..(last + more) :
           n - last \in 1..more /\ longer[n] = Completed(order[n - last])
  <2>1. DOMAIN told = 1..more /\ \A n \in 1..more : told[n] = Completed(order[n])
    BY <1>2
  <2>2. Len(told) = more
    BY <1>1, <2>1
  <2>3. last \in Nat /\ DOMAIN news = 1..last
    OBVIOUS
  <2>4. longer \in Seq(ChannelEvent) /\ Len(longer) = last + more
    BY <2>2
  <2>5. \A n \in 1..last : longer[n] = news[n]
    BY <1>1, <2>2
  <2>6. ASSUME NEW n \in (last + 1)..(last + more)
        PROVE  n - last \in 1..more /\ longer[n] = Completed(order[n - last])
    <3>1. n - last \in 1..more /\ n \in 1..(last + more) /\ ~ (n <= last)
      BY <1>1, <2>3, <2>6
    <3>2. longer[n] = told[n - last]
      BY <2>2, <3>1
    <3> QED
      BY <2>1, <3>1, <3>2
  <2> QED
    BY <1>1, <2>3, <2>4, <2>5, <2>6
<1>4. /\ Told(news, "started", last) = Cardinality(begun)
      /\ Told(news, "completed", last) = Cardinality(ended)
      /\ \A n \in DOMAIN news :
           \/ \E f \in begun :
                /\ f = since + Told(news, "started", n)
                /\ news[n] = Started(frames[f].sender, frames[f].band, frames[f].start)
           \/ \E f \in ended :
                /\ Cardinality(UpTo(f, ended)) = Told(news, "completed", n)
                /\ news[n] = Completed(f)
      /\ \A m, n \in DOMAIN news : m <= n => news[m].time <= news[n].time
  BY DEF TracksTheAir
<1>5. /\ Ch!FrameIds' = Ch!FrameIds /\ begun \ active' = endedNext
      /\ \A f : Completed(f)' = Completed(f)
      /\ \A f, g : EarlierEnd(f, g)' <=> EarlierEnd(f, g)
  BY FrameSets DEF Ch!FrameIds, Completed, EarlierEnd
<1>6. \A f : Completed(f).kind = "completed" /\ Completed(f).time = frames[f].end
  BY DEF Completed
<1> HIDE DEF longer, last, more
<1>7. /\ \A f \in ended : UpTo(f, endedNext) = UpTo(f, ended)
      /\ \A f \in over : Cardinality(UpTo(f, endedNext)) =
           Cardinality(ended) + Cardinality({g \in over : g < f}) + 1
  <2>1. /\ ended \in SUBSET OffTheAir /\ IsFiniteSet(ended) /\ IsFiniteSet(over)
        /\ \A f \in over : frames[f].end = time
    BY <1>1
  <2> QED
    BY <2>1, UpToLeaving
<1>8. \A f : UpTo(f, endedNext)' = UpTo(f, endedNext)
  BY <1>5 DEF UpTo
<1> HIDE DEF begun
<1>9. Cardinality(endedNext) = Cardinality(ended) + more
  BY <1>1, DisjointUnion DEF more
<1>10. \A n \in 1..last : \A kind : Told(longer, kind, n) = Told(news, kind, n)
  <2>1. \A n \in 1..last : n \in Nat /\ \A m \in 1..n : longer[m] = news[m]
    BY <1>3
  <2> QED
    BY <2>1, ToldBefore
<1>11. \A kind : Told(longer, kind, last) = Told(news, kind, last)
  <2>1. PICK n \in Nat : n = last
    BY <1>3
  <2>2. \A m \in 1..n : longer[m] = news[m]
    BY <1>3, <2>1
  <2>3. \A kind : Told(longer, kind, n) = Told(news, kind, n)
    BY <2>2, ToldBefore
  <2> QED
    BY <2>1, <2>3
<1>12. ASSUME NEW n \in Nat, last <= n, n <= last + more
       PROVE  /\ Told(longer, "completed", n) = Cardinality(ended) + (n - last)
              /\ Told(longer, "started", n) = Cardinality(begun)
  <2>1. last \in Nat /\ \A m \in (last + 1)..n : longer[m].kind = "completed"
    BY <1>1, <1>3, <1>6, <1>12
  <2>2. Told(longer, "completed", n) = Told(longer, "completed", last) + (n - last)
    BY <1>12, <2>1, ToldMore
  <2>3. \A m \in (last + 1)..n : longer[m].kind # "started"
    BY <2>1
  <2>4. Told(longer, "started", n) = Told(longer, "started", last)
    BY <1>12, <2>1, <2>3, ToldNoMore
  <2> QED
    BY <1>4, <1>11, <2>2, <2>4
<1>13. ASSUME NEW n \in 1..(last + more)
       PROVE  \/ \E f \in begun :
                   /\ f = since + Told(longer, "started", n)
                   /\ longer[n] = Started(frames[f].sender, frames[f].band, frames[f].start)
              \/ \E f \in endedNext :
                   /\ Cardinality(UpTo(f, endedNext)) = Told(longer, "completed", n)
                   /\ longer[n] = Completed(f)
  <2>1. CASE n <= last
    <3>1. n \in 1..last
      BY <1>1, <1>3, <2>1
    <3> QED
      BY <1>3, <1>4, <1>7, <1>10, <3>1
  <2>2. CASE ~ (n <= last)
    <3>1. n \in (last + 1)..(last + more) /\ n \in Nat /\ last <= n /\ n <= last + more
      BY <1>1, <1>3, <2>2
    <3>2. n - last \in 1..more /\ longer[n] = Completed(order[n - last])
      BY <1>3, <3>1
    <3>3. PICK f \in over : f = order[n - last]
      BY <1>2, <3>2
    <3>4. Cardinality({g \in over : g < f}) = (n - last) - 1
      BY <1>2, <3>2, <3>3
    <3>5. Told(longer, "completed", n) = Cardinality(ended) + (n - last)
      BY <1>12, <3>1
    <3>6. Cardinality(UpTo(f, endedNext)) = Told(longer, "completed", n)
      <4>1. Cardinality(UpTo(f, endedNext)) =
              Cardinality(ended) + Cardinality({g \in over : g < f}) + 1
        BY <1>7
      <4>2. Cardinality(UpTo(f, endedNext)) = Cardinality(ended) + ((n - last) - 1) + 1
        BY <3>4, <4>1
      <4>3. Cardinality(ended) \in Int /\ n - last \in Int
        BY <1>1, <3>2
      <4>4. \A c, d \in Int : c + (d - 1) + 1 = c + d
        OBVIOUS
      <4>5. Cardinality(ended) + ((n - last) - 1) + 1 = Cardinality(ended) + (n - last)
        BY <4>3, <4>4
      <4> QED
        BY <3>5, <4>2, <4>5
    <3> QED
      BY <3>2, <3>3, <3>6
  <2> QED
    BY <2>1, <2>2
<1>14. \A n \in 1..last : longer[n].time \in Nat /\ longer[n].time <= time
  <2>1. \A n \in 1..last : news[n] \in ChannelEvent
    BY <1>3, ElementOfSeq
  <2>2. \A n \in 1..last : news[n].time \in Nat /\ news[n].time <= now
    BY <1>3, <2>1 DEF ChannelEvent, TimesPast
  <2>3. now \in Nat
    BY FrameTimes
  <2> QED
    BY <1>3, <2>2, <2>3
<1>15. \A n \in (last + 1)..(last + more) : longer[n].time = time
  <2>1. \A n \in 1..more : order[n] \in over
    BY <1>2
  <2> QED
    BY <1>3, <1>6, <2>1
<1>16. \A n \in 1..(last + more) : n \in 1..last \/ n \in (last + 1)..(last + more)
  BY <1>1, <1>3
<1>17. ASSUME NEW m \in 1..(last + more), NEW n \in 1..(last + more), m <= n
       PROVE  longer[m].time <= longer[n].time
  <2>1. CASE n \in 1..last
    <3>1. m \in 1..last
      BY <1>3, <1>17, <2>1
    <3> QED
      BY <1>3, <1>4, <1>17, <2>1, <3>1
  <2>2. CASE n \in (last + 1)..(last + more)
    BY <1>14, <1>15, <1>16, <2>2
  <2> QED
    BY <1>16, <2>1, <2>2
<1>18. \A n \in DOMAIN longer : longer[n].time <= time
  BY <1>3, <1>14, <1>15, <1>16
<1>19. /\ Told(longer, "started", Len(longer)) = Cardinality(begun)
       /\ Told(longer, "completed", Len(longer)) = Cardinality(endedNext)
  <2>1. /\ last + more \in Nat /\ last <= last + more /\ last + more <= last + more
        /\ (last + more) - last = more
    BY <1>1, <1>3
  <2> QED
    BY <1>3, <1>9, <1>12, <2>1
<1>20. TracksTheAir(longer, since)'
  <2>1. \A n \in DOMAIN longer :
          \/ \E f \in begun :
               /\ f = since + Told(longer, "started", n)
               /\ longer[n] = Started(frames[f].sender, frames[f].band, frames[f].start)
          \/ \E f \in endedNext :
               /\ Cardinality(UpTo(f, endedNext)') = Told(longer, "completed", n)
               /\ longer[n] = Completed(f)'
    BY <1>3, <1>5, <1>8, <1>13
  <2>2. \A m, n \in DOMAIN longer : m <= n => longer[m].time <= longer[n].time
    BY <1>3, <1>17
  <2>3. begun = {f \in Ch!FrameIds' : f > since} /\ endedNext = begun \ active'
    BY <1>5 DEF begun
  <2> QED
    BY <1>19, <2>1, <2>2, <2>3 DEF TracksTheAir
<1> QED
  BY <1>18, <1>20 DEF TimesPast, longer

(* A frame's events, told to all, keep what each of them was told.         *)
LEMMA ObserverByObserver ==
  ASSUME NEW k, NEW news, NEW since, news = heard'[k], since = tuned'[k],
         TracksTheAir(news, since)', TimesPast(news)'
  PROVE  TracksTheAir(heard[k], tuned[k])' /\ TimesPast(heard[k])'
BY DEF TracksTheAir, TimesPast

LEMMA WhatObserversHeard ==
  ASSUME IInv, AInv, Observing, NEW k \in DOMAIN heard
  PROVE  /\ heard[k] \in Seq(ChannelEvent) /\ tuned[k] \in Nat /\ tuned[k] <= Len(frames)
         /\ TracksTheAir(heard[k], tuned[k]) /\ TimesPast(heard[k])
<1>1. heard[k] \in Seq(ChannelEvent)
  BY DEF IInv, TypeOK
<1> QED
  BY <1>1, RegistrationIsNumbered DEF AInv, Newcomers, Observing, ObserversTrackTheAir

LEMMA BeginningKeepsObserving ==
  ASSUME IInv, IInv', AInv, Observing, NewFrame, now <= now', tuned' = tuned
  PROVE  Observing'
<1> PICK new : new = frames'[Len(frames) + 1]
  OBVIOUS
<1> PICK event : event = Started(new.sender, new.band, new.start)
  OBVIOUS
<1>1. /\ new.start = now'
      /\ heard' = [k \in DOMAIN heard |-> heard[k] \o <<event>>]
  BY DEF NewFrame, ObserveAll
<1>2. now' \in Nat /\ EndTime \in Nat
  <2>1. now' \in 0..EndTime
    BY DEF IInv, TypeOK, Ch!TypeOK
  <2> QED
    BY <2>1, SchedulerAssumption
<1>3. event \in ChannelEvent
  <2>1. frames' \in Seq(Ch!Frame) /\ Len(frames') = Len(frames) + 1 /\ Len(frames) \in Nat
    BY FrameSets DEF IInv, TypeOK, Ch!TypeOK, NewFrame
  <2>2. new \in Ch!Frame
    BY <2>1
  <2>3. new.sender \in Senders /\ new.band \in Bands /\ new.start \in Nat
    BY <2>2 DEF Ch!Frame
  <2> QED
    BY <2>3, Zenon DEF Started, ChannelEvent
<1>4. ASSUME NEW k \in DOMAIN heard'
      PROVE  TracksTheAir(heard[k], tuned[k])' /\ TimesPast(heard[k])'
  <2>1. k \in DOMAIN heard /\ heard'[k] = heard[k] \o <<event>>
    BY <1>1
  <2>2. PICK news \in Seq(ChannelEvent), since \in Nat :
          /\ news = heard[k] /\ since = tuned[k] /\ since <= Len(frames)
          /\ TracksTheAir(news, since) /\ TimesPast(news)
    BY <2>1, WhatObserversHeard
  <2>3. TracksTheAir(news \o <<event>>, since)' /\ TimesPast(news \o <<event>>)'
    BY <1>1, <1>2, <1>3, <2>2, BeginningIsTracked
  <2> QED
    BY <2>1, <2>2, <2>3, ObserverByObserver
<1> QED
  BY <1>4 DEF Observing, ObserversTrackTheAir

LEMMA CompletionKeepsObserving ==
  ASSUME ContractKept, IInv, AInv, Ordered, Observing, NEW e \in events, PopTxComplete(e)
  PROVE  Observing'
<1> PICK over : over = Ch!Over(e.time)
  OBVIOUS
<1>1. /\ Pops(e, "TxComplete") /\ Ch!ResolveAt(e.time) /\ tuned' = tuned
      /\ ObserveCompletions(over)
  BY DEF PopTxComplete, registry
<1>2. /\ e.time \in Nat /\ now <= e.time /\ e.time <= EndTime
      /\ \A f \in active : frames[f].end \in Nat /\ e.time <= frames[f].end
  <2>1. now \in Nat /\ EndTime \in Nat
    BY FrameTimes, SchedulerAssumption
  <2>2. e.time \in now..EndTime
    BY <1>1, PoppedEvent
  <2> QED
    BY <1>1, <2>1, <2>2, PoppedEvent
<1>3. /\ now' = e.time /\ active' = active \ over /\ UNCHANGED <<frames, collided>>
      /\ over \in SUBSET active /\ \A f \in over : frames[f].end = e.time
  BY <1>1, <1>2 DEF Ch!ResolveAt, Ch!Over
<1>4. PICK order \in InVectorOrder(over) :
        ObserveAll([n \in DOMAIN order |-> Completed(order[n])])
  BY <1>1 DEF ObserveCompletions
<1>5. PICK told : told = [n \in DOMAIN order |-> Completed(order[n])]
  OBVIOUS
<1>6. told \in Seq(ChannelEvent)
  <2>1. TypeOK
    BY DEF IInv
  <2> QED
    BY <1>3, <1>4, <1>5, <2>1, OrderedCompletions
<1>7. ASSUME NEW k \in DOMAIN heard'
      PROVE  TracksTheAir(heard[k], tuned[k])' /\ TimesPast(heard[k])'
  <2>1. k \in DOMAIN heard /\ heard'[k] = heard[k] \o told
    BY <1>4, <1>5 DEF ObserveAll
  <2>2. PICK news \in Seq(ChannelEvent), since \in Nat :
          /\ news = heard[k] /\ since = tuned[k]
          /\ TracksTheAir(news, since) /\ TimesPast(news)
    BY <2>1, WhatObserversHeard
  <2>3. \A f \in over : frames[f].end = e.time /\ f > since
    BY <1>2, <1>3, <2>1, <2>2 DEF AInv, Newcomers, Unsettled
  <2>4. TracksTheAir(news \o told, since)' /\ TimesPast(news \o told)'
    <3>1. /\ e.time \in Nat /\ now <= e.time /\ now' = e.time
          /\ over \in SUBSET active /\ active' = active \ over
          /\ UNCHANGED <<frames, collided>>
      BY <1>2, <1>3
    <3> QED
      BY <1>4, <1>5, <1>6, <2>2, <2>3, <3>1, CompletionsAreTracked
  <2> QED
    BY <1>1, <2>1, <2>2, <2>4, ObserverByObserver
<1> QED
  BY <1>7 DEF Observing, ObserversTrackTheAir

LEMMA StillAirKeepsObserving ==
  ASSUME IInv, AInv, Observing, now <= now', now' \in Nat,
         UNCHANGED <<frames, active, collided, heard, tuned>>
  PROVE  Observing'
<1>1. ASSUME NEW k \in DOMAIN heard'
      PROVE  TracksTheAir(heard[k], tuned[k])' /\ TimesPast(heard[k])'
  <2>1. PICK news \in Seq(ChannelEvent), since \in Nat :
          /\ news = heard[k] /\ since = tuned[k]
          /\ TracksTheAir(news, since) /\ TimesPast(news)
    BY <1>1, WhatObserversHeard
  <2>2. TracksTheAir(news, since)'
    BY <2>1, StillAirIsTracked
  <2>3. TimesPast(news)'
    <3>1. \A n \in DOMAIN news : news[n] \in ChannelEvent
      OBVIOUS
    <3>2. \A n \in DOMAIN news : news[n].time \in Nat
      BY <3>1 DEF ChannelEvent
    <3> QED
      BY <2>1, <3>2, FrameTimes DEF TimesPast
  <2> QED
    BY <2>1, <2>2, <2>3, ObserverByObserver
<1> QED
  BY <1>1 DEF Observing, ObserversTrackTheAir

(* Who is registered later has been told nothing, and has missed nothing.  *)
LEMMA NewObserverMissedNothing ==
  ASSUME IInv
  PROVE  TracksTheAir(<< >>, Len(frames)) /\ TimesPast(<< >>)
<1> DEFINE begun == {f \in Ch!FrameIds : f > Len(frames)}
<1>1. begun = {} /\ begun \ active = {}
  BY FrameSets
<1> HIDE DEF begun
<1>2. Cardinality(begun) = 0 /\ Cardinality(begun \ active) = 0
  BY <1>1, FS_EmptySet
<1>3. \A kind : Told(<< >>, kind, Len(<< >>)) = 0
  <2>1. \A kind : {m \in 1..Len(<< >>) : << >>[m].kind = kind} = {}
    OBVIOUS
  <2> QED
    BY <2>1, FS_EmptySet DEF Told
<1> QED
  BY <1>2, <1>3 DEF TracksTheAir, TimesPast, begun

LEMMA AddInterfererKeepsObserving ==
  ASSUME IInv, AInv, Observing, NEW firstPoll, AddInterferer(firstPoll)
  PROVE  Observing'
<1>1. /\ heard' = Append(heard, << >>) /\ tuned' = Append(tuned, Len(frames))
      /\ UNCHANGED <<now, frames, active, collided>>
  BY DEF AddInterferer, channelVars
<1>2. /\ heard \in Seq(Seq(ChannelEvent)) /\ tuned \in Seq(Nat) /\ Len(tuned) = Len(heard)
      /\ Len(frames) \in Nat
  BY FrameSets DEF IInv, TypeOK
<1>3. ASSUME NEW k \in DOMAIN heard'
      PROVE  TracksTheAir(heard[k], tuned[k])' /\ TimesPast(heard[k])'
  <2>1. CASE k \in DOMAIN heard
    <3>1. heard'[k] = heard[k] /\ tuned'[k] = tuned[k]
      BY <1>1, <1>2, <2>1
    <3>2. PICK news, since :
            /\ news = heard[k] /\ since = tuned[k]
            /\ TracksTheAir(news, since) /\ TimesPast(news)
      BY <2>1, WhatObserversHeard
    <3>3. TracksTheAir(news, since)' /\ TimesPast(news)'
      BY <1>1, <3>2, StillAirIsTracked DEF TimesPast
    <3> QED
      BY <3>1, <3>2, <3>3, ObserverByObserver
  <2>2. CASE k \notin DOMAIN heard
    <3>1. heard'[k] = << >> /\ tuned'[k] = Len(frames)
      <4>1. k = Len(heard) + 1
        BY <1>1, <1>2, <2>2
      <4> QED
        BY <1>1, <1>2, <4>1
    <3>2. PICK since : since = Len(frames)
      OBVIOUS
    <3>3. TracksTheAir(<< >>, since) /\ TimesPast(<< >>)
      BY <3>2, NewObserverMissedNothing
    <3>4. TracksTheAir(<< >>, since)' /\ TimesPast(<< >>)'
      BY <1>1, <3>3, StillAirIsTracked DEF TimesPast
    <3> QED
      BY <3>1, <3>2, <3>4, ObserverByObserver
  <2> QED
    BY <2>1, <2>2
<1> QED
  BY <1>3 DEF Observing, ObserversTrackTheAir

LEMMA TurnSetsTheClock ==
  ASSUME NEW time, NEW queue, Turn(time, queue)
  PROVE  now' = time
BY DEF Turn, Begins, KeepsQuiet, Ch!BeginTransmission

(* A frame that begins does so when its turn comes, and nothing else is    *)
(* told between two completions.                                           *)
LEMMA StepKeepsObserving ==
  ContractKept /\ IInv /\ IInv' /\ AInv /\ Ordered /\ Observing /\ [Next]_vars => Observing'
<1> SUFFICES ASSUME ContractKept, IInv, IInv', AInv, Ordered, Observing, [Next]_vars
             PROVE  Observing'
  OBVIOUS
<1>1. now \in Nat /\ now <= now
  BY FrameTimes
<1>2. ASSUME UNCHANGED <<now, channelVars, heard, tuned>>
      PROVE  Observing'
  BY <1>1, <1>2, StillAirKeepsObserving DEF channelVars
<1>3. CASE Setup
  BY <1>2, <1>3, AddInterfererKeepsObserving DEF Setup, AddNode, Run, registry
<1>4. ASSUME NEW time \in Nat, now <= time, NEW queue, Turn(time, queue),
             NewFrame \/ SameAir, tuned' = tuned
      PROVE  Observing'
  <2>1. now' = time
    BY <1>4, TurnSetsTheClock
  <2> QED
    BY <1>4, <2>1, BeginningKeepsObserving, StillAirKeepsObserving DEF SameAir
<1>5. ASSUME NEW e \in events, NEW kind, Pops(e, kind)
      PROVE  e.time \in Nat /\ now <= e.time /\ Registered(e) /\ e.kind = kind
  <2>1. e.time \in now..EndTime /\ EndTime \in Nat
    BY <1>5, PoppedEvent, SchedulerAssumption
  <2> QED
    BY <1>1, <1>5, <2>1, PoppedEvent
<1>6. metrics \in Counters
  BY DEF IInv, TypeOK
<1>7. ASSUME NEW e \in events, PopWake(e)
      PROVE  Observing'
  <2>1. /\ e.time \in Nat /\ now <= e.time /\ Registered(e) /\ e.kind = "Wake"
        /\ tuned' = tuned
    BY <1>5, <1>7 DEF PopWake, registry
  <2>2. FindNode(e.who) \in DOMAIN nodes
    BY <2>1, FindNodeFinds DEF IInv, TypeOK, Registered
  <2>3. PICK answer \in Answers(e.time) :
          HandlePollTransmit(FindNode(e.who), e.time, events \ {e},
                             Requests(answer, "Wake", e.who), metrics)
    BY <1>7 DEF PopWake
  <2>4. NewFrame \/ SameAir
    BY <1>6, <2>1, <2>2, <2>3, NodeOnTheAir
  <2>5. Turn(e.time, events \ {e})
    BY <1>7, WakeIsTurn
  <2> QED
    BY <1>4, <2>1, <2>4, <2>5
<1>8. ASSUME NEW e \in events, PopInterferencePoll(e)
      PROVE  Observing'
  <2>1. /\ e.time \in Nat /\ now <= e.time /\ e.who \in DOMAIN heard /\ tuned' = tuned
    BY <1>5, <1>8 DEF PopInterferencePoll, registry, Registered
  <2>2. PICK answer \in Answers(e.time) :
          \/ InterfererStaysSilent(e.time, events \ {e},
                                   Requests(answer, "InterferencePoll", e.who))
          \/ InterfererInjects(e.who, e.time, events \ {e},
                               Requests(answer, "InterferencePoll", e.who))
    BY <1>8 DEF PopInterferencePoll
  <2>3. NewFrame \/ SameAir
    BY <2>1, <2>2, InterfererOnTheAir
  <2>4. Turn(e.time, events \ {e})
    BY <1>8, PollIsTurn
  <2> QED
    BY <1>4, <2>1, <2>3, <2>4
<1>9. CASE Loop
  <2>1. CASE Stop
    BY <1>2, <2>1 DEF Stop, registry
  <2> QED
    BY <1>7, <1>8, <1>9, <2>1, CompletionKeepsObserving DEF Loop
<1>10. ASSUME NEW i \in DOMAIN nodes, Deliver(i)
       PROVE  Observing'
  <2>1. PICK answer \in Answers(now) :
          HandlePollTransmit(i, now, events, Requests(answer, "Wake", nodes[i]),
                             RecordRx(metrics, nodes[i]))
    BY <1>10 DEF Deliver
  <2>2. RecordRx(metrics, nodes[i]) \in Counters /\ tuned' = tuned
    <3>1. nodes[i] \in NodeIds
      BY DEF IInv, TypeOK
    <3> QED
      BY <1>6, <1>10, <3>1, RecordingKeepsType DEF Deliver, AtNode, registry
  <2>3. NewFrame \/ SameAir
    BY <1>1, <2>1, <2>2, NodeOnTheAir
  <2>4. Turn(now, events)
    BY <1>10, DeliveryIsTurn
  <2> QED
    BY <1>1, <1>4, <2>2, <2>3, <2>4
<1>11. CASE Delivery
  <2>1. CASE Drain
    BY <1>1, <2>1, StillAirKeepsObserving DEF Drain, Ch!DrainCompleted, registry
  <2>2. ASSUME NEW id \in batch, SkipCollided(id) \/ StartDelivery(id)
        PROVE  Observing'
    BY <1>2, <2>2 DEF SkipCollided, StartDelivery, TakesFrame, registry
  <2>3. ASSUME NEW i \in DOMAIN nodes, SkipSender(i)
        PROVE  Observing'
    BY <1>2, <2>3 DEF SkipSender, AtNode, registry
  <2>4. CASE EndDelivery \/ EndBatch
    BY <1>2, <2>4 DEF EndDelivery, EndBatch, registry
  <2> QED
    BY <1>10, <1>11, <2>1, <2>2, <2>3, <2>4 DEF Delivery
<1>12. CASE UNCHANGED vars
  BY <1>2, <1>12 DEF vars, registry
<1> QED
  BY <1>3, <1>9, <1>11, <1>12 DEF Next

(***************************************************************************)
(* If callers keep the timer contract every observer is told of each frame *)
(* begun since it was registered, once when it begins and once when it     *)
(* ends, in the order of the beginnings, of the ends and of time, with the *)
(* flag it ends with; so it knows how many frames are on the air.          *)
(***************************************************************************)
THEOREM ObserversAreToldAll ==
  ASSUME Delays \subseteq Nat
  PROVE  Spec => []ObserversTrackTheAir
<1>1. Init => Observing
  BY DEF Init, Observing, ObserversTrackTheAir
<1>2. IInv /\ IInv' /\ AInv /\ Ordered /\ Observing /\ [Next]_vars => Observing'
  BY StepKeepsObserving DEF ContractKept
<1>3. Observing => ObserversTrackTheAir
  BY DEF Observing
<1> QED
  BY <1>1, <1>2, <1>3, Inductive, AccountsAreKept, OrderIsKept, PTL DEF Spec

-----------------------------------------------------------------------------
(***************************************************************************)
(* The broadcast.  The argument: a turn is one of Broadcast's, since the   *)
(* next event is at or before the end of all that is on the air; the frame *)
(* in delivery is the next to settle, by Ordered; each place of the loop   *)
(* over the nodes is one hearing or, at the sender, none, and the loop is  *)
(* left when all have heard; and the flags that it goes by tell what all   *)
(* frames justify.  By Sending no frame of an interferer is one that the   *)
(* broadcast would count for a node.  All else in run() is hidden.         *)
(***************************************************************************)
LEMMA SameRules ==
  /\ \A f, g : Bc!Precedes(f, g) <=> EarlierEnd(f, g)
  /\ \A f : Bc!IsDestroyed(frames, f) <=> Ch!IsDestroyed(frames, f)
  /\ \A sender, tx, time : Bc!FrameOf(sender, tx, time) = Ch!FrameOf(sender, tx, time)
  /\ Bc!Transmissions = Ch!Transmissions
BY DEF Bc!Precedes, EarlierEnd, Bc!IsDestroyed, Ch!IsDestroyed, Bc!Destroys, Ch!Destroys,
       Bc!Meet, Ch!Meet, Bc!Overlaps, Ch!Overlaps, Bc!FrameOf, Ch!FrameOf,
       Bc!Transmissions, Ch!Transmissions

LEMMA PendingIsUnsettled ==
  ASSUME IInv
  PROVE  Bc!Pending = Unsettled
<1>1. Settled = Ch!FrameIds \ Unsettled /\ Unsettled \subseteq Ch!FrameIds
  BY FrameSets
<1>2. DOMAIN frames = Ch!FrameIds
  BY DEF IInv, TypeOK, Ch!TypeOK, Ch!FrameIds
<1> QED
  BY <1>1, <1>2 DEF Bc!Pending

(* What a handler leaves of the counters that the broadcast has.           *)
SameTotals(m) == metrics'.rx = m.rx /\ metrics'.collisions = m.collisions

LEMMA BeginningIsAppended ==
  ASSUME NEW sender, NEW sent \in Ch!Transmissions, NEW time,
         Ch!BeginTransmission(sender, sent, time)
  PROVE  /\ now' = time /\ Len(frames) < MaxFrames
         /\ \E s \in Bc!Transmissions :
              frames' = Append(frames, Bc!FrameOf(sender, s, time))
BY SameRules DEF Ch!BeginTransmission

(* handle_poll_transmit is silence, or a frame counted for the node.       *)
LEMMA NodeSpeaks ==
  ASSUME IInv, NEW time \in Nat, NEW i \in DOMAIN nodes, NEW queue, NEW wake,
         NEW m \in Counters, m.tx = metrics.tx,
         HandlePollTransmit(i, time, queue, wake, m)
  PROVE  /\ now' = time /\ SameTotals(m)
         /\ Bc!Silence \/ Bc!Sends(nodes[i], time)
<1>1. CASE NodeStaysSilent(time, queue, wake, m)
  BY <1>1 DEF NodeStaysSilent, channelVars, Bc!Silence, SameTotals
<1>2. CASE NodeTransmits(i, time, queue, wake, m)
  <2>1. PICK sent \in Ch!Transmissions :
          /\ Ch!BeginTransmission(nodes[i], sent, time)
          /\ metrics' = RecordAirtime(RecordTx(m, nodes[i]), sent.duration)
    BY <1>2 DEF NodeTransmits
  <2>2. nodes[i] \in NodeIds
    BY DEF IInv, TypeOK
  <2>3. /\ metrics'.tx = [metrics.tx EXCEPT ![nodes[i]] = @ + 1]
        /\ SameTotals(m)
    BY <2>1, <2>2 DEF RecordAirtime, RecordTx, Counters, SameTotals
  <2>4. Bc!Sends(nodes[i], time) /\ now' = time
    BY <2>1, <2>3, BeginningIsAppended DEF Bc!Sends
  <2> QED
    BY <2>3, <2>4
<1> QED
  BY <1>1, <1>2 DEF HandlePollTransmit

(* The poll of an interferer is silence, or a frame counted for nobody.    *)
LEMMA InterfererSpeaks ==
  ASSUME IInv, Sending, NEW time \in Nat, NEW k \in DOMAIN heard, NEW queue, NEW poll,
         InterfererStaysSilent(time, queue, poll) \/ InterfererInjects(k, time, queue, poll)
  PROVE  /\ now' = time /\ SameTotals(metrics)
         /\ Bc!Silence \/ \E sender \in Senders : Bc!Sends(sender, time)
<1>1. CASE InterfererStaysSilent(time, queue, poll)
  BY <1>1 DEF InterfererStaysSilent, channelVars, Bc!Silence, SameTotals
<1>2. CASE InterfererInjects(k, time, queue, poll)
  <2>1. PICK sent \in Ch!Transmissions :
          /\ Ch!BeginTransmission(SyntheticId(k), sent, time)
          /\ metrics' = RecordAirtime(metrics, sent.duration)
    BY <1>2 DEF InterfererInjects
  <2>2. metrics'.tx = metrics.tx /\ SameTotals(metrics)
    BY <2>1 DEF RecordAirtime, IInv, TypeOK, Counters, SameTotals
  <2>3. \A i \in DOMAIN nodes : nodes[i] # SyntheticId(k)
    BY DEF Sending
  <2>4. Bc!Sends(SyntheticId(k), time) /\ now' = time
    BY <2>1, <2>2, <2>3, BeginningIsAppended DEF Bc!Sends
  <2> QED
    BY <2>2, <2>4, InterfererIsSender
<1> QED
  BY <1>1, <1>2

(* Who has heard what, as pairs.                                           *)
LEMMA HeardByNoMore ==
  ASSUME nodes' = nodes, \A i \in DOMAIN nodes : ReceivedAt(i)' = ReceivedAt(i)
  PROVE  HeardBy' = HeardBy
BY DEF HeardBy

LEMMA OneHearingMore ==
  ASSUME nodes' = nodes, NEW i \in DOMAIN nodes, NEW f,
         f \notin ReceivedAt(i), ReceivedAt(i)' = ReceivedAt(i) \cup {f},
         \A j \in DOMAIN nodes \ {i} : ReceivedAt(j)' = ReceivedAt(j)
  PROVE  <<f, i>> \notin HeardBy /\ HeardBy' = HeardBy \cup {<<f, i>>}
<1>1. \A r : r \in HeardBy <=> \E j \in DOMAIN nodes : \E g \in ReceivedAt(j) : r = <<g, j>>
  BY DEF HeardBy
<1>2. \A r : r \in HeardBy' <=> \E j \in DOMAIN nodes : \E g \in ReceivedAt(j)' : r = <<g, j>>
  BY DEF HeardBy
<1>3. \A r : r \in HeardBy' <=> r \in HeardBy \cup {<<f, i>>}
  BY <1>1, <1>2
<1>4. <<f, i>> \notin HeardBy
  BY <1>1
<1> QED
  BY <1>3, <1>4

(* A step that the nodes do not see.                                       *)
LEMMA HiddenStep ==
  ASSUME UNCHANGED <<now, frames, nodes, joined>>, Settled' = Settled,
         metrics'.tx = metrics.tx, SameTotals(metrics),
         \A i \in DOMAIN nodes : ReceivedAt(i)' = ReceivedAt(i)
  PROVE  UNCHANGED Bc!broadcastVars
BY HeardByNoMore DEF Bc!broadcastVars, SameTotals

LEMMA UnseenStep ==
  ASSUME UNCHANGED <<now, frames, active, completed, collided, nodes, joined,
                     batch, delivering, cursor, metrics>>
  PROVE  UNCHANGED Bc!broadcastVars
<1>1. Settled' = Settled /\ \A i \in DOMAIN nodes : ReceivedAt(i)' = ReceivedAt(i)
  BY DEF Settled, ReceivedAt, Ch!FrameIds
<1> QED
  BY <1>1, HiddenStep DEF SameTotals

-----------------------------------------------------------------------------
(* The handler of an event, up to its drain.                               *)
LEMMA PopIsTurn ==
  ASSUME ContractKept, IInv, NEW e \in events, NEW kind, Pops(e, kind),
         now' = e.time, SameTotals(metrics),
         Bc!Silence \/ \E sender \in Senders : Bc!Sends(sender, e.time),
         UNCHANGED <<nodes, joined>>, Settled' = Settled,
         \A i \in DOMAIN nodes : ReceivedAt(i)' = ReceivedAt(i)
  PROVE  Bc!Next
<1>1. /\ e.time \in now..EndTime
      /\ completed = {} /\ batch = {} /\ delivering = NoFrame
      /\ \A id \in active : e.time <= frames[id].end
  BY PoppedEvent
<1>2. Bc!Pending = active
  BY <1>1, PendingIsUnsettled DEF Unsettled
<1>3. Bc!Turn(e.time)
  BY <1>1, <1>2, HeardByNoMore DEF Bc!Turn, SameTotals
<1> QED
  BY <1>1, <1>3 DEF Bc!Next

(* A turn that a wake or a poll leads to.                                  *)
LEMMA TurnIsSeenAsTurn ==
  ASSUME ContractKept, IInv, AInv, NEW e \in events, NEW kind, Pops(e, kind),
         now' = e.time, SameTotals(metrics),
         Bc!Silence \/ \E sender \in Senders : Bc!Sends(sender, e.time),
         NewFrame \/ SameAir, UNCHANGED <<nodes, joined, batch, delivering, cursor>>
  PROVE  Bc!Next
<1>1. Settled' = Settled
  BY TurnKeepsFrames
<1>2. \A i : ReceivedAt(i)' = ReceivedAt(i)
  BY TurnAddsNoReception DEF AInv
<1> QED
  BY <1>1, <1>2, PopIsTurn

LEMMA WakeIsSeenAsTurn ==
  ASSUME ContractKept, IInv, AInv, NEW e \in events, PopWake(e)
  PROVE  Bc!Next
<1>1. Pops(e, "Wake") /\ UNCHANGED <<nodes, joined, batch, delivering, cursor>>
  BY DEF PopWake, registry, deliveryVars
<1>2. e.time \in Nat /\ Registered(e) /\ e.kind = "Wake"
  BY <1>1, PoppedEvent
<1>3. /\ FindNode(e.who) \in DOMAIN nodes /\ metrics \in Counters
      /\ nodes[FindNode(e.who)] \in Senders
  <2>1. FindNode(e.who) \in DOMAIN nodes /\ metrics \in Counters
    BY <1>2, FindNodeFinds DEF IInv, TypeOK, Registered
  <2>2. nodes \in Seq(NodeIds)
    BY DEF IInv, TypeOK
  <2> QED
    BY <2>1, <2>2 DEF Senders
<1>4. PICK answer \in Answers(e.time) :
        HandlePollTransmit(FindNode(e.who), e.time, events \ {e},
                           Requests(answer, "Wake", e.who), metrics)
  BY DEF PopWake
<1>5. NewFrame \/ SameAir
  BY <1>2, <1>3, <1>4, NodeOnTheAir
<1>6. /\ now' = e.time /\ SameTotals(metrics)
      /\ Bc!Silence \/ \E sender \in Senders : Bc!Sends(sender, e.time)
  BY <1>2, <1>3, <1>4, NodeSpeaks
<1> QED
  BY <1>1, <1>5, <1>6, TurnIsSeenAsTurn

LEMMA PollIsSeenAsTurn ==
  ASSUME ContractKept, IInv, AInv, Sending, NEW e \in events, PopInterferencePoll(e)
  PROVE  Bc!Next
<1>1. Pops(e, "InterferencePoll") /\ UNCHANGED <<nodes, joined, batch, delivering, cursor>>
  BY DEF PopInterferencePoll, registry, deliveryVars
<1>2. e.time \in Nat /\ Registered(e) /\ e.kind = "InterferencePoll"
  BY <1>1, PoppedEvent
<1>3. e.who \in DOMAIN heard
  BY <1>2 DEF Registered
<1>4. PICK answer \in Answers(e.time) :
        \/ InterfererStaysSilent(e.time, events \ {e},
                                 Requests(answer, "InterferencePoll", e.who))
        \/ InterfererInjects(e.who, e.time, events \ {e},
                             Requests(answer, "InterferencePoll", e.who))
  BY DEF PopInterferencePoll
<1>5. NewFrame \/ SameAir
  BY <1>2, <1>3, <1>4, InterfererOnTheAir
<1>6. /\ now' = e.time /\ SameTotals(metrics)
      /\ Bc!Silence \/ \E sender \in Senders : Bc!Sends(sender, e.time)
  BY <1>2, <1>3, <1>4, InterfererSpeaks
<1> QED
  BY <1>1, <1>5, <1>6, TurnIsSeenAsTurn

(* resolve_at only moves frames that are still to be settled.              *)
LEMMA CompletionIsSeenAsTurn ==
  ASSUME ContractKept, IInv, AInv, NEW e \in events, PopTxComplete(e)
  PROVE  Bc!Next
<1>1. /\ Pops(e, "TxComplete") /\ Ch!ResolveAt(e.time)
      /\ UNCHANGED <<nodes, joined, batch, delivering, cursor, metrics>>
  BY DEF PopTxComplete, registry, deliveryVars
<1>2. completed = {}
  BY <1>1, PoppedEvent
<1>3. /\ now' = e.time /\ frames' = frames /\ collided' = collided
      /\ active' \cup completed' = active \cup completed
  BY <1>1, <1>2 DEF Ch!ResolveAt, Ch!Over
<1>4. Settled' = Settled
  BY <1>1, <1>3 DEF Settled, Ch!FrameIds
<1>5. \A i : ReceivedAt(i)' = ReceivedAt(i)
  BY <1>1, <1>3, <1>4 DEF ReceivedAt
<1>6. Bc!Silence /\ SameTotals(metrics)
  BY <1>1, <1>3 DEF Bc!Silence, SameTotals
<1> QED
  BY <1>1, <1>3, <1>4, <1>5, <1>6, PopIsTurn

-----------------------------------------------------------------------------
(* The frame that the loop takes from the batch is the next to settle.     *)
LEMMA TakenIsNextToSettle ==
  ASSUME IInv, AInv, Ordered, NEW id, TakesFrame(id)
  PROVE  Bc!IsNextToSettle(id)
<1>1. /\ id \in batch /\ delivering = NoFrame /\ completed = {}
      /\ id \in Unsettled /\ id \notin active /\ id \in Ch!FrameIds
  BY TakenFrame DEF AInv
<1>2. frames[id].end = now
  BY <1>1 DEF IInv, DeliveredAtItsEnd
<1>3. ASSUME NEW g \in Unsettled \ {id}
      PROVE  EarlierEnd(id, g)
  <2>1. CASE g \in active
    BY <1>1, <2>1 DEF Ordered, OffTheAir
  <2>2. CASE g \in batch
    BY <1>3, <2>2, TakenFrameIsFirst
  <2> QED
    BY <1>1, <1>3, <2>1, <2>2 DEF Unsettled
<1> QED
  BY <1>1, <1>2, <1>3, PendingIsUnsettled, SameRules DEF Bc!IsNextToSettle

(* So is the one in delivery, as long as it is.                            *)
LEMMA DeliveredIsNextToSettle ==
  ASSUME IInv, AInv, Ordered, pc = "deliver", delivering # NoFrame
  PROVE  Bc!IsNextToSettle(delivering)
<1>1. /\ delivering \in Ch!FrameIds /\ delivering \in Unsettled
      /\ frames[delivering].end = now
  BY FrameInDelivery DEF AInv
<1>2. completed = {} /\ delivering \notin active
  BY DEF IInv, Phases, AInv, Apart
<1>3. ASSUME NEW g \in Unsettled \ {delivering}
      PROVE  EarlierEnd(delivering, g)
  <2>1. CASE g \in active
    BY <1>1, <1>2, <2>1 DEF Ordered, OffTheAir
  <2>2. CASE g \in batch
    BY <2>2 DEF Ordered
  <2> QED
    BY <1>2, <1>3, <2>1, <2>2 DEF Unsettled
<1> QED
  BY <1>1, <1>3, PendingIsUnsettled, SameRules DEF Bc!IsNextToSettle

(* A collision is counted, and the frame is settled unheard.               *)
LEMMA SkipCollidedIsLose ==
  ASSUME IInv, AInv, Ordered, Ch!CollidedIffDestroyed,
         NEW id \in batch, SkipCollided(id)
  PROVE  Bc!Next
<1>1. TakesFrame(id) /\ id \in collided /\ UNCHANGED <<now, frames, nodes, joined>>
  BY DEF SkipCollided, TakesFrame, channelVars, registry
<1>2. id \in Ch!FrameIds /\ Bc!IsNextToSettle(id)
  BY <1>1, TakenFrame, TakenIsNextToSettle DEF AInv
<1>3. Bc!IsDestroyed(frames, id)
  BY <1>1, <1>2, SameRules DEF Ch!CollidedIffDestroyed
<1>4. Settled' = Settled \cup {id} /\ HeardBy' = HeardBy
  BY <1>1, SkipCollidedSettles, HeardByNoMore DEF AInv
<1>5. /\ metrics'.collisions = metrics.collisions + 1
      /\ metrics'.tx = metrics.tx /\ metrics'.rx = metrics.rx
  BY DEF SkipCollided, RecordCollision, IInv, TypeOK, Counters
<1>6. Bc!Lose(id)
  BY <1>1, <1>2, <1>3, <1>4, <1>5 DEF Bc!Lose
<1> QED
  BY <1>2, <1>6 DEF Bc!Next, Bc!IsNextToSettle

(* A delivery is one hearing, with the reply to it.                        *)
LEMMA DeliverIsHear ==
  ASSUME IInv, AInv, Ordered, Ch!CollidedIffDestroyed,
         NEW i \in DOMAIN nodes, Deliver(i)
  PROVE  Bc!Next
<1>1. /\ pc = "deliver" /\ i = cursor /\ cursor' = i + 1 /\ delivering # NoFrame
      /\ nodes[i] # frames[delivering].sender
      /\ UNCHANGED <<nodes, joined, batch, delivering>>
  BY DEF Deliver, AtNode, IsSender, registry
<1>2. /\ delivering \in Ch!FrameIds /\ delivering \notin collided
      /\ delivering > joined[i] /\ Bc!IsNextToSettle(delivering)
  BY <1>1, FrameInDelivery, DeliveredIsNextToSettle DEF AInv
<1>3. ~ Bc!IsDestroyed(frames, delivering)
  BY <1>2, SameRules DEF Ch!CollidedIffDestroyed
<1>4. i \in Bc!Audience(delivering)
  <2>1. joined[i] \in Nat /\ delivering \in Nat
    BY <1>2, FrameSets, RegistrationIsNumbered
  <2>2. joined[i] < delivering
    BY <1>2, <2>1
  <2> QED
    BY <1>1, <2>2 DEF Bc!Audience
<1>5. PICK answer \in Answers(now) :
        HandlePollTransmit(i, now, events, Requests(answer, "Wake", nodes[i]),
                           RecordRx(metrics, nodes[i]))
  BY DEF Deliver
<1>6. /\ now \in Nat /\ RecordRx(metrics, nodes[i]) \in Counters
      /\ RecordRx(metrics, nodes[i]).tx = metrics.tx
      /\ RecordRx(metrics, nodes[i]).collisions = metrics.collisions
      /\ RecordRx(metrics, nodes[i]).rx = [metrics.rx EXCEPT ![nodes[i]] = @ + 1]
  <2>1. now \in Nat /\ nodes[i] \in NodeIds /\ metrics \in Counters
    BY FrameTimes DEF IInv, TypeOK
  <2> QED
    BY <2>1, RecordingKeepsType DEF RecordRx, Counters
<1>7. /\ NewFrame \/ SameAir
      /\ now' = now /\ SameTotals(RecordRx(metrics, nodes[i]))
      /\ Bc!Silence \/ Bc!Sends(nodes[i], now)
  BY <1>5, <1>6, NodeOnTheAir, NodeSpeaks
<1>8. Settled' = Settled
  BY <1>1, <1>7, TurnKeepsFrames
<1>9. <<delivering, i>> \notin HeardBy /\ HeardBy' = HeardBy \cup {<<delivering, i>>}
  <2>1. /\ delivering \notin ReceivedAt(i)
        /\ ReceivedAt(i)' = ReceivedAt(i) \cup {delivering}
        /\ \A j \in DOMAIN nodes \ {i} : ReceivedAt(j)' = ReceivedAt(j)
    BY <1>1, <1>7, NodeHears DEF AInv
  <2> QED
    BY <1>1, <2>1, OneHearingMore
<1>10. Bc!Hear(delivering, i)
  BY <1>1, <1>2, <1>3, <1>4, <1>6, <1>7, <1>8, <1>9 DEF Bc!Hear, SameTotals
<1> QED
  BY <1>2, <1>10 DEF Bc!Next, Bc!IsNextToSettle

(* The delivery ends when each node that was there has heard the frame.    *)
LEMMA EndDeliveryIsPass ==
  ASSUME IInv, AInv, Ordered, Ch!CollidedIffDestroyed, EndDelivery
  PROVE  Bc!Next
<1>1. /\ pc = "deliver" /\ delivering # NoFrame
      /\ UNCHANGED <<now, frames, nodes, joined, metrics>>
  BY DEF EndDelivery, channelVars, registry
<1>2. /\ delivering \in Ch!FrameIds /\ delivering \notin collided
      /\ Bc!IsNextToSettle(delivering)
  BY <1>1, FrameInDelivery, DeliveredIsNextToSettle DEF AInv
<1>3. /\ Settled' = Settled \cup {delivering}
      /\ \A i \in DOMAIN nodes : i < cursor /\ ReceivedAt(i)' = ReceivedAt(i)
  BY DeliveryCloses DEF AInv
<1>4. {delivering} \X Bc!Audience(delivering) \subseteq HeardBy
  <2>1. ASSUME NEW i \in Bc!Audience(delivering)
        PROVE  delivering \in ReceivedAt(i) /\ i \in DOMAIN nodes
    <3>1. i \in DOMAIN nodes /\ nodes[i] # frames[delivering].sender
      BY <2>1 DEF Bc!Audience
    <3>2. delivering \in LookedAt /\ delivering > joined[i]
      BY <1>1, <3>1, FrameInDelivery DEF AInv
    <3> QED
      BY <1>2, <1>3, <3>1, <3>2, Received
  <2> QED
    BY <2>1 DEF HeardBy
<1>5. HeardBy' = HeardBy
  BY <1>1, <1>3, HeardByNoMore
<1>6. ~ Bc!IsDestroyed(frames, delivering)
  BY <1>2, SameRules DEF Ch!CollidedIffDestroyed
<1>7. Bc!Pass(delivering)
  BY <1>1, <1>2, <1>3, <1>4, <1>5, <1>6 DEF Bc!Pass
<1> QED
  BY <1>2, <1>7 DEF Bc!Next, Bc!IsNextToSettle

(* Registration adds a place, at which nothing was heard.                  *)
LEMMA AddNodeIsJoin ==
  ASSUME IInv, AInv, NEW id \in NodeIds, AddNode(id)
  PROVE  Bc!Next
<1> PICK last : last = Len(nodes) + 1
  OBVIOUS
<1>1. /\ Len(nodes) < MaxNodes
      /\ nodes' = Append(nodes, id) /\ joined' = Append(joined, Len(frames))
      /\ UNCHANGED <<now, frames, metrics>>
  BY DEF AddNode, channelVars
<1>2. /\ DOMAIN nodes' = DOMAIN nodes \cup {last}
      /\ Settled' = Settled
      /\ \A i \in DOMAIN nodes : ReceivedAt(i)' = ReceivedAt(i)
      /\ ReceivedAt(last)' = {}
  BY NewcomerHasHeardNothing
<1>3. HeardBy' = HeardBy
  <2>1. \A r : r \in HeardBy <=>
          \E j \in DOMAIN nodes : \E g \in ReceivedAt(j) : r = <<g, j>>
    BY DEF HeardBy
  <2>2. \A r : r \in HeardBy' <=>
          \E j \in DOMAIN nodes' : \E g \in ReceivedAt(j)' : r = <<g, j>>
    BY DEF HeardBy
  <2>3. \A r : r \in HeardBy' <=> r \in HeardBy
    BY <1>2, <2>1, <2>2
  <2>4. HeardBy' \subseteq HeardBy /\ HeardBy \subseteq HeardBy'
    BY <2>3
  <2> QED
    BY <2>4
<1>4. Bc!Join(id)
  BY <1>1, <1>2, <1>3 DEF Bc!Join
<1> QED
  BY <1>4 DEF Bc!Next

(* Every step of the scheduler is one of the broadcast or is not seen.     *)
LEMMA StepIsBroadcast ==
  ContractKept /\ IInv /\ AInv /\ Sending /\ Ordered /\ Ch!CollidedIffDestroyed /\ [Next]_vars
    => [Bc!Next]_(Bc!broadcastVars)
<1> SUFFICES ASSUME ContractKept, IInv, AInv, Sending, Ordered, Ch!CollidedIffDestroyed,
                    [Next]_vars
             PROVE  [Bc!Next]_(Bc!broadcastVars)
  OBVIOUS
<1>1. CASE Setup
  <2>1. ASSUME NEW firstPoll, AddInterferer(firstPoll)
        PROVE  UNCHANGED Bc!broadcastVars
    BY <2>1, UnseenStep DEF AddInterferer, channelVars, deliveryVars
  <2>2. CASE Run
    BY <2>2, UnseenStep DEF Run, channelVars, registry, deliveryVars
  <2> QED
    BY <1>1, <2>1, <2>2, AddNodeIsJoin DEF Setup
<1>2. CASE Loop
  <2>1. CASE Stop
    BY <2>1, UnseenStep DEF Stop, channelVars, registry, deliveryVars
  <2> QED
    BY <1>2, <2>1, WakeIsSeenAsTurn, PollIsSeenAsTurn, CompletionIsSeenAsTurn DEF Loop
<1>3. CASE Delivery
  <2>1. CASE Drain
    <3>1. /\ batch' = completed /\ completed' = {} /\ batch = {} /\ delivering = NoFrame
          /\ UNCHANGED <<now, frames, active, collided, nodes, joined, delivering, cursor,
                         metrics>>
      BY <2>1 DEF Drain, Ch!DrainCompleted, registry, IInv, Phases
    <3>2. Settled' = Settled
      BY <3>1 DEF Settled, Ch!FrameIds
    <3> QED
      BY <3>1, <3>2, HiddenStep DEF ReceivedAt, SameTotals
  <2>2. ASSUME NEW id \in batch, StartDelivery(id)
        PROVE  UNCHANGED Bc!broadcastVars
    <3>1. metrics'.tx = metrics.tx /\ SameTotals(metrics)
      BY <2>2 DEF StartDelivery, RecordCapture, IInv, TypeOK, Counters, SameTotals
    <3> QED
      BY <2>2, <3>1, DeliveryOpens, HiddenStep
         DEF AInv, StartDelivery, TakesFrame, channelVars, registry
  <2>3. ASSUME NEW i \in DOMAIN nodes, SkipSender(i)
        PROVE  UNCHANGED Bc!broadcastVars
    BY <2>3, SenderHearsNothing, HiddenStep
       DEF SkipSender, AtNode, channelVars, registry, SameTotals
  <2>4. CASE EndBatch
    BY <2>4, UnseenStep DEF EndBatch, channelVars, registry, deliveryVars
  <2> QED
    BY <1>3, <2>1, <2>2, <2>3, <2>4, SkipCollidedIsLose, DeliverIsHear,
       EndDeliveryIsPass DEF Delivery
<1>4. CASE UNCHANGED vars
  BY <1>4, UnseenStep DEF vars, channelVars, registry, deliveryVars
<1> QED
  BY <1>1, <1>2, <1>3, <1>4 DEF Next

(***************************************************************************)
(* If callers keep the timer contract, the scheduler is the broadcast that *)
(* it promises to the nodes: run() with its queue, its channel and its     *)
(* delivery loop lets each frame that comes through be heard once by each  *)
(* node that was there, at its end, in order, before anything else; and    *)
(* the counters move in the very steps that they count.                    *)
(***************************************************************************)
THEOREM SchedulerIsBroadcast ==
  ASSUME Delays \subseteq Nat
  PROVE  Spec => ImplementsBroadcast
<1>1. Init => Bc!Init
  BY DEF Init, Ch!Init, Bc!Init, Settled, HeardBy, Ch!FrameIds, NoMetrics
<1>2. IInv /\ AInv /\ Sending /\ Ordered /\ Ch!CollidedIffDestroyed /\ [Next]_vars
        => [Bc!Next]_(Bc!broadcastVars)
  BY StepIsBroadcast DEF ContractKept
<1>3. Spec => []Ch!CollidedIffDestroyed
  BY DeliveryGoesByTrueVerdicts, PTL
<1> QED
  BY <1>1, <1>2, <1>3, Inductive, AccountsAreKept, SendingIsKept, OrderIsKept, PTL
     DEF Spec, ImplementsBroadcast, Bc!Spec

-----------------------------------------------------------------------------
(***************************************************************************)
(* What the scheduler does with the callbacks of a given node.             *)
(***************************************************************************)

(* find_node_idx finds the node with the identifier.                       *)
LEMMA FoundNode ==
  ASSUME IInv, NEW id, \E i \in DOMAIN nodes : nodes[i] = id
  PROVE  FindNode(id) \in DOMAIN nodes /\ nodes[FindNode(id)] = id
<1> DEFINE S == {i \in DOMAIN nodes : nodes[i] = id}
<1>1. S \in SUBSET Nat /\ S # {}
  BY FrameSets
<1>2. Min(S) \in S
  BY <1>1, LeastNumber
<1> QED
  BY <1>2 DEF FindNode

(* What asks for nothing sends nothing.                                    *)
LEMMA AsksForNothing ==
  ASSUME IInv, NEW i \in DOMAIN nodes, NEW time \in Nat, NEW answer \in Answers(time),
         NEW queue, NEW m, NEW id \in Senders,
         HandlePollTransmit(i, time, queue, Requests(answer, "Wake", id), m),
         Schedule(queue, << >>)
  PROVE  /\ NodeStaysSilent(time, queue, Requests(answer, "Wake", id), m)
         /\ events' = queue
<1> DEFINE polled == Requests(answer, "Wake", id)
<1>1. seq \in Nat /\ polled \in Seq(RequestSet)
  BY AnswerRequests DEF IInv, TypeOK
<1>2. events' = queue /\ seq' = seq
  BY <1>1 DEF Schedule
<1> HIDE DEF polled
<1>3. ASSUME NodeTransmits(i, time, queue, polled, m)
      PROVE  FALSE
  <2>1. PICK r : seq' = seq + Len(Append(polled, r))
    BY <1>3 DEF NodeTransmits, Schedule
  <2>2. Len(Append(polled, r)) = Len(polled) + 1 /\ Len(polled) \in Nat
    <3>1. polled \in Seq(RequestSet \cup {r})
      BY <1>1, SeqMonotonic
    <3> QED
      BY <3>1, AppendProperties
  <2> QED
    BY <1>1, <1>2, <2>1, <2>2
<1> QED
  BY <1>2, <1>3 DEF HandlePollTransmit, polled
=============================================================================
