------------------------ MODULE LoRaWanNetworkProofs ------------------------
(***************************************************************************)
(* What the LoRaWAN simulation guarantees for every file, any number of    *)
(* interferers and every choice of timeouts.  The argument: a step of the  *)
(* network is a step of the scheduler; the device has one wake in the      *)
(* queue at most, so the event popped is the wake that it takes it for,    *)
(* and all that is proved of the device alone holds in the network; only a *)
(* fragment handed over puts an uplink on the air, and by then the windows *)
(* of the last one have passed.                                            *)
(***************************************************************************)
EXTENDS LoRaWanNetwork, AccountingProofs

(* The device as in LoRaWanNetwork, with what is proved of it.             *)
DP == INSTANCE LoRaWanProofs WITH
  wakes <- IF pc = "setup" /\ nodes = << >> THEN <<0>> ELSE DeviceWakes(events),
  MayRefuse <- FALSE, MayReask <- FALSE, reasks <- FALSE,
  Intervals <- {Interval}, interval <- Interval

(* The nodes are registered in order, and all before the run.              *)
InPlace ==
  /\ nodes \in {<< >>, <<Device>>, <<Device, Server>>}
  /\ IF pc = "setup" THEN now = 0
     ELSE nodes = <<Device, Server>> /\ Len(heard) = Len(Channels)

OneWakeQueued == \A e, f \in WakesIn(events) : e = f

(* The device keeps its invariant until its last wake may have been lost.  *)
DeviceKept == pc # "stopped" => DP!IInv

(* No uplink reaches beyond the first window that follows the last one.    *)
UplinksOver ==
  \A f \in Uplinks : offset > 0 /\ frames[f].end <= txStart + DP!FirstWindow

(* The inductive invariant, next to those of the scheduler.                *)
NInv == InPlace /\ OneWakeQueued /\ DeviceKept /\ UplinksOver /\ OneUplinkAtATime

SInv == IInv /\ Sending

-----------------------------------------------------------------------------
(* What the assumptions say of the constants.                              *)
LEMMA NetworkConstants ==
  /\ Device \in NodeIds /\ Server \in NodeIds /\ NodeIds \subseteq Senders
  /\ NodeIds = {Device, Server}
  /\ MaxInterferers = Len(Channels)
  /\ UplinkDurations \subseteq Nat
  /\ FirstPoll \in Delays /\ 0 \in Delays /\ Delays \subseteq Nat
BY LoRaWanNetworkAssumption, SchedulerAssumption, TimerContract DEF Senders

LEMMA DeviceAssumption ==
  /\ NoBand \notin Bands
  /\ Size \in Nat /\ {Interval} \subseteq Nat /\ MaxWakes \in Nat \ {0}
  /\ Chunk \in Nat \ {0} /\ MicrosPerMilli \in Nat \ {0}
  /\ TimeoutOf \in [DP!Steps -> Nat]
  /\ TimeoutOf["open rx1"] <= TimeoutOf["close rx1"]
  /\ TimeoutOf["close rx1"] <= TimeoutOf["open rx2"]
  /\ TimeoutOf["open rx2"] <= TimeoutOf["close rx2"]
  /\ FALSE \in BOOLEAN
<1>1. MaxWakes \in Nat /\ MaxWakes # 0
  <2>1. MaxWakes \in Nat
    BY SchedulerAssumption
  <2>2. MaxWakes > 0
    BY LoRaWanNetworkAssumption
  <2> QED
    BY <2>1, <2>2
<1>2. DP!Steps = Dev!Steps
  BY DEF DP!Steps, Dev!Steps
<1>3. TimeoutOf \in [DP!Steps -> Nat]
  BY <1>2, LoRaWanNetworkAssumption
<1> QED
  BY <1>1, <1>3, LoRaWanNetworkAssumption

(* Every uplink is over before the end of its first window.                *)
LEMMA UplinkIsShort ==
  /\ DP!FirstWindow \in Nat
  /\ \A duration \in UplinkDurations : duration \in Nat /\ duration <= DP!FirstWindow
<1>1. DP!FirstWindow \in Nat
  BY DP!WindowsInOrder, DeviceAssumption
<1>2. /\ TimeoutOf["open rx1"] \in Nat /\ TimeoutOf["close rx1"] \in Nat
      /\ MicrosPerMilli \in Nat
      /\ TimeoutOf["open rx1"] <= TimeoutOf["close rx1"]
  <2>1. "open rx1" \in DP!Steps /\ "close rx1" \in DP!Steps
    BY DEF DP!Steps
  <2> QED
    BY <2>1, DeviceAssumption
<1>3. /\ TimeoutOf["open rx1"] * MicrosPerMilli \in Nat
      /\ TimeoutOf["open rx1"] * MicrosPerMilli <= TimeoutOf["close rx1"] * MicrosPerMilli
  BY <1>2, DP!ProductIsMonotonic, DeviceAssumption
<1>4. DP!FirstWindow = TimeoutOf["close rx1"] * MicrosPerMilli
  BY DEF DP!FirstWindow
<1>5. ASSUME NEW duration \in UplinkDurations
      PROVE  duration \in Nat /\ duration <= DP!FirstWindow
  <2>3. PICK rx1 : rx1 = TimeoutOf["open rx1"] * MicrosPerMilli
    OBVIOUS
  <2>1. duration \in Nat /\ duration <= rx1
    BY <2>3, NetworkConstants, UplinkAssumption
  <2>2. rx1 \in Nat /\ rx1 <= DP!FirstWindow
    BY <1>3, <1>4, <2>3
  <2> QED
    BY <1>1, <2>1, <2>2
<1> QED
  BY <1>1, <1>5

(***************************************************************************)
(* A step of the network is a step of the scheduler.                       *)
(***************************************************************************)
LEMMA NetworkStepIsStep == SInv /\ NInv /\ [NetworkNext]_networkVars => [Next]_vars
<1> SUFFICES ASSUME SInv, NInv, [NetworkNext]_networkVars
             PROVE  [Next]_vars
  OBVIOUS
<1>1. CASE NetworkSetup
  <2>1. CASE AddDevice
    BY <2>1, NetworkConstants DEF AddDevice, Setup, Next
  <2>2. CASE AddServer
    BY <2>2, NetworkConstants DEF AddServer, Setup, Next
  <2>3. CASE AddChannelInterferer
    <3>1. pc = "setup" /\ now = 0
      BY <2>3, NetworkConstants
      DEF AddChannelInterferer, AddInterferer, Registering, NInv, InPlace
    <3>2. 0 + FirstPoll = FirstPoll /\ FirstPoll >= 0 /\ FirstPoll \in Delays
      BY NetworkConstants
    <3>3. FirstPoll \in Times(now)
      BY <3>1, <3>2 DEF Times
    <3> QED
      BY <2>3, <3>3 DEF AddChannelInterferer, Setup, Next
  <2> QED
    BY <1>1, <2>1, <2>2, <2>3 DEF NetworkSetup, RunNetwork, Setup, Next
<1>2. CASE NetworkLoop
  BY <1>2 DEF NetworkLoop, DeviceWoken, InterfererPolled, Loop, Next
<1>3. CASE NetworkDelivery
  BY <1>3 DEF NetworkDelivery, DeviceHears, ServerHears, Delivery, Next
<1>4. CASE UNCHANGED networkVars
  BY <1>4 DEF networkVars
<1> QED
  BY <1>1, <1>2, <1>3, <1>4 DEF NetworkNext

-----------------------------------------------------------------------------
(***************************************************************************)
(* The device of LoRaWanNetwork is that of LoRaWanProofs.                  *)
(***************************************************************************)
Wakes == IF pc = "setup" /\ nodes = << >> THEN <<0>> ELSE DeviceWakes(events)

LEMMA SameUpdate == \A n : Dev!Update(n) <=> DP!Update(n)
BY DEF Dev!Update, Dev!UpdateIdle, Dev!OpenRx1, Dev!CloseRx1, Dev!OpenRx2, Dev!CloseRx2,
       Dev!TrySendFragment, Dev!SendFragment, Dev!LoseFragment, Dev!WaitForFile,
       Dev!TimeoutFired, Dev!GoesOn, Dev!IsNextWake, Dev!Others, Dev!AskFor, Dev!Wake,
       Dev!PollTransmit, Dev!NextAvailable, Dev!TakePayload, Dev!HasPayload, Dev!Done,
       Dev!fileVars,
       DP!Update, DP!UpdateIdle, DP!OpenRx1, DP!CloseRx1, DP!OpenRx2, DP!CloseRx2,
       DP!TrySendFragment, DP!SendFragment, DP!LoseFragment, DP!WaitForFile,
       DP!TimeoutFired, DP!GoesOn, DP!IsNextWake, DP!Others, DP!AskFor, DP!Wake,
       DP!PollTransmit, DP!NextAvailable, DP!TakePayload, DP!HasPayload, DP!Done,
       DP!fileVars, Dev!RemoveAt, DP!RemoveAt

LEMMA SameHearing ==
  \A band : /\ Dev!NotListening(band) <=> DP!NotListening(band)
            /\ Dev!NotExpected(band) <=> DP!NotExpected(band)
            /\ Dev!StrayFrame(band) <=> DP!StrayFrame(band)
            /\ Dev!StrayFrameReask(band) <=> DP!StrayFrameReask(band)
            /\ Dev!Downlink(band) <=> DP!Downlink(band)
BY DEF Dev!NotListening, Dev!NotExpected, Dev!StrayFrame, Dev!StrayFrameReask,
       Dev!Downlink, Dev!InWindow, Dev!OutOfWindow, Dev!Hears, Dev!exchange,
       Dev!PollTransmit, Dev!fileVars, Dev!AskFor, Dev!Wake,
       DP!NotListening, DP!NotExpected, DP!StrayFrame, DP!StrayFrameReask,
       DP!Downlink, DP!InWindow, DP!OutOfWindow, DP!Hears, DP!exchange,
       DP!PollTransmit, DP!fileVars, DP!AskFor, DP!Wake

LEMMA SameVars == Dev!vars = DP!vars /\ Dev!vars' = DP!vars'
BY DEF Dev!vars, Dev!parameters, Dev!fileVars, DP!vars, DP!parameters, DP!fileVars

LEMMA SameDevice == [Dev!Next]_(Dev!vars) <=> [DP!Next]_(DP!vars)
<1>1. /\ UNCHANGED Dev!parameters /\ UNCHANGED DP!parameters
      /\ UNCHANGED Dev!vars <=> UNCHANGED DP!vars
  BY SameVars DEF Dev!parameters, DP!parameters
<1>2. Dev!Next <=> DP!Next
  BY <1>1, SameUpdate, SameHearing DEF Dev!Next, DP!Next, Dev!OnReceive, DP!OnReceive
<1> QED
  BY <1>1, <1>2

-----------------------------------------------------------------------------
(***************************************************************************)
(* The wakes in the queue, as the device sees them.                        *)
(***************************************************************************)
LEMMA FewWakes ==
  ASSUME NEW queue \in SUBSET EventSet
  PROVE  /\ WakesIn(queue) = {} => DeviceWakes(queue) = << >>
         /\ \A e : WakesIn(queue) = {e} => DeviceWakes(queue) = <<e.time>>
<1>1. ASSUME WakesIn(queue) = {}
      PROVE  DeviceWakes(queue) = << >>
  <2>1. Cardinality(WakesIn(queue)) = 0
    BY <1>1, FS_EmptySet
  <2> QED
    BY <2>1 DEF DeviceWakes
<1>2. ASSUME NEW e, WakesIn(queue) = {e}
      PROVE  DeviceWakes(queue) = <<e.time>>
  <2> DEFINE first == CHOOSE f \in WakesIn(queue) :
                        Cardinality({g \in WakesIn(queue) : g.seq < f.seq}) = 1 - 1
  <2>1. Cardinality(WakesIn(queue)) = 1
    BY <1>2, FS_Singleton
  <2>2. e.seq \in Nat
    BY <1>2 DEF WakesIn, EventSet
  <2>3. {g \in WakesIn(queue) : g.seq < e.seq} = {}
    BY <1>2, <2>2
  <2>4. Cardinality({}) = 1 - 1
    BY FS_EmptySet
  <2>5. first = e
    BY <1>2, <2>3, <2>4
  <2> HIDE DEF first
  <2>6. DeviceWakes(queue) = [n \in 1..1 |-> first.time]
    BY <2>1 DEF DeviceWakes, first
  <2> QED
    BY <2>5, <2>6
<1> QED
  BY <1>1, <1>2

(* What is scheduled without a wake leaves the wakes alone.                *)
LEMMA NoWakeScheduled ==
  ASSUME NEW queue, NEW requests, Schedule(queue, requests),
         \A n \in DOMAIN requests : requests[n].kind # "Wake"
  PROVE  WakesIn(events') = WakesIn(queue)
BY DEF Schedule, WakesIn

(* A callback asks for one wake at most.                                   *)
LEMMA OneWakeAnswered ==
  ASSUME NEW time, NEW answer \in Answers(time)
  PROVE  \A n \in DOMAIN Requests(answer, "Wake", Device) : n = 1
<1>1. answer = << >> \/ \E later : answer = <<later>>
  BY DEF Answers
<1> QED
  BY <1>1 DEF Requests

LEMMA OneWakeScheduled ==
  ASSUME IInv, NEW queue, NEW time \in Nat, NEW answer \in Answers(time),
         NEW i \in DOMAIN nodes, NEW m,
         HandlePollTransmit(i, time, queue, Requests(answer, "Wake", Device), m),
         WakesIn(queue) = {}
  PROVE  OneWakeQueued'
<1> DEFINE polled == Requests(answer, "Wake", Device)
<1>1. polled \in Seq(RequestSet) /\ \A n \in DOMAIN polled : n = 1
  BY NetworkConstants, AnswerRequests, OneWakeAnswered
<1> HIDE DEF polled
<1>2. ASSUME NEW requests, Schedule(queue, requests),
             \A n \in DOMAIN requests : requests[n].kind = "Wake" => n = 1
      PROVE  OneWakeQueued'
  <2> DEFINE event(n) == [time |-> requests[n].time, seq |-> seq + n - 1,
                          kind |-> requests[n].kind, who |-> requests[n].who]
  <2>1. events' = queue \cup {event(n) : n \in DOMAIN requests}
    BY <1>2 DEF Schedule
  <2>2. \A n \in DOMAIN requests : event(n).kind = "Wake" => n = 1
    BY <1>2
  <2> HIDE DEF event
  <2>3. \A e \in WakesIn(events') : e = event(1)
    BY <2>1, <2>2 DEF WakesIn
  <2> QED
    BY <2>3 DEF OneWakeQueued
<1>3. CASE NodeStaysSilent(time, queue, polled, m)
  BY <1>1, <1>2, <1>3 DEF NodeStaysSilent
<1>4. CASE NodeTransmits(i, time, queue, polled, m)
  <2>1. PICK r : r.kind = "TxComplete" /\ Schedule(queue, Append(polled, r))
    BY <1>4 DEF NodeTransmits, Request
  <2>2. /\ DOMAIN Append(polled, r) = DOMAIN polled \cup {Len(polled) + 1}
        /\ Append(polled, r)[Len(polled) + 1] = r
    <3>1. polled \in Seq(RequestSet \cup {r}) /\ r \in RequestSet \cup {r}
      BY <1>1, SeqMonotonic
    <3> QED
      BY <3>1, AppendProperties, LenProperties
  <2>3. \A n \in DOMAIN Append(polled, r) : Append(polled, r)[n].kind = "Wake" => n = 1
    BY <1>1, <2>1, <2>2
  <2> QED
    BY <1>2, <2>1, <2>3
<1> QED
  BY <1>3, <1>4 DEF HandlePollTransmit, polled

-----------------------------------------------------------------------------
(***************************************************************************)
(* What a step must keep: the invariant, and that it is one of the device  *)
(* or leaves it alone unless the last wake is lost with it.                *)
(***************************************************************************)
DeviceSteps == pc' # "stopped" => [DP!Next]_(DP!vars)

LEMMA DeviceStepKeeps ==
  ASSUME DP!IInv, [DP!Next]_(DP!vars)
  PROVE  DP!IInv' /\ [DP!ApartStep]_(DP!vars)
BY DP!NextKeepsInvariant, DeviceAssumption

(* The device is not called, and its wake stays in the queue.              *)
LEMMA DeviceUntouched ==
  ASSUME NInv, UNCHANGED deviceVars, Wakes' = Wakes, WakesIn(events') = WakesIn(events),
         pc' # "stopped" => pc # "stopped"
  PROVE  OneWakeQueued' /\ DeviceKept' /\ DeviceSteps
<1>1. UNCHANGED DP!vars
  BY DEF DP!vars, DP!parameters, DP!fileVars, deviceVars, Wakes
<1>2. OneWakeQueued'
  BY DEF NInv, OneWakeQueued
<1>3. DeviceKept'
  BY <1>1, DeviceStepKeeps DEF NInv, DeviceKept
<1> QED
  BY <1>1, <1>2, <1>3 DEF DeviceSteps

LEMMA SameWakes ==
  ASSUME nodes # << >>, nodes' # << >>, WakesIn(events') = WakesIn(events)
  PROVE  Wakes' = Wakes
BY DEF Wakes, DeviceWakes

(* No frame begins.                                                        *)
LEMMA StillAir ==
  ASSUME UplinksOver, OneUplinkAtATime, UNCHANGED <<frames, offset, txStart>>
  PROVE  UplinksOver' /\ OneUplinkAtATime'
<1>1. Uplinks' = Uplinks
  BY DEF Uplinks, Ch!FrameIds
<1>2. DP!FirstWindow' = DP!FirstWindow
  BY DEF DP!FirstWindow
<1> QED
  BY <1>1, <1>2 DEF UplinksOver, OneUplinkAtATime

(* A frame begins that is not an uplink.                                   *)
LEMMA ForeignFrame ==
  ASSUME SInv, UplinksOver, OneUplinkAtATime, UNCHANGED <<offset, txStart>>,
         NEW sender \in Senders, sender # Device, NEW tx \in Ch!Transmissions,
         NEW time \in Nat, Ch!BeginTransmission(sender, tx, time)
  PROVE  UplinksOver' /\ OneUplinkAtATime'
<1>1. /\ Ch!FrameIds' = Ch!FrameIds \cup {Len(frames) + 1}
      /\ \A f \in Ch!FrameIds : frames'[f] = frames[f]
      /\ frames'[Len(frames) + 1].sender = sender
  BY BeginFacts DEF SInv, IInv
<1>2. Uplinks' = Uplinks /\ Uplinks \subseteq Ch!FrameIds
  BY <1>1 DEF Uplinks
<1>3. DP!FirstWindow' = DP!FirstWindow
  BY DEF DP!FirstWindow
<1>4. UplinksOver'
  BY <1>1, <1>2, <1>3 DEF UplinksOver
<1>5. \A f, g \in Uplinks' : f # g => ~ Ch!Overlaps(frames'[f], frames'[g])
  BY <1>1, <1>2 DEF OneUplinkAtATime
<1> QED
  BY <1>4, <1>5 DEF OneUplinkAtATime, Ch!Overlaps

(* An uplink begins after the windows of the last one.                     *)
LEMMA OwnFrame ==
  ASSUME SInv, UplinksOver, OneUplinkAtATime, DP!IInv, DP!ApartStep,
         NEW tx \in Ch!Transmissions, NEW time \in Nat,
         Ch!BeginTransmission(Device, tx, time), Uplink,
         txStart' = time, offset' # offset, offset' > 0
  PROVE  UplinksOver' /\ OneUplinkAtATime'
<1>1. PICK new : new = Len(frames) + 1
  OBVIOUS
<1>2. /\ Ch!FrameIds' = Ch!FrameIds \cup {new} /\ new \notin Ch!FrameIds
      /\ \A f \in Ch!FrameIds : frames'[f] = frames[f]
      /\ frames'[new].sender = Device
      /\ frames'[new].start = time /\ frames'[new].end = time + tx.duration
      /\ tx.duration \in Nat
  BY <1>1, NetworkConstants, BeginFacts, FrameSets, TransmissionEnds DEF SInv, IInv
<1>3. tx.duration \in UplinkDurations
  <2>1. frames'[new].end - frames'[new].start \in UplinkDurations
    BY <1>2 DEF Uplink, Ch!FrameIds
  <2>2. time + tx.duration - time = tx.duration
    BY <1>2
  <2> QED
    BY <1>2, <2>1, <2>2
<1>4. PICK window \in Nat : window = DP!FirstWindow /\ tx.duration <= window
  BY <1>3, UplinkIsShort
<1>5. Uplinks' = Uplinks \cup {new} /\ new \notin Uplinks /\ Uplinks \subseteq Ch!FrameIds
  BY <1>2 DEF Uplinks
<1>6. \A f \in Uplinks : frames[f].end \in Nat /\ frames[f].end <= time
  <2>1. SUFFICES ASSUME NEW f \in Uplinks
                 PROVE  frames[f].end \in Nat /\ frames[f].end <= time
    OBVIOUS
  <2>2. frames[f].end \in Nat
    BY <1>5, FrameTimes DEF SInv
  <2>3. offset > 0 /\ frames[f].end <= txStart + window
    BY <1>4 DEF UplinksOver
  <2>4. time >= txStart + window
    BY <1>4, <2>3 DEF DP!ApartStep, DP!FirstWindow
  <2>5. txStart \in Nat
    BY DEF DP!IInv, DP!TypeOK
  <2> QED
    BY <1>4, <2>2, <2>3, <2>4, <2>5
<1>7. UplinksOver'
  <2>1. ASSUME NEW f \in Uplinks'
        PROVE  frames'[f].end <= time + window
    <3>1. CASE f = new
      BY <1>2, <1>4, <3>1
    <3>2. CASE f \in Uplinks
      <4>1. frames'[f].end = frames[f].end
        BY <1>2, <1>5, <3>2
      <4> QED
        BY <1>4, <1>6, <3>2, <4>1
    <3> QED
      BY <1>5, <3>1, <3>2
  <2>2. DP!FirstWindow' = window
    BY <1>4 DEF DP!FirstWindow
  <2> QED
    BY <2>1, <2>2 DEF UplinksOver
<1>8. ASSUME NEW f \in Uplinks', NEW g \in Uplinks', f # g
      PROVE  ~ Ch!Overlaps(frames'[f], frames'[g])
  <2>1. CASE f \in Uplinks /\ g \in Uplinks
    BY <1>2, <1>5, <1>8, <2>1 DEF OneUplinkAtATime
  <2>2. CASE f = new
    <3>1. g \in Uplinks /\ frames'[g].end = frames[g].end
      BY <1>2, <1>5, <1>8, <2>2
    <3>2. ~ (frames'[f].start < frames'[g].end)
      BY <1>2, <1>6, <2>2, <3>1
    <3> QED
      BY <3>2 DEF Ch!Overlaps
  <2>3. CASE g = new
    <3>1. f \in Uplinks /\ frames'[f].end = frames[f].end
      BY <1>2, <1>5, <1>8, <2>3
    <3>2. ~ (frames'[g].start < frames'[f].end)
      BY <1>2, <1>6, <2>3, <3>1
    <3> QED
      BY <3>2 DEF Ch!Overlaps
  <2> QED
    BY <1>5, <2>1, <2>2, <2>3
<1> QED
  BY <1>7, <1>8 DEF OneUplinkAtATime, Ch!Overlaps

-----------------------------------------------------------------------------
(***************************************************************************)
(* The callbacks of the device.                                            *)
(***************************************************************************)
LEMMA WhileRunning ==
  ASSUME SInv, NInv, pc \notin {"setup", "stopped"}
  PROVE  /\ nodes = <<Device, Server>> /\ nodes # << >> /\ nodes[1] = Device
         /\ 1 \in DOMAIN nodes
         /\ Wakes = DeviceWakes(events) /\ DP!IInv
         /\ Len(heard) = Len(Channels)
BY DEF NInv, InPlace, DeviceKept, Wakes

(* The event popped is the one wake of the device.                         *)
LEMMA PoppedWake ==
  ASSUME SInv, NInv, NEW e \in events, e.kind = "Wake", e.who = Device,
         pc \notin {"setup", "stopped"}
  PROVE  /\ WakesIn(events) = {e} /\ WakesIn(events \ {e}) = {}
         /\ Wakes = <<e.time>>
<1>1. WakesIn(events) = {e}
  BY DEF NInv, OneWakeQueued, WakesIn
<1>2. WakesIn(events \ {e}) = {}
  BY <1>1 DEF WakesIn
<1>3. events \in SUBSET EventSet
  BY DEF SInv, IInv, TypeOK
<1> QED
  BY <1>1, <1>2, <1>3, FewWakes, WhileRunning

LEMMA DeviceWokenKeeps ==
  ASSUME SInv, NInv, NEW e \in events, DeviceWoken(e)
  PROVE  NInv' /\ DeviceSteps
<1>1. /\ PopWake(e) /\ e.who = Device /\ Uplink
      /\ \E n \in DOMAIN DeviceWakes(events) : Dev!Update(n)
  BY DEF DeviceWoken
<1>2. e.time \in Nat /\ e.kind = "Wake" /\ pc = "loop"
  BY <1>1, PoppedEvent DEF PopWake, SInv
<1>3. /\ WakesIn(events) = {e} /\ WakesIn(events \ {e}) = {} /\ Wakes = <<e.time>>
      /\ nodes # << >> /\ \E i \in DOMAIN nodes : nodes[i] = Device
      /\ Wakes = DeviceWakes(events) /\ DP!IInv
  BY <1>1, <1>2, PoppedWake, WhileRunning
<1>4. /\ 1 \in DOMAIN DeviceWakes(events) /\ DeviceWakes(events)[1] = e.time
      /\ DP!Update(1)
  BY <1>1, <1>3, SameUpdate
<1>5. /\ \/ /\ sent' = sent + 1
            /\ txStart' = e.time /\ offset' # offset /\ offset' > 0
         \/ DP!KeepsQuiet
  <2>1. /\ 1 \in DOMAIN Wakes /\ Wakes[1] = e.time
    BY <1>3, <1>4
  <2>2. \/ /\ sent' = sent + 1
           /\ txStart' = Wakes[1] /\ offset' # offset /\ offset' > 0
        \/ FALSE /\ refused' = refused + 1
        \/ DP!KeepsQuiet
    BY <1>3, <1>4, <2>1, DP!UpdateSends, DeviceAssumption DEF Wakes
  <2> QED
    BY <2>1, <2>2
<1>6. DP!Next
  <2>1. 1 \in DOMAIN Wakes
    BY <1>3, <1>4
  <2> QED
    BY <1>4, <2>1 DEF DP!Next, DP!parameters, Wakes
<1>7. DP!IInv' /\ (DP!ApartStep \/ UNCHANGED DP!vars)
  BY <1>3, <1>6, DeviceStepKeeps
<1>8. FindNode(Device) \in DOMAIN nodes /\ nodes[FindNode(Device)] = Device
  BY <1>3, FoundNode DEF SInv
<1>9. PICK answer \in Answers(e.time) :
        HandlePollTransmit(FindNode(Device), e.time, events \ {e},
                           Requests(answer, "Wake", Device), metrics)
  BY <1>1 DEF PopWake
<1>10. OneWakeQueued'
  BY <1>2, <1>3, <1>8, <1>9, OneWakeScheduled DEF SInv
<1>11. sent \in Nat /\ Len(frames) \in Nat
  BY <1>3, FrameSets DEF SInv, DP!IInv, DP!TypeOK
<1>12. UplinksOver' /\ OneUplinkAtATime'
  <2>1. CASE NodeStaysSilent(e.time, events \ {e}, Requests(answer, "Wake", Device), metrics)
    <3>1. frames' = frames
      BY <2>1 DEF NodeStaysSilent, channelVars
    <3>2. sent' # sent + 1
      BY <1>1, <1>11, <3>1 DEF Uplink
    <3> QED
      BY <1>5, <3>1, <3>2, StillAir DEF NInv, DP!KeepsQuiet
  <2>2. CASE NodeTransmits(FindNode(Device), e.time, events \ {e},
                           Requests(answer, "Wake", Device), metrics)
    <3>1. PICK tx \in Ch!Transmissions : Ch!BeginTransmission(Device, tx, e.time)
      BY <1>8, <2>2 DEF NodeTransmits
    <3>2. Len(frames') = Len(frames) + 1
      BY <3>1 DEF Ch!BeginTransmission, SInv, IInv, TypeOK, Ch!TypeOK
    <3>3. sent' # sent
      BY <1>1, <1>11, <3>2 DEF Uplink
    <3>4. txStart' = e.time /\ offset' # offset /\ offset' > 0
      BY <1>5, <3>3 DEF DP!KeepsQuiet
    <3>5. DP!ApartStep
      BY <1>7, <3>4 DEF DP!vars, DP!fileVars
    <3> QED
      BY <1>1, <1>2, <1>3, <3>1, <3>4, <3>5, OwnFrame DEF NInv
  <2> QED
    BY <1>9, <2>1, <2>2 DEF HandlePollTransmit
<1>13. InPlace'
  <2>1. UNCHANGED <<pc, nodes>> /\ Len(heard') = Len(heard)
    BY <1>1, <1>2, WakeIsTurn DEF PopWake, registry, Observed, SInv
  <2> QED
    BY <1>2, <2>1 DEF NInv, InPlace
<1> QED
  BY <1>6, <1>7, <1>10, <1>12, <1>13 DEF NInv, DeviceKept, DeviceSteps

(* What a node hears without a reply moves nothing but the cursor.         *)
LEMMA HearsInSilence ==
  ASSUME SInv, NInv, NEW i \in DOMAIN nodes, Deliver(i), Schedule(events, << >>)
  PROVE  /\ UNCHANGED <<events, frames, nodes, pc, heard>>
         /\ pc = "deliver" /\ delivering \in Ch!FrameIds
         /\ Wakes' = Wakes /\ InPlace'
<1>1. /\ pc = "deliver" /\ delivering # NoFrame /\ UNCHANGED <<nodes, pc>>
  BY DEF Deliver, AtNode, registry
<1>2. nodes[i] \in Senders /\ now \in Nat
  <2>1. nodes[i] \in NodeIds
    BY FrameSets DEF SInv
  <2> QED
    BY <2>1, NetworkConstants, FrameTimes DEF SInv
<1>3. PICK answer \in Answers(now) :
        HandlePollTransmit(i, now, events, Requests(answer, "Wake", nodes[i]),
                           RecordRx(metrics, nodes[i]))
  BY DEF Deliver
<1>4. /\ events' = events
      /\ NodeStaysSilent(now, events, Requests(answer, "Wake", nodes[i]),
                         RecordRx(metrics, nodes[i]))
  BY <1>2, <1>3, AsksForNothing DEF SInv
<1>5. frames' = frames /\ heard' = heard
  BY <1>4 DEF NodeStaysSilent, channelVars
<1>6. delivering \in Ch!FrameIds
  BY <1>1, FrameSets DEF SInv
<1>7. Wakes' = Wakes
  BY <1>1, <1>4 DEF Wakes
<1>8. InPlace'
  BY <1>1, <1>5 DEF NInv, InPlace
<1> QED
  BY <1>1, <1>4, <1>5, <1>6, <1>7, <1>8

LEMMA DeviceHearsKeeps ==
  ASSUME SInv, NInv, NEW i \in DOMAIN nodes, DeviceHears(i)
  PROVE  NInv' /\ DeviceSteps
<1> PICK band : band = frames[delivering].band
  OBVIOUS
<1>1. /\ UNCHANGED <<events, frames, pc>> /\ pc = "deliver"
      /\ delivering \in Ch!FrameIds /\ InPlace'
  BY HearsInSilence DEF DeviceHears
<1>2. band \in Bands
  <2>1. frames[delivering] \in Ch!Frame
    BY <1>1 DEF SInv, IInv, TypeOK, Ch!TypeOK, Ch!FrameIds
  <2> QED
    BY <2>1 DEF Ch!Frame
<1>3. DP!NotListening(band) \/ DP!NotExpected(band) \/ DP!StrayFrame(band)
  BY SameHearing DEF DeviceHears
<1>4. DP!Next
  BY <1>2, <1>3 DEF DP!Next, DP!OnReceive, DP!parameters
<1>5. DP!IInv /\ DP!IInv'
  BY <1>1, <1>4, WhileRunning, DeviceStepKeeps
<1>6. offset' = offset /\ txStart' = txStart
  <2>1. DP!Hears
    BY <1>3 DEF DP!NotListening, DP!NotExpected, DP!StrayFrame, DP!OutOfWindow, DP!InWindow
  <2> QED
    BY <2>1 DEF DP!Hears, DP!fileVars
<1>7. UplinksOver' /\ OneUplinkAtATime'
  BY <1>1, <1>6, StillAir DEF NInv
<1>8. OneWakeQueued'
  BY <1>1 DEF NInv, OneWakeQueued, WakesIn
<1> QED
  BY <1>1, <1>4, <1>5, <1>7, <1>8 DEF NInv, DeviceKept, DeviceSteps

-----------------------------------------------------------------------------
(***************************************************************************)
(* The steps in which the device is not called.                            *)
(***************************************************************************)
LEMMA ServerHearsKeeps ==
  ASSUME SInv, NInv, NEW i \in DOMAIN nodes, ServerHears(i)
  PROVE  NInv' /\ DeviceSteps
<1>1. /\ UNCHANGED <<events, frames, pc>> /\ Wakes' = Wakes /\ InPlace'
      /\ UNCHANGED deviceVars
  BY HearsInSilence DEF ServerHears
<1>2. WakesIn(events') = WakesIn(events)
  BY <1>1
<1>3. OneWakeQueued' /\ DeviceKept' /\ DeviceSteps
  BY <1>1, <1>2, DeviceUntouched
<1>4. UplinksOver' /\ OneUplinkAtATime'
  BY <1>1, StillAir DEF NInv, deviceVars
<1> QED
  BY <1>1, <1>3, <1>4 DEF NInv

LEMMA InterfererPolledKeeps ==
  ASSUME SInv, NInv, NEW e \in events, InterfererPolled(e)
  PROVE  NInv' /\ DeviceSteps
<1>1. /\ PopInterferencePoll(e) /\ UNCHANGED deviceVars
      /\ \E requests :
           /\ Schedule(events \ {e}, requests)
           /\ \A n \in DOMAIN requests : requests[n].kind # "Wake"
  <2> DEFINE requests ==
               <<Request(e.time + InterfererDuration, "TxComplete", SyntheticId(e.who)),
                 Request(e.time + Period, "InterferencePoll", e.who)>>
  <2>1. Schedule(events \ {e}, requests)
    BY DEF InterfererPolled
  <2>2. \A n \in DOMAIN requests : requests[n].kind # "Wake"
    BY DEF Request
  <2> HIDE DEF requests
  <2> QED
    BY <2>1, <2>2 DEF InterfererPolled
<1>2. /\ e.time \in Nat /\ e.kind = "InterferencePoll" /\ pc = "loop"
      /\ e.who \in DOMAIN heard
  BY <1>1, PoppedEvent DEF PopInterferencePoll, Registered, SInv
<1>3. nodes # << >> /\ 1 \in DOMAIN nodes /\ nodes[1] = Device
  BY <1>2, WhileRunning
<1>4. UNCHANGED <<pc, nodes>> /\ Len(heard') = Len(heard)
  BY <1>1, PollIsTurn DEF PopInterferencePoll, registry, Observed, SInv
<1>5. WakesIn(events') = WakesIn(events)
  <2>1. WakesIn(events') = WakesIn(events \ {e})
    BY <1>1, NoWakeScheduled
  <2>2. WakesIn(events \ {e}) = WakesIn(events)
    BY <1>2 DEF WakesIn
  <2> QED
    BY <2>1, <2>2
<1>6. OneWakeQueued' /\ DeviceKept' /\ DeviceSteps
  BY <1>1, <1>3, <1>4, <1>5, SameWakes, DeviceUntouched
<1>7. InPlace'
  BY <1>4 , <1>2 DEF NInv, InPlace
<1>8. UplinksOver' /\ OneUplinkAtATime'
  <2>1. CASE frames' = frames
    BY <1>1, <2>1, StillAir DEF NInv, deviceVars
  <2>2. CASE \E tx \in Ch!Transmissions :
               Ch!BeginTransmission(SyntheticId(e.who), tx, e.time)
    <3>1. SyntheticId(e.who) # Device
      BY <1>2, <1>3 DEF SInv, Sending
    <3>2. SyntheticId(e.who) \in Senders
      BY <1>2, InterfererIsSender DEF SInv
    <3> QED
      BY <1>1, <1>2, <2>2, <3>1, <3>2, ForeignFrame DEF NInv, deviceVars
  <2> QED
    BY <1>1, <2>1, <2>2
    DEF PopInterferencePoll, InterfererStaysSilent, InterfererInjects, channelVars
<1> QED
  BY <1>6, <1>7, <1>8 DEF NInv

(* The steps of the loops in between.                                      *)
LEMMA QuietStepKeepsNetwork ==
  ASSUME SInv, NInv, pc \notin {"setup", "stopped"}, pc' # "setup",
         UNCHANGED <<deviceVars, frames, nodes>>, Len(heard') = Len(heard),
         WakesIn(events') = WakesIn(events)
  PROVE  NInv' /\ DeviceSteps
<1>1. nodes # << >> /\ nodes = <<Device, Server>> /\ Len(heard) = Len(Channels)
  BY WhileRunning
<1>2. OneWakeQueued' /\ DeviceKept' /\ DeviceSteps
  BY <1>1, SameWakes, DeviceUntouched
<1>3. UplinksOver' /\ OneUplinkAtATime'
  BY StillAir DEF NInv, deviceVars
<1>4. InPlace'
  BY <1>1 DEF InPlace
<1> QED
  BY <1>2, <1>3, <1>4 DEF NInv

LEMMA StopKeepsNetwork ==
  ASSUME SInv, NInv, Stop, UNCHANGED deviceVars
  PROVE  NInv' /\ DeviceSteps
<1>1. /\ pc = "loop" /\ pc' = "stopped" /\ events' \subseteq events
      /\ UNCHANGED <<now, frames, nodes, heard>>
  BY DEF Stop, channelVars, registry
<1>2. UplinksOver' /\ OneUplinkAtATime'
  BY <1>1, StillAir DEF NInv, deviceVars
<1>3. InPlace'
  BY <1>1 DEF NInv, InPlace
<1>4. OneWakeQueued'
  BY <1>1 DEF NInv, OneWakeQueued, WakesIn
<1> QED
  BY <1>1, <1>2, <1>3, <1>4 DEF NInv, DeviceKept, DeviceSteps

LEMMA LoopKeepsNetwork ==
  ASSUME SInv, NInv, NetworkLoop
  PROVE  NInv' /\ DeviceSteps
<1>1. ASSUME NEW e \in events, PopTxComplete(e), UNCHANGED deviceVars
      PROVE  NInv' /\ DeviceSteps
  <2>1. /\ pc = "loop" /\ pc' = "drain" /\ events' = events \ {e} /\ e.kind = "TxComplete"
        /\ UNCHANGED <<frames, nodes>> /\ ObserveCompletions(Ch!Over(e.time))
    BY <1>1 DEF PopTxComplete, Pops, Ch!ResolveAt, registry
  <2>2. WakesIn(events') = WakesIn(events)
    BY <2>1 DEF WakesIn
  <2>3. Len(heard') = Len(heard)
    BY <2>1, CompletionsAreEvents DEF SInv, IInv
  <2> QED
    BY <1>1, <2>1, <2>2, <2>3, QuietStepKeepsNetwork
<1> QED
  BY <1>1, DeviceWokenKeeps, InterfererPolledKeeps, StopKeepsNetwork DEF NetworkLoop

LEMMA DeliveryKeepsNetwork ==
  ASSUME SInv, NInv, NetworkDelivery
  PROVE  NInv' /\ DeviceSteps
<1>1. ASSUME \/ Drain
             \/ \E id \in batch : SkipCollided(id) \/ StartDelivery(id)
             \/ \E i \in DOMAIN nodes : SkipSender(i)
             \/ EndDelivery
             \/ EndBatch,
             UNCHANGED deviceVars
      PROVE  NInv' /\ DeviceSteps
  <2>1. /\ pc \in {"drain", "deliver"} /\ pc' \in {"deliver", "loop"}
        /\ UNCHANGED <<events, frames, nodes, heard>>
    BY <1>1
    DEF Drain, SkipCollided, StartDelivery, TakesFrame, SkipSender, AtNode, EndDelivery,
        EndBatch, Ch!DrainCompleted, channelVars, registry
  <2> QED
    BY <1>1, <2>1, QuietStepKeepsNetwork
<1> QED
  BY <1>1, DeviceHearsKeeps, ServerHearsKeeps DEF NetworkDelivery

-----------------------------------------------------------------------------
(***************************************************************************)
(* main registers the nodes and the interferers, and calls run.            *)
(***************************************************************************)

(* No frame begins before the run, and no callback is called.              *)
LEMMA AddDeviceKeeps ==
  ASSUME SInv, NInv, AddDevice
  PROVE  NInv' /\ DeviceSteps
<1> DEFINE first == [time |-> 0, seq |-> seq, kind |-> "Wake", who |-> Device]
<1>1. /\ nodes = << >> /\ nodes' = Append(nodes, Device) /\ pc' = "setup"
      /\ pc \in {"setup", "stopped"}
      /\ Schedule(events, <<Request(0, "Wake", Device)>>)
      /\ UNCHANGED deviceVars /\ UNCHANGED <<now, frames, heard>>
  BY DEF AddDevice, AddNode, Registering, channelVars
<1>2. nodes' = <<Device>> /\ nodes' # << >> /\ nodes # <<Device, Server>>
  BY <1>1
<1>3. pc = "setup"
  BY <1>1, <1>2 DEF NInv, InPlace
<1>4. events' = events \cup {first}
  <2>1. seq \in Nat /\ seq + 1 - 1 = seq
    BY DEF SInv, IInv, TypeOK
  <2> QED
    BY <1>1, <2>1 DEF Schedule, Request
<1>5. WakesIn(events) = {}
  BY <1>1 DEF SInv, IInv, RegistrationFits, Registered, WakesIn
<1>6. WakesIn(events') = {first} /\ first.time = 0
  BY <1>4, <1>5 DEF WakesIn
<1> HIDE DEF first
<1>7. events' \in SUBSET EventSet
  <2>1. IInv'
    BY NetworkStepIsStep, StepKeepsIInv DEF SInv, NetworkNext, NetworkSetup
  <2> QED
    BY <2>1 DEF IInv, TypeOK
<1>8. DeviceWakes(events)' = <<0>>
  <2>1. DeviceWakes(events') = <<first.time>>
    BY <1>6, <1>7, FewWakes
  <2> QED
    BY <1>6, <2>1 DEF DeviceWakes
<1>9. Wakes' = Wakes
  BY <1>1, <1>2, <1>3, <1>8 DEF Wakes
<1>10. UNCHANGED DP!vars
  BY <1>1, <1>9 DEF DP!vars, DP!parameters, DP!fileVars, deviceVars, Wakes
<1>11. DeviceKept' /\ DeviceSteps
  BY <1>3, <1>10, DeviceStepKeeps DEF NInv, DeviceKept, DeviceSteps
<1>12. OneWakeQueued'
  BY <1>6 DEF OneWakeQueued
<1>13. UplinksOver' /\ OneUplinkAtATime'
  BY <1>1, StillAir DEF NInv, deviceVars
<1>14. InPlace'
  BY <1>1, <1>2, <1>3 DEF NInv, InPlace
<1> QED
  BY <1>11, <1>12, <1>13, <1>14 DEF NInv

LEMMA RegisteringKeepsNetwork ==
  ASSUME SInv, NInv, pc = "setup", pc' = "setup", nodes # << >>, nodes' # << >>,
         nodes' \in {<<Device>>, <<Device, Server>>},
         UNCHANGED <<deviceVars, frames, now>>, WakesIn(events') = WakesIn(events)
  PROVE  NInv' /\ DeviceSteps
<1>1. OneWakeQueued' /\ DeviceKept' /\ DeviceSteps
  BY SameWakes, DeviceUntouched
<1>2. UplinksOver' /\ OneUplinkAtATime'
  BY StillAir DEF NInv, deviceVars
<1>3. InPlace'
  BY DEF NInv, InPlace
<1> QED
  BY <1>1, <1>2, <1>3 DEF NInv

LEMMA AddServerKeeps ==
  ASSUME SInv, NInv, AddServer
  PROVE  NInv' /\ DeviceSteps
<1>1. /\ Len(nodes) = 1 /\ nodes' = Append(nodes, Server) /\ pc' = "setup"
      /\ Schedule(events, << >>)
      /\ UNCHANGED deviceVars /\ UNCHANGED <<now, frames>>
  BY DEF AddServer, AddNode, Registering, channelVars
<1>2. nodes = <<Device>>
  <2>1. Len(<< >>) = 0 /\ Len(<<Device, Server>>) = 2
    OBVIOUS
  <2> QED
    BY <1>1, <2>1 DEF NInv, InPlace
<1>3. /\ nodes' = <<Device, Server>> /\ nodes # << >> /\ nodes' # << >>
      /\ nodes # <<Device, Server>>
  <2>1. Append(<<Device>>, Server) = <<Device, Server>>
    <3>1. <<Device>> \in Seq(NodeIds) /\ <<Device, Server>> \in Seq(NodeIds)
      BY NetworkConstants
    <3>2. PICK s : s = Append(<<Device>>, Server)
      OBVIOUS
    <3>3. s \in Seq(NodeIds) /\ Len(s) = 2 /\ s[1] = Device /\ s[2] = Server
      BY <3>1, <3>2, NetworkConstants, AppendProperties
    <3>4. /\ DOMAIN s = 1..2 /\ DOMAIN <<Device, Server>> = 1..2
          /\ \A n \in 1..2 : s[n] = <<Device, Server>>[n]
      BY <3>3
    <3>5. s = <<Device, Server>>
      BY <3>1, <3>3, <3>4
    <3> QED
      BY <3>2, <3>5
  <2>2. Len(<< >>) = 0 /\ Len(<<Device, Server>>) = 2
    OBVIOUS
  <2>3. nodes' = <<Device, Server>>
    BY <1>1, <1>2, <2>1
  <2> QED
    BY <1>1, <2>2, <2>3
<1>4. pc = "setup"
  <2>1. pc \in {"setup", "stopped"}
    BY DEF AddServer, AddNode, Registering
  <2> QED
    BY <1>3, <2>1 DEF NInv, InPlace
<1>5. WakesIn(events') = WakesIn(events)
  BY <1>1, NoWakeScheduled
<1> QED
  BY <1>1, <1>3, <1>4, <1>5, RegisteringKeepsNetwork

LEMMA AddChannelInterfererKeeps ==
  ASSUME SInv, NInv, AddChannelInterferer
  PROVE  NInv' /\ DeviceSteps
<1>1. /\ Len(nodes) = 2 /\ Len(heard) < MaxInterferers
      /\ pc \in {"setup", "stopped"} /\ pc' = "setup"
      /\ UNCHANGED deviceVars /\ UNCHANGED <<now, frames, nodes>>
      /\ \E requests : /\ Schedule(events, requests)
                       /\ \A n \in DOMAIN requests : requests[n].kind # "Wake"
  <2> DEFINE requests == <<Request(FirstPoll, "InterferencePoll", Len(heard) + 1)>>
  <2>1. Schedule(events, requests)
    BY DEF AddChannelInterferer, AddInterferer
  <2>2. \A n \in DOMAIN requests : requests[n].kind # "Wake"
    BY DEF Request
  <2> HIDE DEF requests
  <2> QED
    BY <2>1, <2>2 DEF AddChannelInterferer, AddInterferer, Registering, channelVars
<1>2. nodes = <<Device, Server>> /\ nodes # << >>
  <2>1. Len(<< >>) = 0 /\ Len(<<Device>>) = 1
    OBVIOUS
  <2> QED
    BY <1>1, <2>1 DEF NInv, InPlace
<1>3. pc = "setup"
  <2>1. Len(heard) \in Nat /\ Len(heard) # MaxInterferers
    BY <1>1, FrameSets, SchedulerAssumption DEF SInv
  <2> QED
    BY <1>1, <2>1, NetworkConstants DEF NInv, InPlace
<1>4. WakesIn(events') = WakesIn(events)
  BY <1>1, NoWakeScheduled
<1> QED
  BY <1>1, <1>2, <1>3, <1>4, RegisteringKeepsNetwork

LEMMA RunNetworkKeeps ==
  ASSUME SInv, NInv, RunNetwork
  PROVE  NInv' /\ DeviceSteps
<1>1. /\ pc = "setup" /\ pc' = "loop" /\ Len(nodes) = 2 /\ Len(heard) = Len(Channels)
      /\ UNCHANGED deviceVars /\ UNCHANGED <<now, frames, nodes, heard, events>>
  BY DEF RunNetwork, Run, registry, channelVars
<1>2. nodes = <<Device, Server>> /\ nodes # << >>
  <2>1. Len(<< >>) = 0 /\ Len(<<Device>>) = 1
    OBVIOUS
  <2> QED
    BY <1>1, <2>1 DEF NInv, InPlace
<1>3. WakesIn(events') = WakesIn(events)
  BY <1>1
<1>4. OneWakeQueued' /\ DeviceKept' /\ DeviceSteps
  BY <1>1, <1>2, <1>3, SameWakes, DeviceUntouched
<1>5. UplinksOver' /\ OneUplinkAtATime'
  BY <1>1, StillAir DEF NInv, deviceVars
<1>6. InPlace'
  BY <1>1, <1>2 DEF InPlace
<1> QED
  BY <1>4, <1>5, <1>6 DEF NInv

-----------------------------------------------------------------------------
LEMMA NetworkBegins == NetworkInit => SInv /\ NInv
<1> SUFFICES ASSUME NetworkInit
             PROVE  SInv /\ NInv
  OBVIOUS
<1>1. SInv
  BY Initially, NothingSentYet DEF NetworkInit, SInv
<1>2. /\ nodes = << >> /\ pc = "setup" /\ now = 0 /\ events = {} /\ frames = << >>
  BY DEF NetworkInit, Init, Ch!Init
<1>3. DP!Init
  BY DEF NetworkInit, Dev!Init, DP!Init
<1>4. DP!IInv
  BY <1>3, DP!InitSatisfiesInvariant, DeviceAssumption
<1>5. Uplinks = {}
  BY <1>2 DEF Uplinks, Ch!FrameIds
<1>6. UplinksOver /\ OneUplinkAtATime
  BY <1>5 DEF UplinksOver, OneUplinkAtATime
<1>7. OneWakeQueued
  BY <1>2 DEF OneWakeQueued, WakesIn
<1> QED
  BY <1>1, <1>2, <1>4, <1>6, <1>7 DEF NInv, InPlace, DeviceKept

LEMMA StepKeepsNInv == SInv /\ NInv /\ [NetworkNext]_networkVars => NInv' /\ DeviceSteps
<1> SUFFICES ASSUME SInv, NInv, [NetworkNext]_networkVars
             PROVE  NInv' /\ DeviceSteps
  OBVIOUS
<1>1. CASE NetworkSetup
  BY <1>1, AddDeviceKeeps, AddServerKeeps, AddChannelInterfererKeeps, RunNetworkKeeps
  DEF NetworkSetup
<1>2. CASE NetworkLoop
  BY <1>2, LoopKeepsNetwork
<1>3. CASE NetworkDelivery
  BY <1>3, DeliveryKeepsNetwork
<1>4. CASE UNCHANGED networkVars
  <2>1. /\ UNCHANGED <<deviceVars, frames, nodes, pc, now, events, heard>>
    BY <1>4 DEF networkVars, vars, channelVars, registry
  <2>2. Wakes' = Wakes /\ WakesIn(events') = WakesIn(events)
    BY <2>1 DEF Wakes, DeviceWakes
  <2>3. OneWakeQueued' /\ DeviceKept' /\ DeviceSteps
    BY <2>1, <2>2, DeviceUntouched
  <2>4. UplinksOver' /\ OneUplinkAtATime'
    BY <2>1, StillAir DEF NInv, deviceVars
  <2>5. InPlace'
    BY <2>1 DEF NInv, InPlace
  <2> QED
    BY <2>3, <2>4, <2>5 DEF NInv
<1> QED
  BY <1>1, <1>2, <1>3, <1>4 DEF NetworkNext

LEMMA StepKeepsSimulation == SInv /\ NInv /\ [NetworkNext]_networkVars => SInv' /\ NInv'
BY NetworkStepIsStep, StepKeepsIInv, StepKeepsSending, StepKeepsNInv DEF SInv

LEMMA SimulationIsKept == NetworkSpec => [](SInv /\ NInv)
BY NetworkBegins, StepKeepsSimulation, PTL DEF NetworkSpec

-----------------------------------------------------------------------------
(***************************************************************************)
(* Until the end of the run every step of the simulation is one of the     *)
(* device as LoRaWanProofs has it, or leaves it alone: the queue hands it  *)
(* its wakes in their order and each at its time, whatever the server and  *)
(* the interferers schedule in between.                                    *)
(***************************************************************************)
THEOREM DeviceRunsLoRaWan == NetworkSpec => DeviceIsLoRaWan
<1>1. SInv /\ NInv /\ [NetworkNext]_networkVars
        => [pc' # "stopped" => [Dev!Next]_(Dev!vars)]_networkVars
  BY StepKeepsNInv, SameDevice DEF DeviceSteps
<1> QED
  BY <1>1, SimulationIsKept, PTL DEF NetworkSpec, DeviceIsLoRaWan

(***************************************************************************)
(* The receive windows keep the uplinks of the device apart on the air,    *)
(* though its radio may be told to send while it does and a fragment may   *)
(* follow at once.                                                         *)
(***************************************************************************)
THEOREM UplinksDoNotOverlap == NetworkSpec => []OneUplinkAtATime
<1>1. NInv => OneUplinkAtATime
  BY DEF NInv
<1> QED
  BY <1>1, SimulationIsKept, PTL
=============================================================================
