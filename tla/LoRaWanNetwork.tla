--------------------------- MODULE LoRaWanNetwork ---------------------------
(***************************************************************************)
(* The simulation of examples/lorawan_file_transfer/main.rs: the scheduler *)
(* with one device that sends a file, a network server and an interferer   *)
(* on each channel.  Every step is a step of the scheduler; a callback of  *)
(* the device is a step of module LoRaWan, whose queued wakes are those in *)
(* the queue of the scheduler.  The server never transmits, so what the    *)
(* device hears is interference.                                           *)
(***************************************************************************)
EXTENDS TimerContract

CONSTANTS
  NoBand, Size, Chunk, Interval, MicrosPerMilli, TimeoutOf,  \* see LoRaWan
  Device, Server,       \* the identifiers of the two nodes
  Channels,             \* the band of each interferer: EU868_CHANNELS
  Period,               \* INTERFERER_PERIOD_US
  InterfererDuration,   \* INTERFERER_DURATION_US
  FirstPoll,            \* the first poll of every interferer
  UplinkDurations       \* the time on air of an uplink

VARIABLES
  offset, nextSend, device, listening, pendingTimeout, txStart, pendingTx,
  sent, refused         \* the device, see LoRaWan

deviceVars  == <<offset, nextSend, device, listening, pendingTimeout, txStart,
                 pendingTx, sent, refused>>
networkVars == <<vars, deviceVars>>

WakesIn(queue) == {e \in queue : e.kind = "Wake" /\ e.who = Device}

(* The wakes of the device in the queue, in the order of scheduling.       *)
DeviceWakes(queue) ==
  LET nth(n) == CHOOSE e \in WakesIn(queue) :
                  Cardinality({f \in WakesIn(queue) : f.seq < e.seq}) = n - 1
  IN  [n \in 1..Cardinality(WakesIn(queue)) |-> nth(n).time]

(* The device of main refuses no fragment that fits its buffer.            *)
Dev == INSTANCE LoRaWan WITH
  wakes <- IF pc = "setup" /\ nodes = << >> THEN <<0>> ELSE DeviceWakes(events),
  MayRefuse <- FALSE, MayReask <- FALSE, reasks <- FALSE,
  Intervals <- {Interval}, interval <- Interval

ASSUME LoRaWanNetworkAssumption ==
  /\ NodeIds = {Device, Server} /\ MaxNodes = 2
  /\ MaxInterferers = Len(Channels)
  /\ Channels \in Seq(Bands)
  /\ {0, Period, FirstPoll} \subseteq Delays
  /\ UplinkDurations \cup {InterfererDuration} \subseteq Durations
  /\ NoBand \notin Bands /\ MaxWakes > 0
  /\ Size \in Nat /\ Interval \in Nat
  /\ Chunk \in Nat \ {0} /\ MicrosPerMilli \in Nat \ {0}
  /\ TimeoutOf \in [Dev!Steps -> Nat]
  /\ TimeoutOf["open rx1"] <= TimeoutOf["close rx1"]
  /\ TimeoutOf["close rx1"] <= TimeoutOf["open rx2"]
  /\ TimeoutOf["open rx2"] <= TimeoutOf["close rx2"]

(***************************************************************************)
(* An uplink is off the air before its first receive window opens, as one  *)
(* at the data rate the adapter sets is: windows count from its start.     *)
(***************************************************************************)
ASSUME UplinkAssumption ==
  \A duration \in UplinkDurations : duration <= TimeoutOf["open rx1"] * MicrosPerMilli

NetworkInit == Init /\ Dev!Init

-----------------------------------------------------------------------------
(* A fragment handed over goes on the air, and nothing else does.          *)
Uplink ==
  /\ Len(frames') = Len(frames) + sent' - sent
  /\ \A f \in DOMAIN frames' \ DOMAIN frames :
       frames'[f].end - frames'[f].start \in UplinkDurations

DeviceWoken(e) ==
  /\ e.who = Device
  /\ PopWake(e)
  /\ \E n \in DOMAIN DeviceWakes(events) : Dev!Update(n)
  /\ Uplink

(* Mutation of DeviceHears: a frame that is not for it wakes the device.   *)
DeviceHearsAndWakes(i) ==
  /\ nodes[i] = Device
  /\ Deliver(i)
  /\ Schedule(events, <<Request(now, "Wake", Device)>>)
  /\ UNCHANGED deviceVars

DeviceHears(i) ==
  /\ nodes[i] = Device
  /\ Deliver(i)
  /\ LET band == frames[delivering].band
     IN  Dev!NotListening(band) \/ Dev!NotExpected(band) \/ Dev!StrayFrame(band)
  /\ Schedule(events, << >>)
  /\ Uplink

(* NetworkServer asks for no wake and sends nothing.                       *)
ServerHears(i) ==
  /\ nodes[i] = Server
  /\ Deliver(i)
  /\ Schedule(events, << >>)
  /\ UNCHANGED deviceVars

(* PeriodicInterferer injects at each poll, and is polled again.           *)
InterfererPolled(e) ==
  /\ PopInterferencePoll(e)
  /\ Len(frames') = Len(frames) + 1
  /\ frames'[Len(frames')].band = Channels[e.who]
  /\ Schedule(events \ {e},
       <<Request(e.time + InterfererDuration, "TxComplete", SyntheticId(e.who)),
         Request(e.time + Period, "InterferencePoll", e.who)>>)
  /\ UNCHANGED deviceVars

-----------------------------------------------------------------------------
AddDevice ==
  /\ nodes = << >>
  /\ AddNode(Device)
  /\ Schedule(events, <<Request(0, "Wake", Device)>>)
  /\ UNCHANGED deviceVars

AddServer ==
  /\ Len(nodes) = 1
  /\ AddNode(Server)
  /\ Schedule(events, << >>)
  /\ UNCHANGED deviceVars

AddChannelInterferer ==
  Len(nodes) = 2 /\ AddInterferer(FirstPoll) /\ UNCHANGED deviceVars

(* main calls run once, with everything registered.                        *)
RunNetwork ==
  /\ pc = "setup" /\ Len(nodes) = 2 /\ Len(heard) = Len(Channels)
  /\ Run
  /\ UNCHANGED deviceVars

NetworkSetup == AddDevice \/ AddServer \/ AddChannelInterferer \/ RunNetwork

NetworkLoop ==
  \/ \E e \in events :
       \/ DeviceWoken(e)
       \/ (PopTxComplete(e) /\ UNCHANGED deviceVars)
       \/ InterfererPolled(e)
  \/ (Stop /\ UNCHANGED deviceVars)

NetworkDelivery ==
  \/ (Drain /\ UNCHANGED deviceVars)
  \/ \E id \in batch : (SkipCollided(id) \/ StartDelivery(id)) /\ UNCHANGED deviceVars
  \/ \E i \in DOMAIN nodes :
       \/ DeviceHears(i)
       \/ ServerHears(i)
       \/ (SkipSender(i) /\ UNCHANGED deviceVars)
  \/ (EndDelivery /\ UNCHANGED deviceVars)
  \/ (EndBatch /\ UNCHANGED deviceVars)

NetworkNext == NetworkSetup \/ NetworkLoop \/ NetworkDelivery

(* run() does not pause, and main calls it.                                *)
NetworkSpec ==
  /\ NetworkInit /\ [][NetworkNext]_networkVars
  /\ WF_networkVars(NetworkNext)

-----------------------------------------------------------------------------
(***************************************************************************)
(* The scheduler treats the device as module LoRaWan takes for granted:    *)
(* its wakes are popped in their order, each at its time, and no event of  *)
(* the server or of an interferer adds or takes one.                       *)
(***************************************************************************)
DeviceIsLoRaWan == [][pc' # "stopped" => [Dev!Next]_(Dev!vars)]_networkVars

Uplinks == {f \in Ch!FrameIds : frames[f].sender = Device}

(***************************************************************************)
(* The device has one uplink on the air at a time, though its radio has no *)
(* notion of being busy and a fragment may follow at once (INTERVAL_US is  *)
(* 0): the receive windows keep its uplinks apart.                         *)
(***************************************************************************)
OneUplinkAtATime ==
  \A f, g \in Uplinks : f # g => ~ Ch!Overlaps(frames[f], frames[g])

(***************************************************************************)
(* Amid interference the whole file goes out, fragment by fragment, before *)
(* the simulation returns: no stray frame holds the transfer up.           *)
(***************************************************************************)
TransferCompletes ==
  pc = "loop" ~> (pc = "stopped" /\ Cardinality(Uplinks) = Dev!Fragments)
=============================================================================
