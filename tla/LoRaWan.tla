------------------------------- MODULE LoRaWan ------------------------------
(***************************************************************************)
(* The sender of examples/lorawan_file_transfer: LoRaWanAdapter, with its  *)
(* FileFragmenter and its SimulatedRadio, around the Class A device of the *)
(* lorawan-device crate.  It is driven by the scheduler: woken when it     *)
(* asked to be, handed frames in between, and polled for a transmission in *)
(* the handler of each callback.                                           *)
(*                                                                         *)
(* The device is not part of the repository.  It is modelled as the        *)
(* adapter uses it: an uplink is followed by two receive windows, each     *)
(* opened and closed by a TimeoutFired, and a downlink meant for the       *)
(* device ends the exchange.  A window's sf and frequency are one value,   *)
(* its band.  SimulatedRadio reports TxDone at once and fails at nothing,  *)
(* and a Phy event is raised only after inject_downlink has stored a frame *)
(* so that the radio always answers it with RxDone.                        *)
(***************************************************************************)
EXTENDS Naturals, Sequences, SequencesExt

CONSTANTS
  Bands,      \* (sf, frequency) pairs
  NoBand,     \* current_rx_config is None
  Size,       \* data.len()
  Chunk,      \* chunk_size
  Intervals,  \* interval_us may be any of these
  MicrosPerMilli,
  TimeoutOf,  \* when the device asks for each step, in ms after the uplink
  MayRefuse,  \* device.send may return an error
  MayReask,   \* the device may be one that reasks
  MaxWakes    \* bound: wakes queued at once

Steps == {"open rx1", "close rx1", "open rx2", "close rx2"}

ASSUME LoRaWanAssumption ==
  /\ NoBand \notin Bands
  /\ Size \in Nat /\ Intervals \subseteq Nat /\ MaxWakes \in Nat \ {0}
  /\ Chunk \in Nat \ {0} /\ MicrosPerMilli \in Nat \ {0}
  /\ TimeoutOf \in [Steps -> Nat]
  /\ TimeoutOf["open rx1"] <= TimeoutOf["close rx1"]
  /\ TimeoutOf["close rx1"] <= TimeoutOf["open rx2"]
  /\ TimeoutOf["open rx2"] <= TimeoutOf["close rx2"]
  /\ MayRefuse \in BOOLEAN /\ MayReask \in BOOLEAN

VARIABLES
  interval,        \* FileFragmenter: interval_us
  reasks,          \* the device may answer a radio event with a TimeoutRequest
  wakes,           \* the queued wakes of the node, in the order of scheduling
  offset,          \* FileFragmenter
  nextSend,        \* FileFragmenter: next_send
  device,          \* "idle", or the step of the exchange that comes next
  listening,       \* SimulatedRadio: the band of current_rx_config, or NoBand
  pendingTimeout,  \* pending_timeout_ms: << >> or <<ms>>
  txStart,         \* tx_start_time
  pendingTx,       \* pending_tx is Some
  sent,            \* fragments handed over to be transmitted
  refused          \* fragments the device refused

fileVars   == <<offset, nextSend>>
parameters == <<interval, reasks>>
vars == <<parameters, wakes, fileVars, device, listening, pendingTimeout, txStart,
          pendingTx, sent, refused>>

Init ==
  /\ interval \in Intervals
  /\ reasks \in {FALSE, MayReask}
  /\ wakes = <<0>>
  /\ offset = 0
  /\ nextSend = 0
  /\ device = "idle"
  /\ listening = NoBand
  /\ pendingTimeout = << >>
  /\ txStart = 0
  /\ pendingTx = FALSE
  /\ sent = 0
  /\ refused = 0

-----------------------------------------------------------------------------
(* The file.                                                               *)
Done == offset >= Size

HasPayload(time) == ~ Done /\ time >= nextSend

(* Mutation of TakePayload: the interval counts from the last slot.        *)
TakePayloadBySlot(time) ==
  /\ offset' = IF offset + Chunk <= Size THEN offset + Chunk ELSE Size
  /\ nextSend' = nextSend + interval

(* Mutation of TakePayload: the end is not cut down to the file's length.  *)
TakePayloadUncut(time) ==
  /\ offset' = offset + Chunk
  /\ nextSend' = time + interval

(* next_payload returns Some.                                              *)
TakePayload(time) ==
  /\ offset' = IF offset + Chunk <= Size THEN offset + Chunk ELSE Size
  /\ nextSend' = time + interval

(* Mutation of NextAvailable: a payload that is not due is not awaited.    *)
NextAvailableNow(time) == IF Done \/ time < nextSend THEN << >> ELSE <<time>>

(* next_available_time, the wake asked for when nothing is sent.           *)
NextAvailable(time) ==
  IF Done THEN << >> ELSE IF time < nextSend THEN <<nextSend>> ELSE <<time>>

-----------------------------------------------------------------------------
(* Mutation of PollTransmit: the staged transmission is cloned.            *)
ClonePending(staged) ==
  /\ sent' = IF staged THEN sent + 1 ELSE sent
  /\ pendingTx' = staged

(* poll_transmit, by which every handler ends, takes what is staged.       *)
PollTransmit(staged) ==
  /\ sent' = IF staged THEN sent + 1 ELSE sent
  /\ pendingTx' = FALSE

-----------------------------------------------------------------------------
(* Mutation of Wake: milliseconds are taken for microseconds.              *)
WakeInMillis(start, ms) == start + ms

(* wake_from_timeout                                                       *)
Wake(start, ms) == start + ms * MicrosPerMilli

(***************************************************************************)
(* The device has asked for a timeout: it is noted, and the wake for it    *)
(* joins those still queued.                                               *)
(***************************************************************************)
AskFor(step, start, queue) ==
  /\ pendingTimeout' = <<TimeoutOf[step]>>
  /\ wakes' = Append(queue, Wake(start, TimeoutOf[step]))

(***************************************************************************)
(* try_send_fragment, with the device ready or not.  The radio's own       *)
(* pending_tx is staged before the handler returns, so that only the       *)
(* adapter's is ever seen.                                                 *)
(***************************************************************************)
SendFragment(time, queue) ==
  /\ HasPayload(time)
  /\ TakePayload(time)
  /\ txStart' = time
  /\ PollTransmit(TRUE)
  /\ device' = "open rx1"
  /\ AskFor("open rx1", time, queue)
  /\ UNCHANGED refused

(* The fragment is gone, and no wake is asked for.                         *)
LoseFragment(time, queue) ==
  /\ MayRefuse
  /\ HasPayload(time)
  /\ TakePayload(time)
  /\ txStart' = time
  /\ device' = "idle"
  /\ pendingTimeout' = << >>
  /\ wakes' = queue
  /\ refused' = refused + 1
  /\ PollTransmit(pendingTx)

WaitForFile(time, queue) ==
  /\ ~ HasPayload(time)
  /\ wakes' = queue \o NextAvailable(time)
  /\ device' = "idle"
  /\ pendingTimeout' = << >>
  /\ PollTransmit(pendingTx)
  /\ UNCHANGED <<fileVars, txStart, refused>>

TrySendFragment(time, queue) ==
  \/ SendFragment(time, queue)
  \/ LoseFragment(time, queue)
  \/ WaitForFile(time, queue)

-----------------------------------------------------------------------------
(* The wake popped next, and the wakes that stay queued.                   *)
IsNextWake(n) ==
  \A m \in DOMAIN wakes \ {n} :
    wakes[n] < wakes[m] \/ (wakes[n] = wakes[m] /\ n < m)

Others(n) == RemoveAt(wakes, n)

(* update with no timeout pending and the device ready.                    *)
UpdateIdle(n) ==
  /\ IsNextWake(n)
  /\ pendingTimeout = << >>
  /\ device = "idle"
  /\ TrySendFragment(wakes[n], Others(n))
  /\ UNCHANGED listening

(* update with a timeout pending: TimeoutFired, for the step the device is *)
(* at.  The timeout is not compared with the time.                         *)
TimeoutFired(n, step) ==
  IsNextWake(n) /\ pendingTimeout # << >> /\ device = step

(* The device asks for its next step; the file and the uplink stay.        *)
GoesOn(n, step) ==
  /\ device' = step
  /\ AskFor(step, txStart, Others(n))
  /\ PollTransmit(pendingTx)
  /\ UNCHANGED <<fileVars, txStart, refused>>

OpenRx1(n) ==
  TimeoutFired(n, "open rx1") /\ listening' \in Bands /\ GoesOn(n, "close rx1")

CloseRx1(n) ==
  TimeoutFired(n, "close rx1") /\ listening' = NoBand /\ GoesOn(n, "open rx2")

OpenRx2(n) ==
  TimeoutFired(n, "open rx2") /\ listening' \in Bands /\ GoesOn(n, "close rx2")

(* Mutation of CloseRx2: RxComplete is one more answer to return None on.  *)
CloseRx2Asleep(n) ==
  /\ TimeoutFired(n, "close rx2")
  /\ listening' = NoBand /\ device' = "idle" /\ pendingTimeout' = << >>
  /\ wakes' = Others(n)
  /\ PollTransmit(pendingTx)
  /\ UNCHANGED <<fileVars, txStart, refused>>

(* RxComplete: the next fragment is tried at once.                         *)
CloseRx2(n) ==
  /\ TimeoutFired(n, "close rx2")
  /\ listening' = NoBand
  /\ TrySendFragment(wakes[n], Others(n))

Update(n) ==
  \/ UpdateIdle(n)
  \/ OpenRx1(n)
  \/ CloseRx1(n)
  \/ OpenRx2(n)
  \/ CloseRx2(n)

(***************************************************************************)
(* update with no timeout pending while the device is busy: the adapter    *)
(* asks for next_available_time, which may be the present instant again.   *)
(***************************************************************************)
PollsBusyDevice ==
  wakes # << >> /\ pendingTimeout = << >> /\ device # "idle"

-----------------------------------------------------------------------------
(* on_receive, of a frame on a band, and the poll after it.                *)
Hears == PollTransmit(pendingTx) /\ UNCHANGED <<fileVars, txStart, refused>>

exchange == <<wakes, device, listening, pendingTimeout>>

(* inject_downlink returns false.                                          *)
NotListening(band) ==
  Hears /\ band # listening /\ UNCHANGED exchange

(* The radio takes the frame, and the device is in one of its windows.     *)
InWindow(band) ==
  Hears /\ band = listening /\ device \in {"close rx1", "close rx2"}

OutOfWindow(band) ==
  Hears /\ band = listening /\ device \notin {"close rx1", "close rx2"}

(* Mutation of NotExpected: an error is treated like the end of a window.  *)
NotExpectedClears(band) ==
  /\ OutOfWindow(band)
  /\ pendingTimeout' = << >>
  /\ UNCHANGED <<wakes, device, listening>>

(* The radio still listens after a downlink; the device returns an error.  *)
NotExpected(band) == OutOfWindow(band) /\ UNCHANGED exchange

(* The frame is not for the device: the window stays open.                 *)
StrayFrame(band) == InWindow(band) /\ UNCHANGED exchange

(* The device stays in its window and asks for its end once more.          *)
StrayFrameReask(band) ==
  /\ reasks /\ Len(wakes) < MaxWakes
  /\ InWindow(band)
  /\ AskFor(device, txStart, wakes)
  /\ UNCHANGED <<device, listening>>

(***************************************************************************)
(* DownlinkReceived ends the exchange; the wake of its window stays queued *)
(* and starts the next one.  Nothing in the repository says whether the    *)
(* device cancels reception then, so it may or may not.                    *)
(***************************************************************************)
Downlink(band) ==
  /\ InWindow(band)
  /\ device' = "idle"
  /\ pendingTimeout' = << >>
  /\ listening' \in {listening, NoBand}
  /\ UNCHANGED wakes

OnReceive(band) ==
  \/ NotListening(band)
  \/ NotExpected(band)
  \/ StrayFrame(band)
  \/ StrayFrameReask(band)
  \/ Downlink(band)

(* Frames may come at any time: their handlers do not look at the clock.   *)
Next ==
  /\ \/ \E n \in DOMAIN wakes : Update(n)
     \/ \E band \in Bands : OnReceive(band)
  /\ UNCHANGED parameters

(* The wake is in the scheduler's queue, and only events queued before it  *)
(* come before it.                                                         *)
Spec ==
  Init /\ [][Next]_vars /\ WF_vars((\E n \in DOMAIN wakes : Update(n)) /\ UNCHANGED parameters)

-----------------------------------------------------------------------------
TypeOK ==
  /\ {offset, nextSend, txStart, sent, refused} \subseteq Nat
  /\ interval \in Nat /\ reasks \in BOOLEAN
  /\ wakes \in Seq(Nat) /\ Len(wakes) <= MaxWakes
  /\ pendingTx \in BOOLEAN
  /\ offset <= Size
  /\ device \in Steps \cup {"idle"}
  /\ listening \in Bands \cup {NoBand}
  /\ pendingTimeout \in {<< >>} \cup {<<TimeoutOf[step]>> : step \in Steps}

(***************************************************************************)
(* The timer contract of ARCHITECTURE.md: update is called at exactly the  *)
(* time the device asked for, which then delivers TimeoutFired.  While a   *)
(* timeout is pending its wake is the only one queued, so no other wake    *)
(* fires it early; the wake left over by a downlink is used up first.      *)
(* This takes a device that asks for a timeout when one fires or an uplink *)
(* starts, and not when it hears a frame.                                  *)
(***************************************************************************)
TimeoutFiresOnTime ==
  ~ reasks /\ pendingTimeout # << >> =>
    wakes = <<txStart + pendingTimeout[1] * MicrosPerMilli>>

(***************************************************************************)
(* The adapter and the device agree on whether an exchange is under way:   *)
(* the device is never sent TimeoutFired while idle, nor asked to send     *)
(* while busy, which would wake the node again and again at one instant.   *)
(***************************************************************************)
AgreesWithDevice ==
  /\ device = "idle" <=> pendingTimeout = << >>
  /\ ~ PollsBusyDevice

(***************************************************************************)
(* Every fragment cut from the file is transmitted once, is about to be,   *)
(* or was refused by the device: none is lost or doubled by downlinks,     *)
(* errors and stale wakes.                                                 *)
(***************************************************************************)
FragmentsAccounted ==
  sent + refused + (IF pendingTx THEN 1 ELSE 0)
    = (offset + Chunk - 1) \div Chunk

(***************************************************************************)
(* The node falls silent only when the file is done, or after a refusal.   *)
(***************************************************************************)
SilentOnlyWhenDone == wakes = << >> => Done \/ refused > 0

(***************************************************************************)
(* A fragment follows the last one by the interval at least and, if every  *)
(* timeout fires on time, not before the end of a receive window: uplinks  *)
(* that end before the first window closes never overlap, though nothing   *)
(* in the radio prevents it and the interval may be 0.                     *)
(***************************************************************************)
UplinksApart ==
  [][offset' # offset /\ offset > 0 =>
       /\ txStart' >= txStart + interval
       /\ ~ reasks => txStart' >= txStart + TimeoutOf["close rx1"] * MicrosPerMilli]_vars

Fragments == (Size + Chunk - 1) \div Chunk

(***************************************************************************)
(* The whole file is handed over, unless the device refuses a fragment:    *)
(* whatever is heard in between, a wake is queued that leads to the next.  *)
(***************************************************************************)
FileIsSent == <>(sent = Fragments \/ refused > 0)
=============================================================================
