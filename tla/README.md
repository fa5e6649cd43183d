# A verification project for theatron

theatron is a discrete-event simulator that compares radio protocols. Nodes and
interferers put frames on one shared channel, the channel decides which frames survive,
and the scheduler hands the survivors to every other node. The output is a set of
counters. The program is single-threaded: what is hard about it is not concurrency but
order. Many events fall on one instant, handlers start new frames while others are half
delivered, and every verdict is accumulated from pairs of frames. Each of these can make a
simulation report a wrong number without failing.

This directory models the simulator and its two examples in TLA+, checks the models with
TLC and proves with TLAPS what matters most about the channel, the scheduler and its
counters, the ALOHA node, the LoRaWAN sender, the simulations of both examples and the
random number generator. Line numbers
below and in `PROJECT.json` are those of the repository.

## 1. The system

| Component | State | Operations | Modelled in |
|---|---|---|---|
| channel (`src/channel.rs`) | `active` and `completed` frames, each with flags `collided`, `captured` | `begin_transmission`, `resolve_at`, `drain_completed` | `Frames`, `Medium`, `Channel` |
| scheduler (`src/scheduler.rs`) | event queue, `seq`, `current_time`, nodes, interferers, the channel, the metrics | `add_node`, `add_interferer`, `run` | `Scheduler`, `TimerContract`, `Broadcast` |
| metrics (`src/metrics.rs`) | totals, per-node maps | `record_*` | `Metrics` |
| types, traits (`src/types.rs`, `src/traits.rs`) | none | the contracts of nodes, interferers and traffic | `Frames`, `Scheduler`, `AlohaNode` |
| ALOHA example (`examples/aloha`) | traffic budget, `next_time`, `pending_tx`; the receiver's list | `update`, `poll_transmit`, `next_payload`, `main` | `AlohaNode`, `Aloha`, `AlohaNetwork` |
| LoRaWAN example (`examples/lorawan_file_transfer`) | adapter timeout, radio receive configuration, file offset | `update`, `on_receive`, `poll_transmit`, radio events, `main` | `LoRaWan`, `LoRaWanNetwork` |
| prng (`src/prng.rs`), `derive_seed` | one word | `new`, `next_u64` | `Prng` |
| time (`src/time.rs`) | none | conversions | the multiplication in `LoRaWan!Wake` |

**How they interact.** Everything goes through `Scheduler::run`. It pops the earliest event
from a binary heap, ties broken by scheduling order.

- A *Wake* calls `update` on the node, queues the wake time it returns, then calls
  `poll_transmit`. A frame returned goes to the channel, is shown to every interferer
  through `observe`, is counted, and gets a *TxComplete* event at its end.
- A *TxComplete* resolves *every* frame that is over, not only that of its sender, tells
  the interferers, drains the channel and delivers each frame that did not collide to every
  node but the sender. After each `on_receive` the node is polled again, so replies begin
  inside the delivery loop.
- An *InterferencePoll* may inject a frame under an identifier that counts down from
  `u32::MAX`.

**What is hard.** Three frames on one band that begin in different orders; a frame that
ends at the instant another begins; several frames that end together, so that the first
event serves them all and the rest find nothing; replies that begin while a batch is half
delivered; two nodes with one identifier; callbacks that ask for the current instant again,
or for a past one; nodes registered while frames are on the air, between two calls of
`run`; a final event after `end_time`; a device with timeouts of its own, whose wakes cannot
be cancelled once they are queued; generators that must not fall into one sequence.
`PROJECT.json` lists these hazards with their lines and the properties that cover them.

**What makes each component correct.**

- *Channel*: the flags set pair by pair are those that all the frames justify together, a
  verdict is given once and never revised.
- *Scheduler*: simulated time never goes back; a frame on the air has its completion
  queued; frames are delivered at their end, once, to everyone but the sender; nothing due
  is left when `run` returns; `run` returns when callbacks let time move on.
- *Metrics*: each counter is what was really on the air.
- *Interferers*: `observe` tells each of them the start and the end of every frame, once and
  in order.
- *ALOHA node*: it neither invents nor repeats a payload and falls silent. That it falls
  silent only when the traffic is exhausted does **not** hold (section 5). In the example's
  simulation the receiver gets exactly what came through.
- *LoRaWAN sender*: the adapter and its device agree on whether an exchange is under way, a
  timeout fires when the device asked for it, each fragment of the file is sent once or
  refused, uplinks keep apart, and the node sleeps for good only when the file is done.
- *Generator*: it never reaches zero, two that start apart stay apart, and two nodes of one
  simulation start apart.

## 2. The modules

    Frames              frames, overlap, and the outcome of a frame told from all frames
      Medium            what the channel promises: Start, Decide, TimePasses
      Broadcast         what the scheduler promises: Join, Turn, Hear, Lose, Pass
      Channel           src/channel.rs; implements Medium
        ChannelProofs
        ChannelTests    the unit tests of src/channel.rs, replayed
    Metrics             the counters
      Scheduler         src/scheduler.rs, with Channel as `Ch`; implements Channel's Spec, Broadcast
        SchedulerProofs       its order and its use of the channel
          AccountingProofs    its counters and observers, and the broadcast
        TimerContract   the same, when callbacks name no time in the past
          AlohaNetwork        examples/aloha/main.rs: Scheduler of Aloha nodes
            AlohaNetworkProofs    with AccountingProofs, and AlohaProofs as `AP`
          LoRaWanNetwork      examples/lorawan_file_transfer/main.rs: Scheduler of LoRaWan
            LoRaWanNetworkProofs  with AccountingProofs, and LoRaWanProofs as `DP`
          SchedulerTests      the unit tests of src/scheduler.rs, replayed
    AlohaNode           examples/aloha/aloha_node.rs, as a value and its functions
      Aloha             one node, driven as the scheduler drives nodes
        AlohaProofs
    LoRaWan             examples/lorawan_file_transfer: adapter, fragmenter, radio
      LoRaWanProofs
    Prng                src/prng.rs and derive_seed
      PrngProofs

`MCChannel`, `MCScheduler`, `MCPastWakes`, `MCAloha`, `MCAlohaNetwork`, `MCLoRaWan`,
`MCLoRaWanNetwork`, `MCPrng` and `MCTests` hold the instances for TLC.

**Frames.** A frame keeps the fields of `ActiveTransmission` that decide its fate. The
spreading factor and the frequency are only ever compared together and are one value, the
*band*. The threshold is an `f32` in the code, compared only with differences of two `i8`,
so rounding it up to a whole number changes no comparison. `Outcome` is the ground truth: a
definition over *all* frames that does not know of flags, vectors or the order of calls.

**Channel.** One action per method, and `TimePasses` for the moves of its caller's clock.
The vectors of the code keep frames in the order in which they began, so sets of frame
numbers stand for `active` and `completed`. `frames` is a history: the code forgets a
drained frame. `BeginTransmission` splits the frames that the new one meets in the three
cases of lines 201-210: `Beaten`, `Stronger` and `Level`.

**Medium.** The abstract specification: a frame is pending, then gets the outcome that
all frames justify. `Channel!ImplementsMedium` maps the two flags to a verdict. It is
stronger than the invariant on flags: it says the verdict is given once, at the first
`resolve_at` after the end of the frame, and that no later frame would have changed it.

**Scheduler.** One action per stretch of code between two places where foreign code gives
an answer. `pc` is the place in `run()`; exactly one kind of step is enabled at each place,
so nothing interleaves inside a handler that does not in the code.

| Action | Code |
|---|---|
| `AddNode`, `AddInterferer` | 172-199, guarded by the `debug_assert` of each |
| `PopWake`, `PopTxComplete`, `PopInterferencePoll` | the three arms of `match event.kind`, 284-326 |
| `HandlePollTransmit` (`NodeStaysSilent`, `NodeTransmits`) | 211-224, at the end of a wake and of each delivery |
| `Drain`, `SkipCollided`, `StartDelivery`, `SkipSender`, `Deliver`, `EndDelivery`, `EndBatch` | `deliver_completed_to_nodes`, 226-252 |
| `Run`, `Stop` | the call of `run()`, and 277-280: an event beyond `end_time` is popped and lost |

Nodes and interferers are arbitrary implementors: each callback returns any wake time
`now + d` with `d` in `Delays`, or none, and any transmission of the constants, or none.
Registration happens in any order, with identifiers that may coincide. It may also happen
after `run()` has returned, and `run()` may be called once more: `Registering` leads from
`"stopped"` back to `"setup"`, with frames still on the air. `handled` and `heard` are
history variables, the last event and the calls of `observe` on each interferer; so are
`joined` and `tuned`, the number of frames begun when a node or an interferer was registered,
without which one could not say what a newcomer is owed.

`heard` holds a sequence of events for each interferer, and an event has what `ChannelEvent`
has: a sender, a time and a band or a flag, and no frame. Two frames of one sender that
overlap give events that only their order tells apart, so that order is part of the model
(`InVectorOrder`) and of what is claimed. An observer can tell how many frames of a sender
are on the air and what became of those that ended, and not which of them are which.

**Broadcast.** The abstract specification of the whole simulator, as a node and a reader of
the counters see it. It knows all the frames that ever began, which of them are settled and
who has heard what; it has no queue of events, no frames on the air, no batch and no flags.
Its four rules are those that matter to a result: time does not pass the end of a frame that
is not settled (`Turn`), frames are settled at their end and in the order of their ends
(`IsNextToSettle`), one that another destroys is counted and heard by nobody (`Lose`), and
any other is done with when each node that was there when it began, its sender apart, has
heard it (`Hear`, `Pass`). A node may answer what it hears in the step in which it hears it.
`Scheduler!ImplementsBroadcast` maps `settled` to the frames that the delivery loop is done
with and `heardBy` to the receptions, and the counters `tx`, `rx` and `collisions` to those
of the code, so that each moves in the step that it counts. Captures and the airtime, which
no node sees, are left to `VerdictAccounting` and `TxAccounting`.

**TimerContract.** The code accepts any wake time. `Scheduler` therefore allows negative
delays, and `TimerContract` adds, in an assumption of its own, that callbacks name none.
What needs it says so by extending it.

**AlohaNode, Aloha.** The node and its `PeriodicTraffic` are a record; `TryGenerateTx` and
`PollTransmit` are functions on it, so that one text serves both the single node and the
network. All frames of a node are alike, so only their number is kept. `Aloha` drives one
node as `Scheduler` does: woken exactly when it asked, polled after each callback, and
disturbed by receptions before its next wake. `sent` and `probed` are history.

**AlohaNetwork.** The simulation of the example's `main`: each action is an action of
`Scheduler`, conjoined with what the callback of the node in question returns.
`SendersAreAloha` closes the circle: each sender, with the wakes the queue holds for it,
takes the steps that `Aloha` allows and no others.

**LoRaWan.** The sending node: `LoRaWanAdapter`, the `FileFragmenter` and the reception of
`SimulatedRadio`, around the Class A device of the `lorawan-device` crate. The crate is not
in the repository and is *external*: the model has what the adapter relies on. `device` is
`"idle"` or the next step of an exchange: two receive windows, each opened and closed by a
`TimeoutFired`, and a downlink for the device that ends the exchange in either window. The
band of a window is any band.

| Action | Code |
|---|---|
| `UpdateIdle` | `update` with no timeout pending, 167-169 |
| `OpenRx1`, `CloseRx1`, `OpenRx2`, `CloseRx2` | `update` with one pending, 151-166 |
| `SendFragment`, `LoseFragment`, `WaitForFile` | `try_send_fragment`, inside the two above |
| `NotListening`, `NotExpected`, `StrayFrame`, `StrayFrameReask`, `Downlink` | `on_receive` by what the radio and the device answer, 119-143 |
| `PollTransmit` | `poll_transmit`, with which each handler ends |

`wakes` holds the queued wakes in the order in which they were scheduled, which breaks ties.
A wake cannot be withdrawn, so after a downlink the wake of its window stays and starts the
next fragment. Two answers are left to chance because nothing in the repository settles
them: whether the device cancels reception after a downlink, and whether it answers a radio
event with a timeout, for which `on_receive` has an arm. The variable `reasks` says which
kind of device it is; like `interval` it is chosen in `Init`, so one run covers both kinds
and all intervals. A Phy event is raised only after `inject_downlink` has stored a frame, so
the radio answers it with `RxDone`. The branch for a device that is not ready to send is the
predicate `PollsBusyDevice`; `AgreesWithDevice` states that it is never reached.

**LoRaWanNetwork.** The simulation of the example's `main`: `Scheduler` with the device, the
server, which is a sink, and a `PeriodicInterferer` on each channel. The wakes of the device
are those in the scheduler's queue, in the order of their numbers (`DeviceWakes`), and
`DeviceIsLoRaWan` states that every step is one of `LoRaWan` or leaves the device alone.

**Prng.** A word is the set of the positions of its ones, so that the width, 64 in the code,
is a parameter, and xor and shifts are what they are on sets. `wrapping_mul` is `Times`, a
sum of shifted words whose carries stop at the width, so words of 64 bits need no integers of
64 bits. The state is two generators that draw in step, since what matters of two nodes is
whether they see one sequence.

**Tests.** `ChannelTests` and `SchedulerTests` restate the unit tests of the two files as
scripts of calls with expected flags, counters and clocks, replayed on `Channel` and
`Scheduler`; `KnownSequence` in `MCTests` evaluates the numbers that a test of `prng.rs`
pins down, on words of 64 bits, and `PinnedSeeds` the seeds that a test of `lorawan_adapter.rs`
does. They tie the models to the code by what the authors
themselves took to be its behaviour. Tests about RSSI, SNR and accessors are left out.

## 3. The runs

| Run | Instance | What it shows |
|---|---|---|
| `channel` | 3 frames, 2 bands, powers 0, 1, 3 with threshold 2, durations 0 and 2, times 0..3 | the flags equal ground truth at every moment, and the channel implements `Medium` |
| `scheduler` | 2 nodes that may share an identifier, or want the interferer's; 1 interferer, 3 frames, 2 bands, instants 0..2, delays 0 and 1, durations 1 and 2 | the scheduler implements `Broadcast`; order of events and of frames settled, and accounting, over several calls of `run()`, and that the channel is used correctly |
| `past_wakes` | the same on one band, delays -1, 0 and 1 | without the timer contract frames are still delivered, at their end and once to each node that is to receive them |
| `scheduler_termination` | 1 node, 2 interferers, 1 band, delay 1, durations 1 and 2, end at 2 | `run()` returns; what each interferer is told, event by event: all beginnings and all ends since it was registered, once and in order |
| `scheduler_captures` | 2 nodes, 3 frames of two powers | a finding: more captures than collisions |
| `aloha` | traffic intervals 0, 1, 2, 4, poll intervals 0..3, 0..4 payloads | each payload is accounted for, silence at last |
| `aloha_network` | 3 senders on 2 bands, first wakes 0..2, intervals 0, 1, 3, 2 packets each, end at 4 | the receiver gets what came through, each packet has one fate in the counters, the run ends |
| `lorawan` | a file of 9 bytes in chunks of 2, intervals 0, 3, 5, 7, a device that may refuse to send and may ask again | timeouts on time, agreement with the device, no fragment lost or doubled, uplinks apart, the file goes out |
| `lorawan_network` | a file of 5 in chunks of 2, interval 0, two interferers of period 5 and duration 2 | the device is driven as `LoRaWan` assumes, its uplinks never overlap, the file goes out |
| `prng` | words of 64 bits with the code's shifts and multiplier; 6 identifiers under 13 master seeds, and 8 words whose ones lie a shift apart | never zero, sequences that start apart never merge, no two nodes of one simulation share one |
| `unit_tests` | the unit tests of two files with their own numbers | the models do what the tests expect of the code |
| `aloha_exhausted` | interval 4, poll 1, 20 payloads | a finding: the node stops after the first payload |

**Bounds and why they suffice.**

- *Three frames.* Flags are set pair by pair, so two frames exercise each branch and a
  third is needed for a flag to be set by one pair and met by another; lines 207-210 exist
  for exactly that case. The theorems remove the bound.
- *Powers* 0, 1, 3 with threshold 2 give a difference below, at and above it in both
  directions.
- *Durations.* With 0 and 2 and times 0..3, frames touch, nest, coincide and are empty. The
  scheduler run has 1 and 2 with end time 2: frames end before, at and after the end of
  the run, so that a newcomer may find one on the air.
- *Two nodes and one interferer* give a sender and a receiver, the loop over nodes with a
  skip at either end, nodes with one identifier, a node that wants the interferer's
  identifier, and an injected frame that meets a node's. `scheduler_termination` has two
  interferers, so that an event has to reach one that is not its cause, and one may be
  registered later; they and the node share one band, where every two frames that overlap
  meet. With a duration above the delay, frames of one sender overlap, and frames begun at
  different times end together.
- `MaxWakes` stops new wakes once `seq` has reached it, so that a delay of 0 cannot fill the
  queue; `MaxFrames` bounds frames. In `scheduler_termination` and in the two networks both
  are above what a run can reach, so that the liveness results do not come from the bounds.
- `Aloha` needs no bound: its state is finite for given parameters.
- `aloha_network`: two senders share a band and one has its own, so packets collide, miss
  each other and are received together; intervals below, at and above the poll interval make
  the early stop of section 5 part of the run.
- `lorawan`: a file of 9 with chunks of 2 has four whole fragments and a cut one. Time is
  counted in microseconds, 2 to a millisecond, so that mistaking the unit shows. The first
  window closes at the instant the second opens, as the one-second windows of
  `SimulatedRadio` do. The device's cycle ends after 6: with an interval of 5 a node that
  hears nothing is never early and one that got a downlink waits for the file; with 7 it
  waits each time. `MaxWakes` bounds only the timeouts asked for in answer to frames; for
  other devices one wake is all there is, which the proofs show.
- `lorawan_network`: the interferers' period of 5 against a cycle of 12 puts their frames
  into, across and between the windows. That an uplink ends before its first window opens is
  an assumption by name (`UplinkAssumption`). It is one about the uplinks of `main`:
  `SimulatedRadio` answers `TxDone(0)`, so the windows count from the start of the uplink, and
  the first opens after a second. An uplink at DR5, which the adapter sets, takes less
  than half of that; one at SF12 may still be on the air.
- `prng`: the identifiers are the smallest, as `main` has them, and the largest of a `u32`. Of
  the 2^64 masters it takes the ends and those that give an identifier the seed 0 or 1,
  since `new` makes one sequence of these two (section 6). The other words are such that the
  first step brings their ones together, where a step that loses a bit would merge them. A
  few draws suffice: that no step merges two words is proved for all of them.

**Symmetry** is used for bands only, which are compared and nothing else, in `channel` and
`scheduler`, and in no run that checks liveness.

**Deadlock** is checked in the channel run and in all runs of `Scheduler` with arbitrary
callbacks. The other runs switch it off, because what they model stops: a node that asks
for no further wake, a simulation whose `run()` is called once, a bounded number of draws,
a test that is over.

**Fairness.** `Scheduler!FairSpec` has weak fairness of everything `run()` does: a loop in
one thread does not pause. Nobody has to call it, and no choice of a callback is fair.
`Termination` also needs time to move on, so that run has strictly positive delays and
durations. With a delay of 0, a period of 0 or empty frames the code does loop at one
instant for ever; nothing in it prevents that. `Aloha!Spec` and `LoRaWan!Spec` have weak
fairness of the handler of a wake: the wake is in the queue, and only the finitely many
events that precede it come first. `AlohaNetwork!NetworkSpec` has weak fairness of what
`run()` does, and `LoRaWanNetwork!NetworkSpec` of every step, `main`'s calls included.
`MCTests!SuiteSpec` lets each test run to its end.

**What the unit tests do not notice.** `BeatenAbove` (`>` for `>=` at the threshold,
line 201), `DueBefore` (the last instant left out, line 278) and `SkipCollidedLate` (the
capture counted before the verdict, line 230) change the model in ways that no replayed unit
test of the two files fails on. The properties of the runs `channel` and `scheduler`
fail on each of them.

## 4. What is proved

### Channel (`ChannelProofs`)

For every set of bands, senders, powers and durations, every positive threshold and every
bound on frames and time:

| Theorem | Statement |
|---|---|
| `TypeCorrect` | `Spec => []TypeOK` |
| `Inductive` | `Spec => []IInv` |
| `VerdictsAreTrue` | `Spec => []CollidedIffDestroyed` |
| `CapturesAreTrue` | `Spec => []CapturedIffSurvived` |
| `ChannelImplementsMedium` | `Spec => ImplementsMedium` |

Assumptions: powers are integers, durations naturals, the threshold a positive number
(`FramesAssumption`), and the bounds naturals (`ChannelAssumption`). That calls come in
the order of time is part of `Channel!Next`; that the scheduler keeps to it is
`SchedulerUsesChannel` below.

*The argument.* `CollidedIffDestroyed` is not inductive by itself. `begin_transmission`
looks only at the frames on the air, while ground truth ranges over all frames. What
closes the gap is `InOrder`: no frame starts after `now`, and a frame that is off the
air ended by `now`. Hence a new frame meets only frames on the air
(`OnlyActiveFramesMeet`), the three cases of the power difference mark exactly the frames
the new one destroys and those that destroy it (`FlagsMarkTheDestroyed`), and adding a
frame to the history changes ground truth by that frame alone (`IsDestroyedGrows`,
`IsMetGrows`). `IInv` is `InOrder` with the two flag properties; `BeginKeepsIInv` is the one
action that changes flags, `OthersKeepIInv` covers the rest. For the refinement,
`FlagsGiveOutcome` turns the flags of a resolved frame into its `Outcome`, so that
`ResolveAt` is `Decide` and `BeginTransmission` is `Start`; `DrainCompleted` is a stutter.
`OverlapsMeansCommonInstant` shows that the strict comparison of ends in `overlaps` means
that two frames that last share an instant.

### Scheduler (`SchedulerProofs`)

For any number of nodes and interferers that return any wake and any transmission, whatever
their identifiers, registered before or between calls of `run()`:

| Theorem | Statement |
|---|---|
| `Inductive` | `Spec => []IInv` |
| `SchedulerTypeCorrect` | `Spec => [](TypeOK /\ RegistrationFits)` |
| `CompletionsAreQueued` | `Spec => []CompletionIsQueued` |
| `DeliveryIsPunctual` | `Spec => []DeliveredAtItsEnd` |
| `RunIsComplete` | `Spec => []NothingLeftBehind` |
| `TimeGoesForward` | `Spec => []AgendaIsAhead`, if `Delays \subseteq Nat` |
| `SchedulerUsesChannel` | `Spec => UsesChannel`, if `Delays \subseteq Nat` |
| `DeliveryGoesByTrueVerdicts` | `Spec => [](Ch!CollidedIffDestroyed /\ Ch!CapturedIffSurvived)`, if `Delays \subseteq Nat` |

Assumptions: those of the channel, identifiers are naturals, there are no more interferers
than identifiers from `u32::MAX` down (`SchedulerAssumption`). The timer contract, that
delays are not negative, is a hypothesis of three theorems only: the code allows a past wake,
and the others hold with one. The run `past_wakes` is an instance in which the clock does go
back.

*The argument.* None of the properties is inductive alone. `IInv` joins them with three
facts that the code never states: the clock is the time of the event handled last and the
numbers of queued events are distinct and below `seq` (`ClockAndNumbers`); a queued wake
names a node that is registered and a queued poll an interferer that is
(`RegistrationFits`), so that `find_node_idx` finds one; and `completed`, the batch and the
frame being delivered are empty outside their place in `run()`, while between two runs the
frames on the air end after `end_time` (`Phases`). That the agenda is ahead of the clock is
a conjunct under the contract (`AheadByContract`). Distinct numbers make `Before` a strict
total order, so a queue that is not empty has a next event and no other is earlier
(`SomeEventIsNext`). `handle_poll_transmit` and the poll of an interferer are both a *turn*:
either only the clock moves, or one frame begins and its completion is among the events
scheduled (`NodeTurn`, `InterfererTurn`). The lemmas `TurnKeeps...` say once what a turn
preserves, and serve wakes, polls and replies alike.

The central step is `PopTxCompleteKeepsIInv`. Each frame on the air that is due has its own
completion queued at its end and the popped event is the earliest of the queue, so no frame
on the air is overdue (`PoppedEvent`): that needs the order of the queue and not that of the
clock, which is why past wakes do no harm. Those that leave end exactly now, which is
`DeliveredAtItsEnd`; those that stay end later, so their completions are other events and
still queued. `CompletionIsQueued` speaks of due frames only, which is what makes it survive
`Stop`: the event that `run()` drops is beyond `end_time`. If no event is in the past, each
call of the channel comes at or after the previous one (`StepUsesChannel`), and the channel's
theorems hold of every run. `ChannelProofs` is instantiated a second time as `P`; `SameStep`,
`SameType` and `SameVerdicts` identify it with the instance `Ch` of the model.

### Counters and observers (`AccountingProofs`)

Under the same assumptions:

| Theorem | Statement |
|---|---|
| `AccountsAreKept` | `Spec => []AInv` |
| `ReceptionsAreCounted` | `Spec => []RxAccounting` |
| `ObserversAreToldAll` | `Spec => []ObserversTrackTheAir`, if `Delays \subseteq Nat` |
| `TransmissionsAreCounted` | `Spec => []TxAccounting` |
| `VerdictsAreCounted` | `Spec => []VerdictAccounting`, if `Delays \subseteq Nat` |
| `FramesSettleInOrder` | `Spec => []SettledInOrder`, if `Delays \subseteq Nat` |
| `SchedulerIsBroadcast` | `Spec => ImplementsBroadcast`, if `Delays \subseteq Nat` |
| `CountersAddUp` | `Spec => []EveryFrameHasOneFate` |

*The argument.* `AInv` adds to the scheduler's `IInv` what keeps the books from being
revised. `Apart`: a frame is in one of `active`, `completed`, the batch and `delivering`,
and only one that did not collide is delivered. `begin_transmission` marks frames on the air
only (`BeginningMarksTheAir`), so with `Apart` the flags of the frames a counter has seen are
final, also while a reply begins in the middle of a delivery. `Newcomers`: a frame begun
before a node or an interferer was registered, and not done with, ends after `end_time`;
with `DeliveredAtItsEnd` a frame being delivered is therefore one its receivers were there
for. `VerdictsByFlags` counts by the flags the code reads; `FlagsTellOutcomes` turns them
into outcomes by `DeliveryGoesByTrueVerdicts`. Receptions are pairs of a frame and a place
in the list of nodes, so two nodes that share an identifier, and one counter, cause no double
count; `DeliverKeepsAInv` adds exactly one pair (`OneReceptionMore`), every other step none
(`SameReceptions`).

`TransmissionsAreCounted` needs an invariant of its own, `Sending`. A node may be registered
after frames were sent under its identifier, so the counters have to be right for every
identifier that no interferer has, registered or not; and an interferer may not be given the
identifier of a node, or its frames, which are not counted, would be taken for the node's.
The airtime is the number of pairs of a frame and an instant at which it is on the air
(`OnAir`), so that it grows by cardinality and not by a sum.

`ObserversAreToldAll` is about sequences of events that name no frame, so what has to be shown
is which frame each event is about. A beginning is easy: the n-th one told is of the n-th frame
begun since the interferer was registered (`BegunSince`). For the ends, the frames that leave
in one `resolve_at` end after all that left before (`Ordered`) and are told from the one begun
first, so the n-th end told is that of the n-th frame in the order of ends and then of
beginnings (`UpToLeaving`, `CompletionsAreTracked`). That no interferer is told of the end of a
frame whose beginning it missed is `Newcomers` again. The invariant `Observing` adds that
nothing told lies ahead of the clock, and events therefore come in the order of time.

`FramesSettleInOrder` rests on `Ordered`: what is off the air has ended by now and before all
that is on it, what is settled ended before what is drained, and the frame in delivery before
the rest of its batch. One `resolve_at` may take several frames; that all of them end now,
and those left on the air later, is `PopTxComplete`'s part (`PopTxCompleteKeepsOrder`), and a
reply begins no earlier than now, so its frame comes last (`TurnKeepsOrder`).

`SchedulerIsBroadcast` is the sum of these. `StepIsBroadcast` maps each step: registration
to `Join`; a wake, a poll or a completion to `Turn`; the loop over nodes to `Hear` at a node
that listens (`DeliverIsHear`) and to nothing at the sender; `SkipCollided` to `Lose` and
`EndDelivery` to `Pass`; all others change nothing that `Broadcast` has (`UnseenStep`). For
`Turn`, what is not settled is outside handlers what is on the air, and none of it is overdue
(`PoppedEvent`). For the rest, the frame taken from the batch is by `Ordered` the next to
settle (`TakenIsNextToSettle`, `DeliveredIsNextToSettle`), and `Ch!CollidedIffDestroyed`, from
`DeliveryGoesByTrueVerdicts`, turns the flag that the code looks at into what all frames
justify. `Hear` is new to the node because `cursor` has not passed it, and adds one pair to
`heardBy` and one to the counter of the node (`OneHearingMore`). The code hands a frame to
every node in its list and does not ask who was there when it began; that this is the same is
`Newcomers`: a node registered later finds on the air only frames that end after `end_time`.
When the cursor has passed the last node, everybody who was there has heard the frame
(`EndDeliveryIsPass`).

`CountersAddUp` needs no timer contract. Whenever `run()` is not inside a handler, for a node
that was there from the start and shares its identifier with no other: its receptions, its own
frames that came through, the collisions and the frames on the air are together all the frames
that ever began. `tests/scalability_and_metrics_tests.rs:334` states an inequality of this kind,
for random simulations. The sets are disjoint and exhaust the frames (`FatesAddUp`); that they
are what the counters count is `AInv`.

### ALOHA node (`AlohaProofs`)

`AlohaTypeCorrect` (`Spec => []TypeOK`: one wake at most) and `PayloadsAreAccountedFor`
(`Spec => PayloadAccounting`), for every interval, poll interval and budget. The step that
counts is `TakePayload` inside `Probe`, where a payload moves from the budget to `probed`.

### ALOHA simulation (`AlohaNetworkProofs`)

For any number of senders, all intervals, budgets, first wakes and lengths of the run:

| Theorem | Statement |
|---|---|
| `SendersRunAloha` | `NetworkSpec => SendersAreAloha` |
| `ReceiverHasWhatArrives` | `NetworkSpec => []ReceiverGetsWhatArrives` |
| `TxFatesAddUp` | `NetworkSpec => []EveryTxHasOneFate` |

Assumptions: those of the scheduler, the timer contract, and `AlohaNetworkAssumption`, which
says what `main` registers.

*The argument.* A step of the network is a step of the scheduler (`NetworkStepIsStep`), so
`IInv`, `AInv` and `Ordered` hold. `NInv` adds four facts. `InPlace`: a node's place in the
list is its identifier plus one, so the receiver is served first. `OneWakeEach`: a sender has
one wake queued at most and the receiver none, so the event popped is the wake of `Aloha`.
`HandedOver`: frames begun and payloads handed over are one to one, which ties `pending` of
the node to what `handle_poll_transmit` puts on the channel (`TransmitsWhatIsPending`).
`Kept`: the receiver has the frames that came through and have passed it, in the order of
their ends. A frame passes the receiver in the step in which the cursor leaves place 1, which
is why `Passed` looks at `cursor`; that this keeps the list in order is `Ordered`
(`ReceiverTakes`). At the end only frames that end after `end_time` are still on the air
(`AtTheEnd`), and the verdicts are those of all frames, so `Passed` is `Arrived`, and the
counters of the three sets of frames add up (`DisjointUnion`).

### LoRaWAN sender (`LoRaWanProofs`)

For every file, chunk size, set of intervals and windows that open and close in order:

| Theorem | Statement |
|---|---|
| `LoRaWanTypeCorrect` | `Spec => []TypeOK` |
| `TimeoutsFireOnTime` | `Spec => []TimeoutFiresOnTime` |
| `AdapterAgreesWithDevice` | `Spec => []AgreesWithDevice` |
| `FragmentsAreAccountedFor` | `Spec => []FragmentsAccounted` |
| `SenderIsSilentOnlyWhenDone` | `Spec => []SilentOnlyWhenDone` |
| `UplinksStayApart` | `Spec => UplinksApart` |

*The argument.* A handler pops one wake and asks for at most one, so without a device that
reasks there is never more than one (`OneWake`), and while a timeout is pending it is the
one for it: the pending milliseconds are those of the device's step (`TimeoutIsOfStep`),
counted from `txStart`. After a downlink the wake left behind is not before the end of the
first window (`IdleWakesAreLate`), which is what keeps the next uplink apart. For the
fragments, `offset` is a multiple of the chunk until the file is done (`ChunksFromStart`), so
the rounding in `FragmentsAccounted` is exact. `NextIsDue` bounds `nextSend` by the last
uplink.

### LoRaWAN simulation (`LoRaWanNetworkProofs`)

For every file, chunk size, interval and choice of timeouts, and any number of interferers:

| Theorem | Statement |
|---|---|
| `DeviceRunsLoRaWan` | `NetworkSpec => DeviceIsLoRaWan` |
| `UplinksDoNotOverlap` | `NetworkSpec => []OneUplinkAtATime` |

Assumptions: those of the scheduler and of `LoRaWan`, the timer contract,
`LoRaWanNetworkAssumption`, which says what `main` registers, and `UplinkAssumption`.

*The argument.* `LoRaWanProofs` is instantiated as `DP`, with the wakes of the device taken
from the queue, and `SameDevice` identifies it with the instance `Dev` of the model. `NInv`
says that the device has one wake queued at most (`OneWakeQueued`). The event popped is then
the only one there is to take (`PoppedWake`), so the step is one of `DP!Next`; nothing else
in the simulation schedules a wake or drops one before the run ends (`NoWakeScheduled`,
`QuietStepKeepsNetwork`). So the device's own invariant holds in the network
(`DeviceKept`), and with it all that is proved of the sender above, until `Stop` may have
dropped its last wake; this is the one reason for the guard in `DeviceIsLoRaWan`. For the
second theorem, an uplink begins only in the step that hands a fragment over, at its
`txStart` (`UpdateSends`), and every uplink so far is over by the end of the first window
after the last one (`UplinksOver`). The device's step keeps a new uplink clear of that window
(`DP!ApartStep`), so it meets none (`OwnFrame`).

### Generator (`PrngProofs`)

`PrngInvariant`, `PrngTypeCorrect`, `ZeroIsNeverDrawn` (`Spec => []NeverZero`) and
`StreamsNeverMerge` (`Spec => []StreamsStayApart`) for words and shifts of any length.
`x ^= x << k` keeps the lowest one of a word and `x ^= x >> k` the highest, so neither makes
a word zero; both are linear, so neither makes two words equal (`IInv` is that the
generators are words, not zero, and apart if they began apart). The constructor's
replacement of 0 by 1 is what starts the induction.

## 5. Findings

1. **More captures than collisions** (`scheduler_captures`).
   `tests/scalability_and_metrics_tests.rs:281` calls captures "a subset of collisions".
   The scheduler counts one capture per frame that came through and one
   collision per frame lost, so one weak frame under two strong ones in turn gives
   two captures and one collision. The nodes of the test transmit at one power, where nothing
   is ever captured.
2. **ALOHA senders stop early** (`aloha_exhausted`). `try_generate_tx` concludes from one
   probe, one poll interval ahead, that the traffic is exhausted. With the parameters of
   `examples/aloha/main.rs`, 2 s between payloads and 500 ms between polls, each sender
   stops after one of twenty packets.

Two comments say what the code does not do. No run is spent on them, because the models show
them in passing:

- *Overlapping frames do not always both collide.* The doc of `begin_transmission`
  (`channel.rs:165-166`) says that of two frames that overlap on one spreading factor and
  frequency "both are marked collided". That is so when neither is stronger by the rejection
  threshold; otherwise the code marks only the weaker one and calls the other captured
  (lines 201-206). The unit tests of capture, replayed in `unit_tests`, expect that, and
  `Outcome`, and with it `CollidedIffDestroyed`, follows the code and not the doc.
- *The probe of the ALOHA node is not safe.* The comment at `aloha_node.rs:84-85` says that
  `next_payload` "consumed the future slot" but "calling it early is safe". The payload that
  the probe finds is dropped and its slot is used up: in `Aloha` it moves from `remaining` to
  `probed` and never to `sent`, which `PayloadAccounting` records and does not forbid. With a
  positive traffic interval a node therefore sends only its first packet: either the probe
  finds nothing and the node stops (finding 2), or it takes each later payload itself.

Behaviour that contradicts no statement of the repository, or none that counts, but that a
reader of the code may not expect:

- A frame may be drained both collided and captured: one that was captured and then beaten
  (line 202), or collided and then met by a weaker one (line 206). The scheduler looks at
  `collided` first (line 229), so no counter is wrong.
- When the device refuses a fragment, it has already been taken from the file, and
  `try_send_fragment` returns `None` (`lorawan_adapter.rs:106`): the fragment is lost and the
  node falls silent, with the rest of the file unsent, unless another wake is still queued.
  `refused` counts such fragments; `SilentOnlyWhenDone` and `FileIsSent` leave that case aside.
- `derive_seed` is documented to give every pair of a master seed and an identifier a seed of
  its own (`lorawan_adapter.rs:18-19`), which no function of two words to one can. Within one
  simulation, that is for one master, it does (`prng`).
- `update` of the LoRaWAN adapter fires whatever timeout is pending, on any wake
  (`lorawan_adapter.rs:151`). If the device answers a radio event with a timeout, two wakes
  are queued for it and the second fires the next timeout before its time. With a device that
  does not, `TimeoutsFireOnTime` shows that it cannot happen; with one that does, adapter
  and device still agree and the file is still sent.
- The clock of the scheduler goes back when a callback names a past time. Frames are still
  delivered at their end and counted once (`DeliveryIsPunctual`, `ReceptionsAreCounted`), but a
  frame that begins in the past may escape the collisions with frames already resolved.
- The counter `rx` counts frames of interferers as well as of nodes, so `rx` over `tx`, which
  the ALOHA example prints, is a delivery ratio only where nothing is injected.

## 6. Checked but not proved, and not modelled

**With TLC only.**

- Liveness (`Termination`, `FallsSilent`, `FileIsSent`, `SimulationEnds`,
  `TransferCompletes`) and the unit tests: TLAPS does not reason about `ENABLED`, nor
  therefore about fairness.
- `NodesHaveTheirOwnStreams`, at the code's width and constants, for a sample of identifiers
  and masters. Two seeds give one sequence only if they are equal or 0 and 1. From one master
  and two identifiers they are equal only if the products with the multiplier are, which an
  odd multiplier excludes; and they are 0 and 1 only if the products differ by 1, so the
  identifiers by plus or minus the inverse of the multiplier. That this is `MultiplierInverse`,
  and that neither it nor its negation fits in the 32 bits of a `NodeId`, is the assumption
  `SeedsZeroAndOneAreFarApart` of `MCPrng`, which TLC evaluates.

**Left out on purpose.**

- Payloads, RSSI, SNR: functions of one frame, no control depends on them.
- Overflow of `u64` times: no caller comes near 2^64 microseconds.
- A threshold of zero or less, which `ChannelConfig` accepts: the three cases of
  `begin_transmission` then overlap and its outcome depends on the order of frames.
- Builds without debug assertions, in which a node may take an interferer's identifier.
- Answers of the LoRaWAN device that neither its windows nor `SimulatedRadio` lead to:
  `Ok(_)` after `send` or `TimeoutFired`, and radio errors, which the simulated radio does
  not report. The time on air of an uplink is any of a set; its formula is data.
- `next_u32` and `fill_bytes`, which cut up what `next_u64` returns.
- The reports the two `main`s print, `src/main.rs` and `src/lib.rs`.
- `Protocol` in `src/traits.rs`: only tests implement it (in `traits.rs`,
  `tests/protocol_contract.rs` and `tests/protocol_timer_contract.rs`), and the scheduler does
  not drive it.

## 7. Plan

Done: the channel, the scheduler with late registration, several runs and callbacks that
break the timer contract, the counters, both examples with their simulations, the generator,
the abstract broadcast and the refinement to it, the unit tests; the proofs of section 4,
which state every safety property that a run checks but `NodesHaveTheirOwnStreams`.

Left: the scripts of the tests under `tests/`, replayed like the unit tests. Of the relations
between counters that these tests state, `CountersAddUp` proves more than the one about
receptions, and the one about captures is the first finding of section 5.
