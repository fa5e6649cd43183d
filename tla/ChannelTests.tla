---------------------------- MODULE ChannelTests ----------------------------
(***************************************************************************)
(* The unit tests of src/channel.rs replayed on module Channel: each is a  *)
(* script of calls, and what it asserts of their results.  The tests of    *)
(* RSSI, SNR and the accessors of ChannelConfig are about data that the    *)
(* model leaves out.  Bands are the pairs of sf and frequency themselves,  *)
(* and times are microseconds.                                             *)
(***************************************************************************)
EXTENDS Integers, Sequences, SequencesExt

VARIABLES
  now, frames, active, completed, collided, captured,  \* the channel
  test,      \* the test being run
  next,      \* the number of its next call
  resolved,  \* how many frames each call of resolve_at returned
  drained    \* the flags of each frame that drain_completed returned

channelVars == <<now, frames, active, completed, collided, captured>>
testVars    == <<channelVars, test, next, resolved, drained>>

(* Only the capture threshold of the configuration decides a verdict, and  *)
(* only when a frame begins.                                               *)
Thresholds == {6, 10}

Ch(rejection) == INSTANCE Channel WITH
  Rejection <- rejection, Bands <- {}, Powers <- {}, Durations <- {},
  Senders <- {}, MaxFrames <- 99, MaxTime <- 0

F == INSTANCE Frames WITH Rejection <- 6, Bands <- {}, Powers <- {}, Durations <- {}

-----------------------------------------------------------------------------
(* make_tx_power, and make_tx with its 14 dBm.                             *)
TxPower(sf, frequency, duration, power) ==
  [band |-> <<sf, frequency>>, power |-> power, duration |-> duration]

Tx(sf, frequency, duration) == TxPower(sf, frequency, duration, 14)

Plain == Tx(7, 868100000, 50000)

Loud(power) == TxPower(7, 868100000, 50000, power)

Begin(tx, time) == [call |-> "begin", tx |-> tx, time |-> time]
Resolve(time)   == [call |-> "resolve", time |-> time]
Drain           == [call |-> "drain"]

(* What a test may assert of the flags of a frame.                         *)
Whatever     == SUBSET {"collided", "captured"}
Collided     == {flags \in Whatever : "collided" \in flags}
NotCollided  == Whatever \ Collided
JustCollided == {{"collided"}}
JustCaptured == {{"captured"}}

(* A test on a channel with the given threshold: its calls, the flags that *)
(* it asserts of the frames drained, and the counts of the frames resolved *)
(* where it asserts these.                                                 *)
Test(rejection, calls, flags) ==
  [rejection |-> rejection, calls |-> calls, flags |-> flags, counts |-> << >>]

(* Most tests begin two frames, the second after a while, and drain both.  *)
Pair(rejection, first, second, flags) ==
  Test(rejection, <<Begin(first, 0), Begin(second, 10000), Resolve(60000), Drain>>, flags)

-----------------------------------------------------------------------------
SingleTransmission == Test(6, <<Begin(Plain, 0), Resolve(50000), Drain>>, <<NotCollided>>)

SameSfSameFreqEqualPower == Pair(6, Plain, Plain, <<Collided, Collided>>)

DifferentSf == Pair(6, Plain, Tx(8, 868100000, 50000), <<NotCollided, NotCollided>>)

DifferentFrequency ==
  Pair(6, Plain, Tx(7, 868300000, 50000), <<NotCollided, NotCollided>>)

NonOverlapping ==
  Test(6, <<Begin(Plain, 0), Resolve(50000), Drain,
            Begin(Plain, 60000), Resolve(110000), Drain>>, <<Whatever, NotCollided>>)

ExactlyAdjacent ==
  Test(6, <<Begin(Plain, 0), Resolve(50000), Drain,
            Begin(Plain, 50000), Resolve(100000), Drain>>, <<Whatever, NotCollided>>)

ThreeWayCollision ==
  Test(6, <<Begin(Plain, 0), Begin(Plain, 10000), Begin(Plain, 20000),
            Resolve(70000), Drain>>, <<Collided, Collided, Collided>>)

StrongerSurvivesWeakerLost == Pair(6, Loud(20), Loud(14), <<JustCaptured, Collided>>)

JustBelowThreshold == Pair(6, Loud(14), Loud(9), <<Collided, Collided>>)

ExactlyAtThreshold == Pair(6, Loud(20), Loud(14), <<NotCollided, Collided>>)

ThreeWayStrongestWins ==
  Test(6, <<Begin(Loud(20), 0), Begin(Loud(14), 5000), Begin(Loud(8), 10000),
            Resolve(60000), Drain>>, <<JustCaptured, Collided, Collided>>)

(* No frame is both delivered and captured, and the first just collided.   *)
CapturedFlagCleared ==
  Test(6, <<Begin(Loud(20), 0), Begin(Loud(14), 10000), Begin(Loud(20), 20000),
            Resolve(70000), Drain>>,
       <<JustCollided, Whatever \ JustCaptured, Whatever \ JustCaptured>>)

ConfigurableThreshold == Pair(10, Loud(20), Loud(14), <<Collided, Collided>>)

HighThresholdPreventsCapture ==
  {Pair(6, Loud(20), Loud(14), <<NotCollided, Collided>>),
   Pair(10, Loud(20), Loud(14), <<Collided, Collided>>)}

(* The three proptests, for a few of their inputs.                         *)
NNonOverlapping(n) ==
  Test(6, FlattenSeq([k \in 1..n |->
            <<Begin(Plain, 60000 * (k - 1)), Resolve(60000 * (k - 1) + 50000), Drain>>]),
       [k \in 1..n |-> NotCollided])

NSimultaneous(n) ==
  Test(6, [k \in 1..n |-> Begin(Plain, 0)] \o <<Resolve(50000), Drain>>,
       [k \in 1..n |-> Collided])

DifferentSfNever(sfA, sfB) ==
  Test(6, <<Begin(Tx(sfA, 868100000, 50000), 0), Begin(Tx(sfB, 868100000, 50000), 0),
            Resolve(50000), Drain>>, <<NotCollided, NotCollided>>)

NoActiveAfterResolve ==
  [Test(6, <<Begin(Plain, 0), Begin(Tx(7, 868300000, 30000), 10000),
             Begin(Tx(8, 868100000, 80000), 20000),
             Resolve(50000), Resolve(100000), Resolve(200000)>>, << >>)
     EXCEPT !.counts = <<2, 1, 0>>]

CollisionStateConsistency ==
  {Pair(6, Plain, Plain, <<JustCollided, JustCollided>>),
   Test(6, <<Begin(Plain, 0), Begin(Plain, 5000), Resolve(55000), Drain>>,
        <<Collided, Collided>>)}

Tests ==
  {SingleTransmission, SameSfSameFreqEqualPower, DifferentSf, DifferentFrequency,
   NonOverlapping, ExactlyAdjacent, ThreeWayCollision, StrongerSurvivesWeakerLost,
   JustBelowThreshold, ExactlyAtThreshold, ThreeWayStrongestWins,
   CapturedFlagCleared, ConfigurableThreshold, NoActiveAfterResolve}
  \cup HighThresholdPreventsCapture \cup CollisionStateConsistency
  \cup {NNonOverlapping(n) : n \in 2..6} \cup {NSimultaneous(n) : n \in 2..9}
  \cup {DifferentSfNever(sfA, sfB) : sfA \in 7..9, sfB \in 10..12}

-----------------------------------------------------------------------------
(* The tests of the function overlaps: two intervals, and its answer.      *)
OverlapsTests ==
  {<<0, 50000, 50000, 100000, FALSE>>, <<0, 50001, 50000, 100000, TRUE>>,
   <<0, 100000, 0, 100000, TRUE>>, <<0, 40000, 60000, 100000, FALSE>>}

Interval(start, end) == [start |-> start, end |-> end]

ASSUME OverlapsAsTested ==
  \A t \in OverlapsTests : F!Overlaps(Interval(t[1], t[2]), Interval(t[3], t[4])) = t[5]

-----------------------------------------------------------------------------
Init ==
  /\ test \in Tests
  /\ Ch(6)!Init
  /\ next = 1
  /\ resolved = << >>
  /\ drained = << >>

Calls(kind) ==
  /\ next <= Len(test.calls)
  /\ test.calls[next].call = kind
  /\ next' = next + 1
  /\ UNCHANGED test

BeginIsCalled ==
  /\ Calls("begin")
  /\ \E rejection \in Thresholds :
       /\ test.rejection = rejection
       /\ Ch(rejection)!BeginTransmission(
            next, test.calls[next].tx, test.calls[next].time)
  /\ UNCHANGED <<resolved, drained>>

ResolveIsCalled ==
  /\ Calls("resolve")
  /\ LET time == test.calls[next].time
     IN  /\ Ch(6)!ResolveAt(time)
         /\ resolved' = Append(resolved, Cardinality(Ch(6)!Over(time)))
  /\ UNCHANGED drained

FlagsOf(id) ==
  {flag \in {"collided"} : id \in collided} \cup {flag \in {"captured"} : id \in captured}

(* Frames are drained in the order in which they began.                    *)
InOrder(ids) ==
  [n \in 1..Cardinality(ids) |->
     CHOOSE id \in ids : Cardinality({other \in ids : other <= id}) = n]

DrainIsCalled ==
  /\ Calls("drain")
  /\ Ch(6)!DrainCompleted
  /\ LET ids == InOrder(completed)
     IN  drained' = drained \o [n \in DOMAIN ids |-> FlagsOf(ids[n])]
  /\ UNCHANGED resolved

Next == BeginIsCalled \/ ResolveIsCalled \/ DrainIsCalled

(***************************************************************************)
(* All calls have been made, the frames drained are as many as the test    *)
(* expects, with the flags it asserts, and resolve_at returned its counts. *)
(***************************************************************************)
Passes ==
  /\ next > Len(test.calls)
  /\ Len(drained) = Len(test.flags)
  /\ \A n \in DOMAIN drained : drained[n] \in test.flags[n]
  /\ test.counts # << >> => resolved = test.counts
=============================================================================
