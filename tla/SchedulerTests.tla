--------------------------- MODULE SchedulerTests ---------------------------
(***************************************************************************)
(* The unit tests of src/scheduler.rs replayed on module Scheduler: the    *)
(* nodes and interferers that the tests define drive it, and the counters  *)
(* are compared with what each test asserts after run().  All frames are   *)
(* on one band; times are microseconds and powers dBm.                     *)
(***************************************************************************)
EXTENDS Scheduler

VARIABLES
  test,      \* the test being run
  added,     \* how many of its registrations have been made
  fixtures,  \* the nodes of the test, as registered
  jammers    \* its interferers, as registered

testVars == <<vars, test, added, fixtures, jammers>>

-----------------------------------------------------------------------------
(* The nodes: what they send, how they answer, and their first wake.       *)
Node(id, kind, tx, first) ==
  [id |-> id, kind |-> kind, tx |-> tx, first |-> first, hasHeard |-> FALSE]

SimpleNode(id, tx, first) == Node(id, "simple", tx, first)
PeriodicNode(id, first)   == Node(id, "periodic", << >>, first)
WakeOnReceive(id)         == Node(id, "wake on receive", << >>, << >>)
ReplyNode(id, tx)         == Node(id, "reply", tx, << >>)

Updated(fixture, time) ==
  IF fixture.kind = "periodic" THEN <<time + 100000>> ELSE << >>

Answered(fixture, time) ==
  IF fixture.kind = "wake on receive" THEN <<time + 10000>> ELSE << >>

(* What poll_transmit hands over, and leaves behind.                       *)
Offer(fixture) ==
  IF fixture.kind = "reply" /\ ~ fixture.hasHeard THEN << >> ELSE fixture.tx

Polled(fixture) == [fixture EXCEPT !.tx = IF Offer(fixture) = << >> THEN @ ELSE << >>]

(* ActiveInterferer; NoOpInterferer is one that has nothing to inject.     *)
ActiveInterferer(duration, interval, remaining, first) ==
  [duration |-> duration, interval |-> interval, remaining |-> remaining,
   first |-> first]

NoOpInterferer == ActiveInterferer(30000, 0, 0, 0)

(* make_tx, and the transmissions of the capture tests.                    *)
Send(duration) == <<[duration |-> duration, power |-> 14]>>
Loud(power)    == <<[duration |-> 50000, power |-> power]>>

-----------------------------------------------------------------------------
(* A test: the two parameters of the scheduler, the nodes and interferers  *)
(* in the order of their registration, and the values it accepts for the   *)
(* measurements it looks at.                                               *)
Test(end, rejection, register, expect) ==
  [end |-> end, rejection |-> rejection, register |-> register, expect |-> expect]

AddsNode(node)      == [node |-> TRUE, what |-> node]
AddsInterferer(int) == [node |-> FALSE, what |-> int]

Sender   == AddsNode(SimpleNode(1, Send(50000), <<0>>))
Quiet(id) == AddsNode(SimpleNode(id, << >>, << >>))

SingleNodeTxIsCounted == Test(100000, 6, <<Sender>>, [tx |-> {1}])

TwoNodesDeliver == Test(200000, 6, <<Sender, Quiet(2)>>, [tx |-> {1}, rx |-> {1}])

RxReturningWake == Test(200000, 6, <<Sender, AddsNode(WakeOnReceive(2))>>, [rx |-> {1}])

InterfererRegistration ==
  Test(100000, 6, <<AddsInterferer(NoOpInterferer)>>, << >>)

SimulationStopsAtEndTime ==
  Test(1000000, 6, <<AddsNode(PeriodicNode(1, <<0>>))>>, [time |-> 0..1000000])

AddNodeWithoutWake ==
  Test(100000, 6, <<AddsNode(PeriodicNode(1, << >>))>>, [time |-> {0}, tx |-> {0}])

AddNodeAfterInterferer ==
  Test(200000, 6, <<AddsInterferer(NoOpInterferer), AddsNode(SimpleNode(1, << >>, <<0>>))>>,
       [tx |-> {0}])

OverlappingTxCollide ==
  Test(200000, 6, <<Sender, AddsNode(SimpleNode(2, Send(50000), <<10000>>))>>,
       [tx |-> {2}, collisions |-> {2}, rx |-> {0}])

ActiveInterfererInjects ==
  Test(300000, 6, <<AddsInterferer(ActiveInterferer(30000, 100000, 2, 0))>>,
       [airtime |-> {60000}, tx |-> {0}])

SingleTxAirtime ==
  Test(200000, 6, <<AddsNode(SimpleNode(1, Send(75000), <<0>>))>>, [airtime |-> {75000}])

ReceiveTriggersReply ==
  Test(200000, 6, <<Sender, AddsNode(ReplyNode(2, Send(30000)))>>,
       [tx |-> {2}, airtime |-> {80000}, rx |-> {2}])

BroadcastToThree ==
  Test(200000, 6, <<Sender, Quiet(2), Quiet(3), Quiet(4)>>,
       [tx |-> {1}, rx |-> {3}, rxOfEach |-> {<<0, 1, 1, 1>>}])

StrongAndWeak ==
  <<AddsNode(SimpleNode(1, Loud(20), <<0>>)), AddsNode(SimpleNode(2, Loud(14), <<10000>>)),
    Quiet(3)>>

CaptureEffect ==
  Test(200000, 6, StrongAndWeak,
       [tx |-> {2}, captures |-> {1}, collisions |-> {1}, rx |-> {2}])

InterfererCollides ==
  Test(200000, 6,
       <<Sender, Quiet(2), AddsInterferer(ActiveInterferer(50000, 0, 1, 10000))>>,
       [collisions |-> 1..99, rx |-> {0}])

WithChannelUsesCustomConfig ==
  {Test(200000, 6, StrongAndWeak, [rx |-> {2}]), Test(200000, 10, StrongAndWeak, [rx |-> {0}])}

(* The proptest, for a few of its inputs.                                  *)
NReceivers(n) ==
  Test(200000, 6, <<AddsNode(SimpleNode(0, Send(50000), <<0>>))>> \o [i \in 1..n |-> Quiet(i)],
       [tx |-> {1}, rx |-> {n}])

Tests ==
  {SingleNodeTxIsCounted, TwoNodesDeliver, RxReturningWake, InterfererRegistration,
   SimulationStopsAtEndTime, AddNodeWithoutWake, AddNodeAfterInterferer,
   OverlappingTxCollide, ActiveInterfererInjects, SingleTxAirtime,
   ReceiveTriggersReply, BroadcastToThree, CaptureEffect, InterfererCollides}
  \cup WithChannelUsesCustomConfig \cup {NReceivers(n) : n \in 2..6}

-----------------------------------------------------------------------------
(* A callback of the node at index k has left it as the given fixture and  *)
(* asked for the given wake; then the scheduler polls it.                  *)
FixturePolled(k, fixture, wake, time, queue) ==
  LET offer == Offer(fixture)
      id    == fixture.id
  IN  /\ fixtures' = [fixtures EXCEPT ![k] = Polled(fixture)]
      /\ Schedule(queue,
           Requests(wake, "Wake", id)
             \o [n \in DOMAIN offer |->
                   Request(time + offer[n].duration, "TxComplete", id)])
      /\ \A f \in DOMAIN frames' \ DOMAIN frames : frames'[f].power = offer[1].power
      /\ UNCHANGED jammers

NodeIsWoken(e) ==
  /\ PopWake(e)
  /\ LET k == FindNode(e.who)
     IN  FixturePolled(k, fixtures[k], Updated(fixtures[k], e.time), e.time,
                       events \ {e})

NodeHears(i) ==
  /\ Deliver(i)
  /\ FixturePolled(i, [fixtures[i] EXCEPT !.hasHeard = TRUE],
                   Answered(fixtures[i], now), now, events)

(* poll_inject, then next_poll_time.                                       *)
InterfererIsPolled(e) ==
  LET jammer == jammers[e.who]
      left   == jammer.remaining - 1
      done   == Request(e.time + jammer.duration, "TxComplete", SyntheticId(e.who))
      again  == Request(e.time + jammer.interval, "InterferencePoll", e.who)
  IN  /\ PopInterferencePoll(e)
      /\ Schedule(events \ {e},
           IF jammer.remaining = 0 THEN << >>
           ELSE IF left = 0 THEN <<done>> ELSE <<done, again>>)
      /\ \A f \in DOMAIN frames' \ DOMAIN frames : frames'[f].power = 14
      /\ jammers' = [jammers EXCEPT ![e.who].remaining = Max({0, left})]
      /\ UNCHANGED fixtures

-----------------------------------------------------------------------------
(* The tests that use a scheduler with these parameters.                   *)
TestInit ==
  /\ test \in {t \in Tests : t.end = EndTime /\ t.rejection = Rejection}
  /\ added = 0
  /\ fixtures = << >>
  /\ jammers = << >>
  /\ Init

NodeIsAdded(node) ==
  /\ AddNode(node.id)
  /\ Schedule(events, Requests(node.first, "Wake", node.id))
  /\ fixtures' = Append(fixtures, node)
  /\ UNCHANGED jammers

InterfererIsAdded(jammer) ==
  /\ AddInterferer(jammer.first)
  /\ jammers' = Append(jammers, jammer)
  /\ UNCHANGED fixtures

TestRegisters ==
  /\ added < Len(test.register)
  /\ added' = added + 1
  /\ LET next == test.register[added + 1]
     IN  \/ next.node /\ NodeIsAdded(next.what)
         \/ ~ next.node /\ InterfererIsAdded(next.what)

TestRuns ==
  /\ pc = "setup"
  /\ added = Len(test.register)
  /\ Run
  /\ UNCHANGED <<added, fixtures, jammers>>

(* The steps of the scheduler in which it calls nobody, or only observe.   *)
NobodyIsCalled ==
  /\ \/ \E e \in events : PopTxComplete(e)
     \/ Stop
     \/ Drain
     \/ \E id \in batch : SkipCollided(id) \/ StartDelivery(id)
     \/ \E i \in DOMAIN nodes : SkipSender(i)
     \/ EndDelivery
     \/ EndBatch
  /\ UNCHANGED <<fixtures, jammers>>

SchedulerRuns ==
  /\ \/ \E e \in events : NodeIsWoken(e) \/ InterfererIsPolled(e)
     \/ \E i \in DOMAIN nodes : NodeHears(i)
     \/ NobodyIsCalled
  /\ UNCHANGED added

TestNext ==
  /\ test.end = EndTime /\ test.rejection = Rejection
  /\ TestRegisters \/ TestRuns \/ SchedulerRuns
  /\ UNCHANGED test

(* What the tests look at.                                                 *)
Measured ==
  [tx         |-> MapThenSumSet(LAMBDA id : metrics.tx[id], NodeIds),
   rx         |-> MapThenSumSet(LAMBDA id : metrics.rx[id], NodeIds),
   rxOfEach   |-> [i \in DOMAIN nodes |-> metrics.rx[nodes[i]]],
   collisions |-> metrics.collisions,
   captures   |-> metrics.captures,
   airtime    |-> metrics.airtime,
   time       |-> now]

(***************************************************************************)
(* run() has returned, and the values the test looks at are those that it  *)
(* asserts.                                                                *)
(***************************************************************************)
Passes ==
  pc = "stopped" /\ \A name \in DOMAIN test.expect :
    Measured[name] \in test.expect[name]
=============================================================================
