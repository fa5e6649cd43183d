------------------------------- MODULE MCTests ------------------------------
(* The unit tests of the channel, and those of the scheduler with each end *)
(* time and capture threshold that one of them uses.  pc tells the suites  *)
(* apart: the scheduler is nowhere while the channel is tested.            *)
EXTENDS ChannelTests

VARIABLES
  events, seq, nodes, joined, heard, tuned, metrics, pc, batch, delivering, cursor,
  handled, added, fixtures, jammers

schedulerVars == <<events, seq, nodes, joined, heard, tuned, metrics, pc, batch,
                   delivering, cursor, handled, added, fixtures, jammers>>
suiteVars == <<testVars, schedulerVars>>

Settings == {<<100000, 6>>, <<200000, 6>>, <<200000, 10>>, <<300000, 6>>, <<1000000, 6>>}

T(setting) == INSTANCE SchedulerTests WITH
  EndTime <- setting[1], Rejection <- setting[2],
  Bands <- {"868.1 MHz SF7"}, Powers <- {14, 20}, Durations <- {30000, 50000, 75000},
  Delays <- {0, 10000, 100000}, LastId <- 99, NodeIds <- 0..6,
  MaxNodes <- 9, MaxInterferers <- 9, MaxFrames <- 99, MaxWakes <- 99

ChannelSuite == pc = "nowhere"

NoScheduler ==
  /\ pc = "nowhere"
  /\ seq = 0 /\ delivering = 0 /\ cursor = 0 /\ added = 0
  /\ events = {} /\ batch = {}
  /\ nodes = << >> /\ joined = << >> /\ heard = << >> /\ tuned = << >>
  /\ metrics = << >> /\ handled = << >> /\ fixtures = << >> /\ jammers = << >>

SuiteInit ==
  \/ Init /\ NoScheduler
  \/ /\ \E setting \in Settings : T(setting)!TestInit
     /\ next = 0 /\ resolved = << >> /\ drained = << >>

SuiteNext ==
  \/ ChannelSuite /\ Next /\ UNCHANGED schedulerVars
  \/ /\ ~ ChannelSuite
     /\ \E setting \in Settings : T(setting)!TestNext
     /\ UNCHANGED <<next, resolved, drained>>

(* Each test makes its calls, and run() does not pause.                    *)
SuiteSpec == SuiteInit /\ [][SuiteNext]_suiteVars /\ WF_suiteVars(SuiteNext)

(***************************************************************************)
(* Each unit test of src/channel.rs runs to its end and passes.            *)
(***************************************************************************)
ChannelTestsPass == <>(~ ChannelSuite \/ Passes)

(***************************************************************************)
(* Each unit test of src/scheduler.rs runs to its end and passes.          *)
(***************************************************************************)
SchedulerTestsPass == <>(ChannelSuite \/ T(<<100000, 6>>)!Passes)

(***************************************************************************)
(* known_sequence, a test of src/prng.rs: the first three numbers for the  *)
(* seed 1, which new makes of 0, are 1082269761, 1152992998833853505 and   *)
(* 11177516664432764457.                                                   *)
(***************************************************************************)
Real == INSTANCE Prng WITH
  Width <- 64, A <- 13, B <- 7, C <- 17, SeedPairs <- {}, MaxDraws <- 0,
  seeds <- {}, generators <- {}, drawn <- 0

ASSUME KnownSequence ==
  LET first  == Real!NextU64(Real!New({}))
      second == Real!NextU64(first)
  IN  /\ first = {0, 6, 13, 17, 23, 30}
      /\ second = {0, 6, 10, 12, 16, 26, 27, 33, 34, 40, 46, 60}
      /\ Real!NextU64(second) =
           {0, 3, 5, 9, 10, 13, 17, 18, 23, 25, 26, 27, 29, 30, 32, 33, 34, 35,
            37, 42, 47, 49, 50, 51, 52, 56, 57, 59, 60, 63}

(***************************************************************************)
(* derive_seed_is_deterministic, a test of lorawan_adapter.rs: the seeds   *)
(* for the masters 0xDEADBEEF and 0 and the identifiers 1 and 0.           *)
(***************************************************************************)
ASSUME PinnedSeeds ==
  /\ Real!DeriveSeed(Real!Hex(<<13, 14, 10, 13, 11, 14, 14, 15>>), {0}) =
       Real!Hex(<<9, 14, 3, 7, 7, 9, 11, 9, 10, 1, 14, 7, 12, 2, 15, 10>>)
  /\ Real!DeriveSeed({}, {}) = {}
=============================================================================
