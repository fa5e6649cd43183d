SPECIFICATION SuiteSpec
PROPERTIES
  ChannelTestsPass
  SchedulerTestsPass
CHECK_DEADLOCK FALSE
