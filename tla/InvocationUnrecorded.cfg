SPECIFICATION Spec
CONSTANTS
  Configurations <- MCConfigurations
  Timeout = 3
  CheckinTimeout = 1
  HeartbeatTimeout = 3
  HeartbeatEvery = 2
  FutureLimit = 1
  MaxEvents = 3
  PollDelay = 1
  ClockSteps <- MCClockSteps
  MaxTime = 5
  NoTime = NoTime
  StoreFails = FALSE
INVARIANTS
  InvocationRecorded
CHECK_DEADLOCK FALSE
