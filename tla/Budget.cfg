SPECIFICATION Spec
CONSTANTS
  NoReading = NoReading
  Unknown = NoReading
  NoRow = NoRow
  MaxRuns = 2
  Readings <- MCReadings
  Amounts <- MCAmounts
  MaximumTokens = 5
  ReserveTokens = 1
  MinimumSpendable = 1
  WindowLength = 6
  MaxRunTime = 2
  ResetSafety = 2
  SnapshotMaxAge = 1
  SnapshotMaxSkew = 1
  CompletionGrace = 3
  AdmissionDelay = 2
  CleanupDelay = 1
  MaxClockSteps = 1
  MaxTime = 9
INVARIANTS
  TypeOK
  WindowCovered
  WorkEndsBeforeReset
  LiveRunsProtected
PROPERTIES
  ImplementsEnvelope
CHECK_DEADLOCK FALSE
