SPECIFICATION Spec
CONSTANTS
  Configurations <- MCConfigurations
  MaxRepairs = 2
  MaxDisturbances = 1
  HandlerAudit = FALSE
INVARIANTS
  ResidueReported
  TelemetryNeverFlatters
  PublishedWasVerified
  RemoteWriteReported
PROPERTIES
  Terminates
  ImplementsGatedWrite
CHECK_DEADLOCK FALSE
