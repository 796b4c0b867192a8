SPECIFICATION Spec
CONSTANTS
  Configurations <- MCPublishing
  MaxRepairs = 0
  MaxDisturbances = 0
  HandlerAudit = TRUE
INVARIANTS
  RemoteWriteReported
CHECK_DEADLOCK FALSE
