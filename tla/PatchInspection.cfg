SPECIFICATION InspectionSpec
CONSTANTS
  Paths <- MCPaths
  Base <- MCBase
  Candidates <- MCCandidates
  Lines <- MCLines
  Bytes <- MCBytes
  ForbiddenPaths = {"lock"}
  PolicyMaxFiles = 2
  PolicyMaxLines = 3
  RepositoryMaxFiles = 0
  RepositoryMaxLines = 4
  MaxPatchBytes = 4
  DefaultPatchBytes = 3
  MaxInspectedPaths = 2
  MaxRepairs = 1
  MaxDisturbances = 2
INVARIANTS
  
  GoodWorkPasses
CHECK_DEADLOCK FALSE
