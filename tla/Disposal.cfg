SPECIFICATION Spec
CONSTANTS
  Runs = {r1}
  Horizon = 3
  MaxWork = 2
  CommandTimeout = 1
  ContainerLease = 2
  ReapAges = {1, 3}
  MaxReapAge = 3
  CleanupTime = 1
INVARIANTS
  LiveWorkKept
PROPERTIES
  MountsOutlived
  MarkedIsReaped
