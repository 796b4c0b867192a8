SPECIFICATION Spec
CONSTANTS
  Cycles = {c1, c2}
  Self = c1
  None = None
  MaxFaults = 2
INVARIANTS
  JournalTellsTruth
  SuccessIsEarned
  LockMeansLife
CHECK_DEADLOCK FALSE
