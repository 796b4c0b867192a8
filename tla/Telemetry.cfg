SPECIFICATION Spec
CONSTANTS
  Runs = {r1, r2}
  Attempts = {1}
  RequestKeys = {"k1", "k2"}
  Stages = {"implementing"}
  TerminalRunStages = {"failed"}
  Cleanups = {"proven"}
  Sources = {"controller"}
  Targets = {"t1"}
  Windows = {"w1", "w2"}
  Usages <- MCUsages
  None = None
  EmitAfter = 2
  EventLimit = 4
  MaxTime = 3
  MaxEvents = 5
SYMMETRY MCSymmetry
INVARIANTS
  RowsMatchEvents
  UsageToldTruly
  SummaryHoldsTogether
  RunPageHoldsTogether
PROPERTIES
  ImplementsHistory
CHECK_DEADLOCK FALSE
