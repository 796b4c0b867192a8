SPECIFICATION Spec
CONSTANTS
  r1 = r1
  r2 = r2
  leftovers = leftovers
  upstream = upstream
  Runs <- MCRuns
  Repositories <- MCRepositories
  NoRepository = NoRepository
  NoSlot = NoSlot
  MaxPrsPerWindow = 1
  Cooldown = 1
  WindowLength = 3
  MaxClockSteps = 1
  MaxTime = 4
INVARIANTS
  OpenedWithinCap
  OpenedApart
  PublishedIsOpen
PROPERTIES
  ImplementsCalendar
CHECK_DEADLOCK FALSE
