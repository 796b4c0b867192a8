SPECIFICATION MCSpec
CONSTANTS
  r1 = r1
  r2 = r2
  i1 = i1
  i2 = i2
  p1 = p1
  p2 = p2
  Runs <- MCRuns
  Issues <- MCIssues
  Publications <- MCPublications
  None = None
  Altered = Altered
  MaxOpenPrs = 1
  MaxActs = 1
INVARIANTS
  PublishedStays
  AtMostOneLateWrite
  OpenWithinCap
PROPERTIES
  
  PublishEnds
CHECK_DEADLOCK FALSE
