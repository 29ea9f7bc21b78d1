SPECIFICATION Spec
CONSTANTS
  p1 = p1
  NJobs = 2
  Perm = {p1}
  JobOf <- MCJobOf
  Contents <- MCContents
  Reviewed = {2}
  Cancellable = {2}
  MaxParallel = 1
  MaxFaults = 1
  MaxCrashes = 1
  NoPerm = NoPerm  NoJob = NoJob
CHECK_DEADLOCK FALSE
INVARIANTS
  PromptedOnce
  StoppedBeforeReleased
  
PROPERTIES
  EveryJobEnds
