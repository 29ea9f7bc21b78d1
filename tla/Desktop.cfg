SPECIFICATION LiveSpec
CONSTANTS
  c1 = c1  c2 = c2
  Controller = {c1}
  NJobs = 1
  OwnerOf <- MCOwnerOf
  Installs = {1}
  Asking = {1}
  Request <- MCRequest
  Cancellable = {1}
  MaxParallel = 1
  MaxRedos = 1
  MaxLead = 3
  ErrorLimit = 2
  MaxFaults = 1
  MaxRestarts = 1
  NoController = NoController  NoJob = NoJob
CHECK_DEADLOCK FALSE
INVARIANTS
  DispatchedOnce
  EndedIsStopped
  PassedWasReviewed
PROPERTIES
  EveryJobEnds
  GrantIsContained
