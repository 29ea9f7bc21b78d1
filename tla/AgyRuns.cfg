SPECIFICATION LiveSpec
CONSTANTS
  Service = {s1, s2}
  Run = {r1, r2}
  Accounts = 2
  Class = {"ok", "quota"}
  NoRun = NoRun  NoService = NoService
  LeaseSec = 1  TimeoutSec = 1  CoolSec = 1
  MaxClock = 2  MaxFaults = 1
CHECK_DEADLOCK FALSE
INVARIANTS
  LiveRunHasItsLease
PROPERTIES
  CooldownHolds
  OrphanIsStopped
