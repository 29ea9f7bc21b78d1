SPECIFICATION Spec
CONSTANTS
  g1 = g1  t1 = t1  t2 = t2  beyond = beyond
  Goal = {g1}
  Task = {t1}
  Run = {r1}
  Claim = {k1}
  Decision = {d1, d2}
  Submitter = sub
  Actor = {sub, c1}
  Coordinator = {c1}
  Scope = {s1, beyond}
  Authority <- MCAuthority
  GoalOf <- MCGoalOf
  DependsOn <- MCDependsOn
  NoGoal = NoGoal  NoTask = NoTask  NoRun = NoRun  NoClaim = NoClaim
  NoDecision = NoDecision  NoActor = NoActor
  MaxRetries = 0
  MaxVersion = 2
CHECK_DEADLOCK FALSE
SYMMETRY Symmetry
CONSTRAINT OneUpperKind
INVARIANTS
  GrantsStayInAuthority
  SlotFreedOnlyByCheckpoint
PROPERTIES
  UnblockedByItsDecision
