SPECIFICATION Spec
CONSTANTS
  g1 = g1  t1 = t1  t2 = t2  beyond = beyond
  Goal = {g1}
  Task = {t1, t2}
  Run = {r1, r2}
  Claim = {k1}
  Decision = {d1}
  Submitter = sub
  Actor = {sub}
  Coordinator = {}
  Scope = {}
  Authority <- MCAuthority
  GoalOf <- MCGoalOf
  DependsOn <- MCDependsOn
  NoGoal = NoGoal  NoTask = NoTask  NoRun = NoRun  NoClaim = NoClaim
  NoDecision = NoDecision  NoActor = NoActor
  MaxRetries = 1
  MaxVersion = 0
CHECK_DEADLOCK FALSE
SYMMETRY Symmetry
CONSTRAINT OneUpperKind
INVARIANTS
  CancelledIsQuiet
  FailureIsSettled
PROPERTIES
  CompletionIsEarned
