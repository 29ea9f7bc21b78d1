SPECIFICATION CoordSpec
CONSTANTS
  r1 = r1  r2 = r2  r3 = r3  r4 = r4
  g1 = g1  g2 = g2  g3 = g3  t1 = t1  t2 = t2  t3 = t3  t4 = t4
  Goal = {g1}
  Task = {t1, t2}
  Run = {r1, r2, r3}
  Claim = {k1, k2}
  Decision = {d1}
  Submitter = sub
  Actor = {sub}
  Coordinator = {}
  Scope = {}
  Authority <- NoScope
  GoalOf <- OneGoal
  DependsOn <- NoDependency
  NoGoal = NoGoal  NoTask = NoTask  NoRun = NoRun  NoClaim = NoClaim
  NoDecision = NoDecision  NoActor = NoActor
  MaxRetries = 1
  MaxVersion = 0
  Dir <- Shared
  PerGoal = 2
  Global = 2
  MaxReworks = 1
  MaxCrashes = 1
  May = {"cancel", "retry", "cancelFails", "needHuman", "noProgress", "wall", "ask", "reaped"}
SYMMETRY Alike
INVARIANTS
  EveryRunIsCounted
  ParkedIsAnswerable
  SettledIsClosed
PROPERTIES
  Spec
