SPECIFICATION GoalLiveSpec
CONSTANTS
  loop = loop  caller = caller  c1 = c1  c2 = c2  p1 = p1  p2 = p2
  Ticker = {loop, caller}
  Loop = loop
  MaxCalls = 2
  Adapter = "grok_cli"
  Output <- MCOutput
  Wanted <- MCWanted
  MaxPlanTasks = 2
  MaxStops = 1
  NoTicker = NoTicker  Nothing = Nothing
  CharterTask = 1
  Coord = {c1, c2}
  NoCoord = NoCoord
  Proposal = {p1, p2}
  Plan <- MCPlan
  Autonomy <- MCAutonomy
  Grant <- MCGrant
  GivenContract <- MCContract
  MaxVersion = 2
  MaxRevision = 3
  k1 = k1  long = long  short = short
  Key = {k1}
  NoKey = NoKey
  Content = {long, short}
  NoFile = NoFile
  Original = short
  Size <- MCSize
  Kind = {"manifest", "snapshot"}
  LeadTries = 2
  MaxOpens = 2
  MaxSurprises = 2
CHECK_DEADLOCK FALSE
INVARIANTS
  PlannedOnce
  RunsOnWhatWasOpened
PROPERTIES
  LeadIsStopped
  PlanningEnds
  CommitIsCurrent
  HumanIsTold
