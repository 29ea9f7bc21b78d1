SPECIFICATION LiveSpec
CONSTANTS
  producer = producer  consumer = consumer  solo = solo  d1 = d1  d2 = d2
  Job = {producer, consumer, solo}
  Slots <- MCSlots
  DependsOn <- MCDependsOn
  Dir = {d1, d2}
  DirOf <- MCDirOf
  Root = d1
  NeedReview = {solo}
  NoJob = NoJob  Goal = Goal
  Limits <- MCLimits
  MaxReworks = 1  MaxParallel = 2  MaxTicks = 3
  Mode = "block"
  MaxWall = 2  MaxFaults = 1
INVARIANTS
  AccountAddsUp
  WithinLimits
  ConsumerFollowsProducer
PROPERTIES
  EverythingEnds
CHECK_DEADLOCK FALSE
