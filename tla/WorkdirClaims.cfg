SPECIFICATION Spec
CONSTANTS
  p1 = p1
  p2 = p2
  t1 = t1
  t2 = t2
  t3 = t3
  t4 = t4
  h1 = h1
  h2 = h2
  h3 = h3
  Process = {p1, p2}
  Thread = {t1, t2, t3, t4}
  d1 = d1
  Workdir = {d1}
  Holder = {h1, h2, h3}
  Gated = {t3}
  NoThread = NoThread
  NoHolder = NoHolder
  NoDir = NoDir
  MaxCrashes = 1
  ProcOf <- MCProcOf
  HolderOf <- MCHolderOf
INVARIANTS
  RecordIsOwners
PROPERTIES
  LeaseSpec
