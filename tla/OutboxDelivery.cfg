SPECIFICATION LiveSpec
CONSTANTS
  p1 = p1  p2 = p2  t1 = t1  t2 = t2  t3 = t3
  Process = {p1, p2}
  Thread = {t1, t2, t3}
  ProcOf <- MCProcOf
  NoThread = NoThread  NoProcess = NoProcess
  Writers = {t1}  Pumps = {t2, t3}  Readers = {t1}

  Entity = {e1}
  State = {"queued", "running"}
  NoState = NoState  NoTxn = NoTxn
  MaxRows = 2  MaxFaults = 1
PROPERTIES
  EveryRowIsSent
  DeliverySpec
