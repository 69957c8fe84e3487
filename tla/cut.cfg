SPECIFICATION PartialSpec
CONSTANTS
  t1 = t1
  t2 = t2
  Threads = {t1}
  Clients <- CutClients
INVARIANTS StaysUp
CHECK_DEADLOCK FALSE
