SPECIFICATION PartialSpec
CONSTANTS
  t1 = t1
  t2 = t2
  Threads = {t1}
  Clients <- PipelinedClients
INVARIANTS WholeMessages
CHECK_DEADLOCK FALSE
