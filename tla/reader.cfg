SPECIFICATION FairReader
CONSTANTS
  t1 = t1
  t2 = t2
  Threads = {t1, t2}
  Clients <- AllClients
INVARIANTS ReaderTypeOK NothingTwice InOrder
PROPERTIES ReaderIsStream AllDelivered
CHECK_DEADLOCK FALSE
