SPECIFICATION FairWss
CONSTANTS
  MaxThread = 2
  Sockets = {s1}
  MAX_EVENTS = 2
  MaxAccepts = 3
  MaxMessages = 2
  MaxTraffic = 4
  resize_while_loop = 1
  MixedReads = FALSE
INVARIANTS WssTypeOK RegisteredHasSsl SslMapLive SslRecvExclusive SslPendingServed
PROPERTIES PoolIsThreadPool SslMxReleased
CHECK_DEADLOCK FALSE
