SPECIFICATION WssSpec
CONSTANTS
  MaxThread = 2
  Sockets = {s1}
  MAX_EVENTS = 2
  MaxAccepts = 1
  MaxMessages = 2
  MaxTraffic = 3
  resize_while_loop = 1
  MixedReads = FALSE
INVARIANTS SslInUseIsLive
CHECK_DEADLOCK FALSE
