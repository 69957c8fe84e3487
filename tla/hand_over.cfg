SPECIFICATION FairSpec
CONSTANTS
  MaxThread = 2
  Sockets = {s1}
  MAX_EVENTS = 2
  MaxAccepts = 1
  MaxMessages = 2
  resize_while_loop = 1
  MixedReads = FALSE
PROPERTIES HandOverAcknowledged
CHECK_DEADLOCK FALSE
