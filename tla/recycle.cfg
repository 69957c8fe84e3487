SPECIFICATION FairSpec
CONSTANTS
  MaxThread = 2
  Sockets = {s1}
  MAX_EVENTS = 2
  MaxAccepts = 1
  MaxMessages = 2
  resize_while_loop = 0
  MixedReads = FALSE
PROPERTIES JoinEnds
CHECK_DEADLOCK FALSE
