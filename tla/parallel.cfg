SPECIFICATION ServerSpec
CONSTANTS
  MaxThread = 2
  Sockets = {s1}
  MAX_EVENTS = 2
  MaxAccepts = 1
  MaxMessages = 2
  resize_while_loop = 0
  MixedReads = FALSE
PROPERTIES ScanEnds
CHECK_DEADLOCK FALSE
