SPECIFICATION Spec
CONSTANTS
  MaxThread = 3
  Sockets = {s1}
  MAX_EVENTS = 2
  MaxAccepts = 1
  MaxMessages = 3
  resize_while_loop = 0
  MixedReads = FALSE
INVARIANTS TypeOK RecvExclusive JoinSafe WaitingIsLive PendingServed OneReader
PROPERTIES StepsDownWithWork
CHECK_DEADLOCK FALSE
