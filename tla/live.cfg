SPECIFICATION ServerSpec
CONSTANTS
  MaxThread = 2
  Sockets = {s1}
  MAX_EVENTS = 2
  MaxAccepts = 1
  MaxMessages = 3
  resize_while_loop = 1
  MixedReads = FALSE
PROPERTIES RoleReacquired LocksReleased PendingTaken
CHECK_DEADLOCK FALSE
