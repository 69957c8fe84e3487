SPECIFICATION Spec
CONSTANTS
  MaxThread = 2
  Sockets = {s1, s2}
  MAX_EVENTS = 2
  MaxAccepts = 2
  MaxMessages = 2
  resize_while_loop = 1
  MixedReads = TRUE
SYMMETRY Symmetry
INVARIANTS IndexInArray HandOverToLiveThread PoolAlive
PROPERTIES PoolIsThreadPool StartsInEmptySlot
CHECK_DEADLOCK FALSE
