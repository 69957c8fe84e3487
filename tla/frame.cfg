SPECIFICATION ArrivalSpec
CONSTANTS
  Sizes = {0, 1, 2, 125, 126, 127, 128, 255, 256, 257, 65535, 65536, 65537, 16777215, 16777216, 2130706432}
  MaxBehind = 2
INVARIANTS WholeFrameDecoded NoEarlyFrame
CHECK_DEADLOCK FALSE
