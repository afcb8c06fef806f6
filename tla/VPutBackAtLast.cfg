CONSTANTS
  Windows = {w1, w2}
  NoWindow = NoWindow
  MaxLaunches = 1
  MaxEvents = 1
SPECIFICATION HoldSpec
INVARIANT PutBackAtLast
CHECK_DEADLOCK FALSE
