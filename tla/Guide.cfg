CONSTANTS
  Devices = {"pad", "virtual"}
  Pad = "pad"
  Guide = "guide"
  Buttons = {"share"}
  Hats = {}
  Triggers = {"lt"}
  CaptureButtons = {"share"}
  HoldMs = 1
  HoldTimerMs = 1
  MaxHoldMs = 2
  ArmDelayMs = 1
  SameReleaseMs = 3
  Lag = 0
  Late = 1
  QueueMax <- Queues
  MaxTime = 4
  MaxDowns = 2
  LastProc = 2
  Guards = {"g1"}
  Rounds = 4
  MaxStops = 1
  NoGuard = "no guard"
SPECIFICATION GuideSpec
INVARIANTS
  PressesAreShortAndAlone ToldOnce ShortPressCounts
  PausedIsFrozen PlayersStopStays
PROPERTY ResumedAtLast
CHECK_DEADLOCK FALSE
