CONSTANTS
  p1 = p1
  p2 = p2
  a = a
  b = b
  old = old
  new = new
  Absent = Absent
  Nobody = Nobody
  NoJournal = NoJournal
  Nothing = Nothing
  Procs <- OneProc
  Paths <- TwoPaths
  Contents <- TwoContents
  Ids <- FewIds
  Retention = 2
  MaxOps = 2
  MaxWrites = 1
  MaxStarts = 1
  MaxFaults = 1
  MaxCrashes = 1
  ClockStepsBack = FALSE
  MaxClock = 0
  Windows = {w1, w2}
  NoWindow = NoWindow
  MaxLaunches = 1
  MaxEvents = 1
  g1 = g1
  g2 = g2
  m1 = m1
  m2 = m2
  r1 = r1
  r2 = r2
  c1 = c1
  c2 = c2
  NoGame = NoGame
  NoMonitor = NoMonitor
  NoRecorder = NoRecorder
  NoSocket = NoSocket
  Games <- OneGame
  Monitors <- OneMonitor
  Recorders <- TwoRecorders
  Clips <- TwoClips
  MaxFailures = 2
  MayNotStart = TRUE
  MaxChanges = 1
CHECK_DEADLOCK FALSE
SPECIFICATION LiveSpec
INVARIANTS OneUser RecorderGivenUp
PROPERTIES RecoveryEnds RequestsServed HoldEnds EveryClipEnds RecordersEnd
