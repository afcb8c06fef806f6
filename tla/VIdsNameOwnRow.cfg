CONSTANTS
  p1 = p1
  p2 = p2
  g1 = g1
  g2 = g2
  NoRow = NoRow
  NoOp = NoOp
  NoSession = NoSession
  NoGame = NoGame
  NoIntervals = NoIntervals
  Gone = Gone
  Procs <- OneProc
  Games <- OneGame
  Keys <- TwoKeys
  HandsOver = {}
  FlushEvery = 2
  TitleGrace = 1
  MaxQueue = 2
  MaxRecords = 2
  Conditions <- Deletions
SPECIFICATION Spec
CHECK_DEADLOCK FALSE
INVARIANT IdsNameOwnRow
