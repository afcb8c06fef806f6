CONSTANTS
  p1 = p1
  p2 = p2
  g1 = g1
  g2 = g2
  NoRow = NoRow
  NoOp = NoOp
  NoSession = NoSession
  NoGame = NoGame
  NoIntervals = NoIntervals
  Gone = Gone
  Procs <- TwoProcs
  Games <- TwoGames
  Keys <- TwoKeys
  HandsOver <- TwoProcs
  FlushEvery = 2
  TitleGrace = 1
  MaxQueue = 1
  MaxRecords = 2
  Conditions <- Disturbed
SPECIFICATION Spec
CHECK_DEADLOCK FALSE
INVARIANTS NoPlayInvented OneSessionPerKey
PROPERTY ReplayedBeforeDropped
