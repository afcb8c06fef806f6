CONSTANTS
  g1 = g1
  g2 = g2
  m1 = m1
  m2 = m2
  r1 = r1
  r2 = r2
  c1 = c1
  c2 = c2
  NoGame = NoGame
  NoMonitor = NoMonitor
  NoRecorder = NoRecorder
  NoSocket = NoSocket
  Games <- TwoGames
  Monitors <- TwoMonitors
  Recorders <- TwoRecorders
  Clips <- TwoClips
  MaxFailures = 2
  MayNotStart = FALSE
  MaxChanges = 1
SPECIFICATION HighlightsSpec
CHECK_DEADLOCK FALSE
SYMMETRY Alike
INVARIANTS OneRecorder FootageOfItsGame QueueServed
