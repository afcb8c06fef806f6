CONSTANTS
  Keys = {k1, k2, k3}
  MaxLive = 2
  MaxRecord = 2
  MaxFile = 2
  Sizes = {1, 3}
  MaxOps = 4
  MaxFaults = 2
  FsyncCommitsRename = TRUE
  ga = ga
  gb = gb
  Games = {ga, gb}
  PlayedGame = ga
  MaxPlays = 1
  MaxRestores = 2
  MaxBreaks = 2
  Windows = {w1, w2}
  NoWindow = NoWindow
  MaxLaunches = 2
  MaxEvents = 1
  gc = gc
  wine = wine
  flatpak = flatpak
  Pids = {pid1, pid2}
  Rows <- ThreeRows
  WinePrefixes = {wine}
  Sandboxes = {flatpak}
  NoGame = NoGame
  NoScope = NoScope
  ScopeOf <- Scoped
  ProcessKinds <- AllKinds
  Bounds <- ToStop
SPECIFICATION MachineSpec
INVARIANTS AcceptedSurvives CopyIsOfBefore ReplacedStaysOut LetsGo
  OnlyThePlanned DoneIsGone
PROPERTIES OpensWhole MergeKeepsPlay ForItsGame LeavesNoneBehind
CHECK_DEADLOCK FALSE
