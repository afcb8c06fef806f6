CONSTANTS
  ga = ga
  gb = gb
  gc = gc
  wine = wine
  flatpak = flatpak
  Pids = {pid1, pid2}
  Rows <- ThreeRows
  WinePrefixes = {wine}
  Sandboxes = {flatpak}
  NoGame = NoGame
  NoScope = NoScope
  ScopeOf <- Scoped
  ProcessKinds <- AllKinds
  Bounds <- ToStop
SPECIFICATION StopperSpec
INVARIANT GuardedAreSpared
CHECK_DEADLOCK FALSE
