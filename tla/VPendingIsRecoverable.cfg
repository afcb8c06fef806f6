CONSTANTS
  p1 = p1
  p2 = p2
  a = a
  b = b
  old = old
  new = new
  Absent = Absent
  Nobody = Nobody
  NoJournal = NoJournal
  Nothing = Nothing
  Procs <- OneProc
  Paths <- TwoPaths
  Contents <- TwoContents
  Ids <- FewIds
  Retention = 2
  MaxOps = 4
  MaxWrites = 3
  MaxStarts = 0
  MaxFaults = 1
  MaxCrashes = 1
  ClockStepsBack = TRUE
  MaxClock = 1
CHECK_DEADLOCK FALSE
SPECIFICATION Spec
SYMMETRY SomeSymmetry
INVARIANTS PendingIsRecoverable
