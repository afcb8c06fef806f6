CONSTANTS
  p1 = p1
  p2 = p2
  a = a
  b = b
  old = old
  new = new
  Absent = Absent
  Nobody = Nobody
  NoJournal = NoJournal
  Nothing = Nothing
  Procs <- OneProc
  Paths <- TwoPaths
  Contents <- TwoContents
  Ids <- FewIds
  Retention = 2
  MaxOps = 3
  MaxWrites = 2
  MaxStarts = 1
  MaxFaults = 1
  MaxCrashes = 1
  ClockStepsBack = FALSE
  MaxClock = 0
SPECIFICATION Spec
SYMMETRY SomeSymmetry
CHECK_DEADLOCK FALSE
PROPERTIES AllOrNothing StoreWritesJournaled UndoKept HonestReport LaunchPaused ImplementsAtomicSaves
