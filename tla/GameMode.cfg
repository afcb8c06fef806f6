CONSTANTS
  screen = screen
  tv = tv
  desktop = desktop
  hdmi = hdmi
  headset = headset
  g1 = g1
  g2 = g2
  NoSink = NoSink
  NoRecord = NoRecord
  Outputs <- TwoOutputs
  Home = screen
  Sinks <- ThreeSinks
  Games <- TwoGames
  Kinds <- OnTv
  Budgets <- Failures
SPECIFICATION GameModeSpec
INVARIANTS EffectsOnRecord ParkedIsQuiet
PROPERTIES NotStranded CleanEndEnds ImplementsOperations
SYMMETRY GameModeSymmetry
