SPECIFICATION ShellSpec
CONSTANTS
  Cols = 1
  Panels = 2
  Layers = 2
  Channel = {"RED"}
  MaxLevel = 1
  ByteMod = 4
  RawLevels = {4}
  Indices = {0, 1}
  Steps <- MCSteps
  Amounts = {1, 32}
  Diameters = {3}
  Grids <- MCGrids
  Turns = {"half"}
  Turn <- MCTurn
  MaxSignals = 1
PROPERTY InterruptStopsAnimation
CHECK_DEADLOCK FALSE
