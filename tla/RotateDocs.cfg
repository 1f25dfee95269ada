SPECIFICATION RotateSpec
CONSTANTS
  Cols = 8
  Panels = 8
  Layers = 1
  Channel = {"RED"}
  MaxLevel = 1
  ByteMod = 4
  RawLevels = {}
  Indices = {}
  Steps = {}
  Amounts = {}
  Diameters = {}
  Grids <- MCGrids
  Turns <- MCTurns
  Turn <- MCTurn
  Degrees <- Docs
  Loops <- NoLoops
  LoopAngles <- MCLoopAngles
  Pictures <- MCPictures
  Astray <- MCAstray
  MaxTurned = 2
INVARIANT LookupInTable
