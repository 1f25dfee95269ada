SPECIFICATION TclSpec
CONSTANTS
  Cols = 3
  Panels = 3
  Layers = 3
  Channel = {"RED"}
  MaxLevel = 1
  ByteMod = 4
  RawLevels = {}
  Indices = {}
  Steps = {}
  Amounts = {}
  Diameters = {}
  Grids <- MCGrids
  Turns = {}
  Turn <- MCTurn
  Side = 3
  Sizes <- MCSizes
  Pictures <- MCPictures
  StartPlaces <- MCPlaces
  StartMotions <- MCMotions
  Rolls <- MCRolls
  Rotations <- MCRotations
INVARIANT ShownAtPlace
