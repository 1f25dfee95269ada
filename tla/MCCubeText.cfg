SPECIFICATION TextSpec
CONSTANTS
  Cols = 8
  Panels = 8
  Layers = 8
  Channel = {"RED"}
  MaxLevel = 1
  ByteMod = 4
  RawLevels = {}
  Indices = {}
  Steps = {}
  Amounts = {}
  Diameters = {}
  Grids <- MCGrids
  Turns = {}
  Turn <- MCTurn
  Chars = {"ell", "hook", "beyond"}
  Glyph <- MCGlyph
  Strays <- MCStrays
  Texts <- MCTexts
  Pens <- MCPens
  Pictures <- MCPictures
INVARIANTS
  WallsShowText
  PlanesShowText
PROPERTY TextEndsDark
