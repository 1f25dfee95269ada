SPECIFICATION RefreshSpec
CONSTANTS
  Cols = 2
  Panels = 2
  Layers = 2
  Channel = {"RED", "BLUE"}
  Bits = 2
  MaxStores = 2
INVARIANTS
  RefreshTypeOK
  StillIsExact
PROPERTIES
  ImplementsDisplay
