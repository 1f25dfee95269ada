SPECIFICATION SpriteSpec
CONSTANTS
  Side = 3
  MaxSide = 2
  Sizes <- MCSizes
  Paints = {"Red"}
  Descriptions <- MCDescriptions
  Intensities = {4}
  Places <- MCPlaces
  Motions <- MCMotions
  Away = 1
INVARIANTS
  SpriteTypeOK
  RotateIsQuarter
  NoTrail
PROPERTIES
  BounceStaysInside
  RollStaysInside
  NoJunkShown
