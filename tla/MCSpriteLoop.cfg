SPECIFICATION LoopSpec
CONSTANTS
  Side = 4
  MaxSide = 3
  Sizes <- MCSizes
  Paints = {}
  Descriptions = {}
  Intensities = {4}
  Places <- MCPlaces
  Motions <- MCMotions
  Away = 1
PROPERTIES
  RollsRound
CHECK_DEADLOCK FALSE
