SPECIFICATION Spec
CONSTANTS
  Layers = 2
  Bits = 1
  PassTime = 3
  Boot = 2
  Interval = 4
  Grace = 4
  ClockStep = 12
  MaxClockSteps = 1
  MaxSignals = 1
  ThreadsMayFail = TRUE
INVARIANTS
  TypeOK
  OneOfEach
  OneLayerLit
  StoppedIsDark
  DeadIsDark
  NoAlarm
  NoLongGlow
PROPERTIES
  AlarmMeansQuiet
  StopReturns
CHECK_DEADLOCK FALSE
