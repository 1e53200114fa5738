CONSTANTS
  DIMMER_MAX = 3
  DIMMER_HIGH = 5
  ByteSize = 8
  HalfWave = 8
SPECIFICATION FairSwitch
INVARIANTS
  SwitchTypeOK
  StatusTold
  FiresInTime
PROPERTIES
  LimitKept
  LimitSurvives
  ShortPressToggles
  LampSettles
  FiresAtAngle
  ImplementsPhaseCut
