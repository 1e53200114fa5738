CONSTANTS
  DIMMER_MAX = 6
  DIMMER_HIGH = 8
  ByteSize = 16
  HalfWave = 11
SPECIFICATION Spec
INVARIANT LevelInRange
