CONSTANTS
  MaxColor = 2
  ColorOrder <- TwoColors
  WhiteChannel = "W"
  Payloads <- TransitionPayloads
  STORAGE_VERSION = 2
  MY_NODE_ID = 4
SPECIFICATION Spec
INVARIANT TransitionOnCourse
PROPERTY NoJump
