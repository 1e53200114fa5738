CONSTANTS
  MaxColor = 2
  ColorOrder <- OneColor
  WhiteChannel = "W"
  Payloads <- LimitPayloads
  STORAGE_VERSION = 2
  MY_NODE_ID = 4
SPECIFICATION Spec
INVARIANTS
  TypeOK
  OffMeansDark
  LitAtLimit
  EepromHoldsLimits
