CONSTANTS
  MaxColor = 2
  ColorOrder <- OneColor
  WhiteChannel = "W"
  Payloads <- LimitAndOverflow
  STORAGE_VERSION = 2
  MY_NODE_ID = 4
SPECIFICATION Spec
INVARIANT WellFormedObeyed
