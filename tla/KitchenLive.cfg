CONSTANTS
  MaxColor = 1
  ColorOrder <- OneColor
  WhiteChannel = "W"
  Payloads <- LoopOnly
  STORAGE_VERSION = 2
  MY_NODE_ID = 4
SPECIFICATION FairSpec
PROPERTIES
  SettlesDark
  KeepsPulsing
