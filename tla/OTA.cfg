CONSTANTS
  None = None
  Mixed = Mixed
  Torn = Torn
  Blocks <- Sizes
  Block = {1, 2, 3}
  MY_OTA_RETRY = 2
  MaxLost = 2
  MaxFaults = 3
SPECIFICATION FairSpec
INVARIANTS
  TypeOK
  HeaderMeansImage
  ConfigNotAhead
PROPERTIES
  DownloadEnds
  Installed
CHECK_DEADLOCK FALSE
