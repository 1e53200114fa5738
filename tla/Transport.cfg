CONSTANTS
  Node = {1, 2}
  Repeaters = {1, 2}
  Dynamic = {2}
  Asked = {2}
  STATE_RETRIES = 1
  TRANSMISSION_FAILURES = 1
  MAX_HOPS = 4
  FarNodes = {{}, {2}}
  RxFifo = 2
  MaxWaits = 3
  MaxFaults = 1
SPECIFICATION FairSpec
INVARIANTS
  TypeOK
  LinkSound
PROPERTIES
  Settles
