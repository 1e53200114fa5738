CONSTANTS
  None = None
  TRANSMISSION_FAILURES = 1
  MAX_SUBSEQ_MSGS = 1
SPECIFICATION FairSpec
INVARIANTS
  TypeOK
  SuccessIsDelivery
  RelayAsSaved
PROPERTIES
  RadioRecovers
  MovementReported
