CONSTANTS
  ClockWrap = 11
  ShortTime = 2
  LongTime = 5
  PollGap = 3
SPECIFICATION FairSpec
INVARIANTS
  TimeKept
PROPERTIES
  EventMatchesHold
  ImplementsProtocol
  LongPressReported
