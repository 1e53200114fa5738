CONSTANTS
  ClockWrap = 19
  MaxColor = 3
  MIN_INTERVAL = 2
  FadeTimes = {2, 5, 7}
  MaxTime = 7
  Steps = {3}
  PollGap = 2
SPECIFICATION FairSpec
INVARIANTS
  TypeOK
  FollowsTheLine
PROPERTIES
  FadeKeepsTime
  ImplementsFader
  FadeEnds
