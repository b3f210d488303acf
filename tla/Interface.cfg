SPECIFICATION IFairSpec
CONSTANTS
  SprintLength = 2
  MaxTimers = 2
  NumDevs = 2
  WalkFrames = 2
  BubbleFrames = 1
  Stagger = 1
  Stock = 2
  MaxRequests = 1
INVARIANTS OfficeTellsTruth OfficePublished
PROPERTIES SprintRunsOut OpeningEnds
