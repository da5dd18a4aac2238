CONSTANTS
  p1 = p1
  p2 = p2
  Posts <- MCPosts
  MaxFeed = 2
  MaxLimit = 1
  MaxScrollRounds = 2
  UnchangedRounds = 2
  ShiftPlaces <- DuringTheDelay
SPECIFICATION FairSpec
CHECK_DEADLOCK FALSE
INVARIANT TypeOK
INVARIANT EveryClickIsDue
INVARIANT SummaryIsTrue
PROPERTY Terminates
