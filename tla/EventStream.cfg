SPECIFICATION FairSpec

CONSTANTS
  w = w section = section booking = booking other = other
  None = None
  Clients <- WorkerOnly
  Subjects <- ThreeRows
  Sections <- OneSection
  Follows <- WorkerFollows
  HistorySize = 1
  MaxEvents = 2
  MaxBreaks = 2

CHECK_DEADLOCK FALSE

INVARIANT TypeOK
INVARIANT NothingLost
INVARIANT NoRepeat
INVARIANT ScreenRight
PROPERTY InOrder
PROPERTY EventuallyShown
