SPECIFICATION FairSpec

CONSTANTS
  m1 = m1 m2 = m2 m3 = m3
  s1 = s1 q1 = q1 q2 = q2
  None = None
  Messages <- ThreeMessages
  Sessions <- OneSession
  SessionOf <- OneClient
  EventTime <- Timed
  Turns <- TwoTurns
  Ahead = 1
  MaxTime = 1
  MaxAborts = 1

CHECK_DEADLOCK FALSE

INVARIANT TypeOK
INVARIANT WaitsEnd
INVARIANT IgnoredForReason
PROPERTY KeepsLedger
PROPERTY OrderKeptUnlessOverlapped
PROPERTY EventuallySettled
