SPECIFICATION TxSpec

CONSTANTS
  b1 = b1 b2 = b2
  s1 = s1 s2 = s2 w1 = w1
  q1 = q1 q2 = q2 q3 = q3
  None = None
  Bookings <- TwoBookings
  Sessions <- TwoSessions
  Workers <- OneWorker
  WorkerOf <- OneCalendar
  Requests <- TwoRequests
  Media = {}
  Buffer = 1
  MaxTime = 0
  Starts = {1, 3}
  Durations = {1}
  Types = {"incall"}
  Addresses = {}
  Screenings = {"passed"}
  Advances = {}
  Receiveds = {}
  EditStatuses = {"DRAFT", "PENDING_REVIEW", "CONFIRMED"}

SYMMETRY Interchangeable

CHECK_DEADLOCK FALSE

INVARIANT TxTypeOK
INVARIANT EndFitsAlone
INVARIANT ConfirmedApart
INVARIANT ConflictsRaced
PROPERTY TransitionsFollowed
PROPERTY KeepsConfirmed
