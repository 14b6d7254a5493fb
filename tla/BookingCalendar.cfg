SPECIFICATION Spec

CONSTANTS
  b1 = b1 b2 = b2
  s1 = s1 s2 = s2 w1 = w1
  m1 = m1 m2 = m2
  None = None
  Bookings <- TwoBookings
  Sessions <- TwoSessions
  Workers <- OneWorker
  WorkerOf <- OneCalendar
  Media = {}
  Buffer = 1
  MaxTime = 0
  Starts = {1, 3}
  Durations = {1, 2}
  Types = {"incall"}
  Addresses = {}
  Screenings = {"passed"}
  Advances = {}
  Receiveds = {}
  EditStatuses = {"DRAFT", "PENDING_REVIEW", "CONFIRMED"}

SYMMETRY Interchangeable

CHECK_DEADLOCK FALSE

INVARIANT TypeOK
INVARIANT EndDerived
INVARIANT SlotsApart
INVARIANT ActiveIsOpen
INVARIANT WaitingHasPending
INVARIANT OneDraft
PROPERTY KeepsCalendar
