SPECIFICATION Spec

CONSTANTS
  b1 = b1 b2 = b2
  s1 = s1 s2 = s2 w1 = w1
  m1 = m1 m2 = m2
  None = None
  Bookings <- OneBooking
  Sessions <- OneSession
  Workers <- OneWorker
  WorkerOf <- OneCalendar
  Media <- TwoMedia
  Buffer = 1
  MaxTime = 1
  Starts = {2}
  Durations = {1}
  Types = {"outcall"}
  Addresses = {TRUE}
  Screenings = {"passed"}
  Advances = {}
  Receiveds = {}
  EditStatuses = {}

SYMMETRY Interchangeable

CHECK_DEADLOCK FALSE

INVARIANT ReceiptNeverBlocks
