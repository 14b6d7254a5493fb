SPECIFICATION FairSpec

CONSTANTS
  b1 = b1 n1 = n1 n2 = n2 n3 = n3
  q1 = q1 q2 = q2
  None = None
  Bookings <- OneBooking
  Notes <- TwoNotes
  Jobs <- TwoJobs
  Before = 0
  Minutes = {1}
  MaxRetries = 1
  Starts = {1}
  MaxUpsets = 1

CHECK_DEADLOCK FALSE

INVARIANT TypeOK
INVARIANT RemindedOnce
INVARIANT ConfirmedReminded
PROPERTY KeepsDeliveries
PROPERTY NotEarly
PROPERTY EventuallyOver
