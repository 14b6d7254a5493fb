SPECIFICATION Spec

CONSTANTS
  x = x y = y t1 = t1 t2 = t2 t3 = t3
  c1 = c1 c2 = c2 c3 = c3
  None = None
  Browsers <- TwoBrowsers
  Tabs <- ThreeTabs
  BrowserOf <- TabsBrowsers
  Calls <- ThreeCalls
  TabOf <- CallsTabs
  MaxEvents = 3
  MaxFaults = 1

SYMMETRY Interchangeable

CHECK_DEADLOCK FALSE

INVARIANT TypeOK
INVARIANT SessionKept
PROPERTY ThrownOutForReason
