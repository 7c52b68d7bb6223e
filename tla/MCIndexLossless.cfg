CONSTANTS
  p1 = p1
  NoProc = NoProc
  Procs = {p1}
  EventCount = 4
  BatchCount = 3
  EndOf <- MCEndOf
  Stamp <- MCStamp
  Windows <- MCWindows
  CacheSize = 1
  MaxFaults = 0
SPECIFICATION Spec
INVARIANT InterruptedBuildsLossless
