CONSTANTS
  p1 = p1
  p2 = p2
  NoProc = NoProc
  Procs = {p1, p2}
  EventCount = 4
  BatchCount = 3
  EndOf <- MCEndOf
  Stamp <- MCStamp
  Windows <- MCWindows
  CacheSize = 1
  MaxFaults = 2
SYMMETRY ProcSymmetry
SPECIFICATION Spec
INVARIANTS TypeOK ReadyIsComplete StoredIsPrefix QuietLoadsComplete
