CONSTANTS
  p1 = p1
  NoProc = NoProc
  Procs = {p1}
  EventCount = 4
  BatchCount = 3
  EndOf <- MCEndOf
  Stamp <- MCStamp
  Windows <- MCWindows
  CacheSize = 1
  MaxFaults = 1
  ScanWindows <- MCScanWindows
  CandleSpan = 3
  Warmup = 1
  FetchSize = 2
  ScanCacheSize = 1
  MaxScans = 2
SPECIFICATION FairScanSpec
INVARIANT AnswersMissNothing
PROPERTY ScansStop
