CONSTANTS
  Symbols = 2
  MaxTime = 3
  EmitStart = 1
  MaxEvents = 4
  MaxYield = 0
  MaxPayloads = 3
  Collect = FALSE
  CandleOf <- MCCandleOf
SPECIFICATION Spec
INVARIANT OnlyScanWindowCounted
CHECK_DEADLOCK FALSE
