CONSTANTS
  Symbols = 2
  MaxTime = 3
  EmitStart = 1
  MaxEvents = 5
  MaxYield = 2
  MaxPayloads = 3
  Collect = TRUE
  CandleOf <- MCCandleOf
SPECIFICATION Spec
INVARIANTS MarksAreRecords WarmupForgotten
CHECK_DEADLOCK FALSE
