CONSTANTS
  Orders = {"o1", "o2", "o3"}
  Payload <- MCPayload
  Sizes = {2}
  Confirm = 1
  Gap = 1
  Recent = 1
  Baseline = 4
  Windows <- MCWindows
  MaxTime = 3
  MaxEvents = 4
SPECIFICATION Spec
INVARIANTS GoneWaitsForReplacement AllGoneIsWeak
PROPERTY KeepsWatch
CHECK_DEADLOCK FALSE
