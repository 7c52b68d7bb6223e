CONSTANTS
  o1 = o1
  empty = empty
  l1 = l1
  l2 = l2
  NoOrder = NoOrder
  Ids = {o1, empty}
  Orders = {o1}
  Levels = {l1, l2}
  MaxQty = 2
  EventSizes = {1, 2}
  MaxTick = 3
  MaxEvents = 4
  EmitStart = 2
  CandleOf <- MCCandleOf
SYMMETRY LevelSymmetry
SPECIFICATION Spec
INVARIANTS TypeOK LiquidityConserved ClosingIsCurrent RefillBacked RefillAccounted
PROPERTY PastCandlesSettled
CHECK_DEADLOCK FALSE
