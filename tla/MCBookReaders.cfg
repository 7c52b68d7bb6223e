CONSTANTS
  o1 = o1
  o2 = o2
  l1 = l1
  l2 = l2
  NoOrder = NoOrder
  Ids = {o1, o2}
  Orders = {o1, o2}
  Levels = {l1, l2}
  MaxQty = 3
  EventSizes = {0, 1, 2, 3}
  MaxTick = 2
  MaxEvents = 4
  EmitStart = 1
  CandleOf <- MCCandleOf
SYMMETRY BookSymmetry
SPECIFICATION ReadersSpec
INVARIANTS BooksAgree LotsFitOrder DeletedIsWithdrawn
CHECK_DEADLOCK FALSE
