CONSTANTS
  Candles = 3
  MaxTrades = 2
  MaxRemovals = 1
  Window = 5
  Missed = 1
  Least = 1
  Margin = 1
SPECIFICATION Spec
INVARIANTS EvaluatedInOrder TradesCounted KnownIsQueuedOrSeen
PROPERTIES KlineEvaluatesCandle QueueDrains StaleIsHealed
CHECK_DEADLOCK FALSE
