CONSTANTS
  Shapes <- MCShapes
  Places <- MCPlaces
  MaxCandles = 5
  MaxZones = 2
  MinRetest = 2
  ReferenceTimeout = 2
  TouchedTimeout = 1
  RefillLifetime = 1
SPECIFICATION PagesSpec
INVARIANTS
  PageSound PageSkipsCancelled ProxyOfOpenPositionRuns
CHECK_DEADLOCK FALSE
