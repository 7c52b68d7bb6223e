CONSTANTS
  TopPrice = 3
  Footprints <- MCFootprints
  Candles = 4
  MaxRefills = 2
  EmitCandles = {1, 2}
  CountMin = 1
  MinRetest = 1
  ReferenceTimeout = 1
  TouchedTimeout = 1
  RefillLifetime = 1
SPECIFICATION ReplaySpec
INVARIANTS
  NoInversion StreamMatchesBook ZonesAreRuns
  EnteredOnce CancelledDropped
PROPERTIES PassedAreCancelled KeepsPromise
CHECK_DEADLOCK FALSE
