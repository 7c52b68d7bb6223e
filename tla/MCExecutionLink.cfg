SPECIFICATION Spec
CONSTANTS
    MaxCandles = 3
    MaxRetries = 1
    MaxFaults = 2
    FirstSides = {"BUY"}
INVARIANTS
    SentIsUnderWay
    NoSecondAttempt
    BrokerKnown
PROPERTIES
    ClosedAreForgotten
