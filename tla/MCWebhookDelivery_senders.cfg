CONSTANTS
    Endpoints = {p1}
    Events = {e1}
    Workers = {w1}
    Requests = {q1}
    MaxAttempts = 2
    MaxInFlight = 2
    Concurrency = 2
    TimeoutsBeforePause = 1
    MaxRedeliveries = 1
    MaxFaults = 2
SPECIFICATION FairSpec
CHECK_DEADLOCK FALSE
INVARIANTS TypeOK NoEventIsForgotten ChainsAreWhole NoNeedlessRetry
PROPERTIES DeliveredIsFinal EveryEventIsConcluded
