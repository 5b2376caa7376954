SPECIFICATION FairSpec
CONSTANTS
    c1 = c1 c2 = c2 c3 = c3
    Clients = {c1, c2}
    NoClient = NoClient
    Intervals = {1, 2}
    MaxTime = 3
    MaxRestarts = 1
    MaxSaves = 1
    MaxFaults = 1
INVARIANTS
    ListRestorable
    ExecutedOnce
PROPERTIES
    CancelIsFinal
    TimerFires
