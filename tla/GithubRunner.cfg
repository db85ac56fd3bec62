SPECIFICATION FairSpec
CONSTANTS
    MaxFaults = 3
    MaxPrunes = 2
INVARIANTS TypeOK
PROPERTIES FreshStart RunnerReturns
CHECK_DEADLOCK FALSE
