SPECIFICATION FairSpec
CONSTANTS
    Data = {"c1", "c2", "u1", "u2"}
    ClientBytes <- MCClientBytes
    UpstreamBytes <- MCUpstreamBytes
    HeaderLimit = 2
    HighWater = 1
INVARIANTS TypeOK InOrder Answered
PROPERTIES EndsTogether TunnelSpec
CHECK_DEADLOCK FALSE
