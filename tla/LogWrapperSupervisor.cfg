SPECIFICATION FairSpec
CONSTANTS
    launcher = launcher
    safaridriver = safaridriver
    Procs = {launcher, safaridriver}
    Leader = launcher
    Stubborn = {safaridriver}
    MaxGen = 3
    Faults = {"file"}
PROPERTIES ServiceReturns StopStops SupervisorSpec
CHECK_DEADLOCK FALSE
