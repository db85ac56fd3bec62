SPECIFICATION Spec
CONSTANTS
    launcher = launcher
    safaridriver = safaridriver
    Procs = {launcher, safaridriver}
    Leader = launcher
    Stubborn = {safaridriver}
    MaxGen = 3
    Faults = {"crash", "log", "spawn", "signal"}
INVARIANTS TypeOK OwnOneGeneration StopCanFind
PROPERTIES QuitIsFinal
CHECK_DEADLOCK FALSE
