SPECIFICATION FairSpec
CONSTANTS
    Nodes = {n1, n2}
    Managers = {"systemd", "logwrapper", "winsw"}
    MaxRuns = 3
INVARIANTS TypeOK LaunchNeedsUpdate NoUntendedNode OneSetOfNodes StopLeavesNothing OneUpdate NoStaleSafari
PROPERTIES UpdateSettles LostNodeEndsRun DailyRestartReturns SupervisorSpec
CHECK_DEADLOCK FALSE
