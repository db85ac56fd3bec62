SPECIFICATION Spec
CONSTANTS
    Nodes = {n1, n2}
    Managers = {"logwrapper"}
    MaxRuns = 2
PROPERTIES PoliteExitStays
CHECK_DEADLOCK FALSE
