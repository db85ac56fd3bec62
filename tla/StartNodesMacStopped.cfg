SPECIFICATION Spec
CONSTANTS
    Nodes = {n1, n2}
    Managers = {"logwrapper"}
    MaxRuns = 2
INVARIANTS StoppedMeansGone
CHECK_DEADLOCK FALSE
