SPECIFICATION Spec
CONSTANTS
    TemplateFile <- MCTemplateFile
    Configs <- MCConfigs
    Times <- MCTimes
    Hours = 2
    Minutes = 2
    Millis = 2
INVARIANTS DefsAsDocumented CapabilitiesAsDocumented AllOrNothing RestartOnTime
CHECK_DEADLOCK FALSE
