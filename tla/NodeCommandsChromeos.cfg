SPECIFICATION Spec
CONSTANTS
    TemplateFile <- MCTemplateFile
    Configs <- ChromeosConfigs
    Times <- JustOnce
    Hours = 1
    Minutes = 1
    Millis = 1
INVARIANTS DefsAsDocumented
CHECK_DEADLOCK FALSE
