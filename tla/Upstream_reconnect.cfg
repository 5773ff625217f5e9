CONSTANTS
    MaxCommands = 2
    MaxBreaks = 3
    MaxAttempt = 1
    Channel = 2
    CoreMayBeFull = FALSE
SPECIFICATION FairSpec
CHECK_DEADLOCK FALSE
PROPERTY ConnectionForwards
