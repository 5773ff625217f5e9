CONSTANTS
    MaxCommands = 4
    MaxBreaks = 3
    MaxAttempt = 1
    Channel = 2
    CoreMayBeFull = TRUE
SPECIFICATION FairSpec
CHECK_DEADLOCK FALSE
INVARIANTS TypeOK OneConnectionAtATime
PROPERTIES ImplementsCommandStream ComesBack UpdatesFlow CommandsArrive
