CONSTANTS
    Models = {m}
    m = m
    BotStates = {running}
    running = running
    Snapshots <- OneSnapshot
    ModelOf <- OfModel
    MaxCount = 2
    Refresh = 1
    MaxDelay = 1
    MaxFetches = 2
    MaxLosses = 1
SPECIFICATION FairSpec
INVARIANTS
    TypeOK
    DeltasAddUp
    SnapshotsComeOnce
PROPERTIES
    NonzeroCountsBecomeKnown
