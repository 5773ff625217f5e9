CONSTANTS
    m1 = m1
    m2 = m2
    Models = {m1}
    AgentId = 1
    Counts = {1}
    MaxShape = 2
    MaxRunning = 2
    MaxRate = NoLimit
    NoLimit = NoLimit
    Loads <- OneGoodLoad
    FacadeStates = {}
    MayPanic = FALSE
    MayFailToSpawn = FALSE
    BotMailbox = 3
    SimMailbox = 2
    MaxCommands = 2
    MaxBotId = 3
    Incs = {0, 1}
SPECIFICATION Spec
INVARIANT UniqueInternalId
