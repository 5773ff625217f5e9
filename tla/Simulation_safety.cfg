CONSTANTS
    m1 = m1
    m2 = m2
    Models = {m1}
    AgentId = 1
    Counts = {0}
    MaxShape = 2
    MaxRunning = 2
    MaxRate = NoLimit
    NoLimit = NoLimit
    Loads <- OneModelLoads
    FacadeStates = {}
    MayPanic = TRUE
    MayFailToSpawn = TRUE
    BotMailbox = 3
    SimMailbox = 2
    MaxCommands = 2
    MaxBotId = 3
    Incs = {0}
SPECIFICATION Spec
INVARIANTS TypeOK ModelsExact EveryBotHasItsEntry UntoldWithinMaxRunning
PROPERTY EndsAfterOneStoppingHook
