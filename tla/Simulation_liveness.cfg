CONSTANTS
    m1 = m1
    m2 = m2
    Models = {m1}
    AgentId = 1
    Counts = {0, 2}
    MaxShape = 3
    MaxRunning = 2
    MaxRate = 1
    NoLimit = NoLimit
    Loads <- OneGoodLoad
    FacadeStates = {"Custom"}
    MayPanic = FALSE
    MayFailToSpawn = FALSE
    BotMailbox = 1
    SimMailbox = 1
    MaxCommands = 2
    MaxBotId = 2
    Incs = {0}
SPECIFICATION FairSpec
PROPERTIES StoppedSimulationEndsItsBots ReachesWantedCount
