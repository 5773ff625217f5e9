CONSTANTS
    MaxId = 7
    MaxBatch = 3
    Word = 9
    Group = 2
    AgentIds = {0, 1, 5, 16, 64, 255, 256, 511}
    ModelIds = {0, 1, 3, 4, 15, 16, 48, 63}
    WideIds = {15, 16, 17, 48, 63, 64, 65, 192, 255, 256, 257, 320, 384, 448, 510, 511}
SPECIFICATION Spec
INVARIANTS TypeOK GeneratorExact BatchIsLoop ReleaseOrderIsIrrelevant
INVARIANTS InternalIdDecodes GlobalIdDecodes
PROPERTY ImplementsLowestFreeId
