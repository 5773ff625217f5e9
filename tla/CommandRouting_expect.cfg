CONSTANTS
    N = 2
    Targets <- SomeTargets
    MaxLists = 2
    MaxBreaks = 1
    Expiry = 2
SPECIFICATION Spec
INVARIANT ConnectionDefined
