SPECIFICATION Spec
CONSTANTS
    None = None
    W4 = 4
    W6 = 16
    LoopNet <- OneBit
    PartLists <- UpToTwoParts
    Urls <- SomeUrls
    Images <- SomeImages
    Vars <- SomeVars
    LocalPort = 7
INVARIANTS
    TypeOK
    BypassExactly
    KernelSees
    MeaningRestored
    ConfiguredFirst
