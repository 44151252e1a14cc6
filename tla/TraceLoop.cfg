SPECIFICATION FairSpec
CONSTANTS
    Tids = {t1, t2}
    Main = t1
    UseSeccomp = TRUE
    MaxSignals = 2
    Shocks = {"kill", "rt"}
INVARIANTS
    TypeOK
    ReturnsAfterAll
    ExitCodeOfMain
    StopsAnswered
PROPERTIES
    LoopEnds
    EscalationEnds
    SignalHeeded
