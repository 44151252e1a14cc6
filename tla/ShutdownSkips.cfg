SPECIFICATION FairSpec
CONSTANTS
    Tids = {t1, t2}
    Main = t1
    UseSeccomp = TRUE
    MaxSignals = 1
    Shocks = {}
PROPERTY EntriesHandled
