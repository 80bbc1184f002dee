\* Any caller, any failing call, signals that keep arriving.
SPECIFICATION FairSpec
CONSTANTS
    Signals = {CHLD, TERM}
    Chld = CHLD
    Excluded = {}
    Subreaper = TRUE
    DrainLimit = 2
    Faults = {"query", "mask", "signalfd", "sigaction", "wait", "interrupt",
              "prepare", "prctl", "capability", "fork"}
INVARIANTS
    NoStray
    
PROPERTIES
    ChldKept
    RestoreEnds
CHECK_DEADLOCK FALSE
