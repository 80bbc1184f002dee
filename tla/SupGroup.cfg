\* A command leading its own process group (-g) under a subreaper; a
\* descendant tino may not signal, and a command that may leave the group.
SPECIFICATION Spec
CONSTANTS
    Main = Main
    Descendants = {d1, d2}
    Foreign = {}
    Immune = {d2}
    Leavers = {Main}
    Tino = Tino
    InitProc = InitProc
    Subreaper = TRUE
    UsePgroup = TRUE
    ExitCodes = {3}
    External = {"TERM", "USR"}
    MaxArrivals = 2
    Flood = {}
    ExpectZero = {143}
    Grace = 2
    InstantMax = 99
    Batch = 2
    Faults = {"poll", "signalfd", "waitpid", "getpgid", "exists"}
    Horizon = 1
INVARIANTS
    NoLostExit
    EscalationJustified
    NoSurvivor
    FailureClean
CHECK_DEADLOCK FALSE
