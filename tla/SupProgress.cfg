\* Termination signals and failing log writes never stop, and calls may fail.
SPECIFICATION FairSpec
CONSTANTS
    Main = Main
    Descendants = {d1}
    Foreign = {}
    Immune = {d1}
    Leavers = {Main}
    Tino = Tino
    InitProc = InitProc
    Subreaper = TRUE
    UsePgroup = TRUE
    ExitCodes = {}
    External = {}
    MaxArrivals = 0
    Flood = {"TERM", "OWNPIPE"}
    ExpectZero = {143}
    Grace = 1
    InstantMax = 99
    Batch = 2
    Faults = {"poll", "signalfd", "waitpid", "getpgid", "exists"}
    Horizon = 0
PROPERTIES
    NothingStarves
    AnswersAtLast
CHECK_DEADLOCK FALSE
