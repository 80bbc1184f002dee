\* Two termination signals in a row, against what README.md says.
SPECIFICATION Spec
CONSTANTS
    Main = Main
    Descendants = {d1, d2}
    Foreign = {}
    Immune = {d2}
    Leavers = {Main}
    Tino = Tino
    InitProc = InitProc
    Subreaper = TRUE
    UsePgroup = TRUE
    ExitCodes = {3}
    External = {"TERM", "USR"}
    MaxArrivals = 2
    Flood = {}
    ExpectZero = {143}
    Grace = 2
    InstantMax = 99
    Batch = 2
    Faults = {}
    Horizon = 1
INVARIANT GraceAlwaysWaited
CHECK_DEADLOCK FALSE
