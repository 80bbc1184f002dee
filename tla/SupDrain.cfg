\* No process group: the caller has a child of its own, descendants are adopted.
SPECIFICATION Spec
CONSTANTS
    Main = Main
    Descendants = {d1, d2}
    Foreign = {f}
    Immune = {}
    Leavers = {}
    Tino = Tino
    InitProc = InitProc
    Subreaper = TRUE
    UsePgroup = FALSE
    ExitCodes = {3}
    External = {"TERM", "TTOU"}
    MaxArrivals = 2
    Flood = {}
    ExpectZero = {143}
    Grace = 2
    InstantMax = 99
    Batch = 2
    Faults = {}
    Horizon = 1
INVARIANTS
    DrainedOnReturn
PROPERTIES
    KeepsPromise
CHECK_DEADLOCK FALSE
