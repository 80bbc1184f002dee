\* Any call may fail, those of the failure cleanup too.
SPECIFICATION Spec
CONSTANTS
    Main = Main
    Descendants = {d1, d2}
    Foreign = {f}
    Immune = {d2}
    Leavers = {Main}
    Tino = Tino
    InitProc = InitProc
    Subreaper = TRUE
    UsePgroup = TRUE
    ExitCodes = {3}
    External = {"TERM", "TTOU"}
    MaxArrivals = 1
    Flood = {}
    ExpectZero = {143}
    Grace = 1
    InstantMax = 99
    Batch = 2
    Faults = {"poll", "signalfd", "waitpid", "getpgid", "exists", "kill",
              "waitfailed"}
    Horizon = 0
INVARIANTS
    MainReserved
    GroupKillOwned
PROPERTIES
    FailureReapsOnlyOurs
CHECK_DEADLOCK FALSE
