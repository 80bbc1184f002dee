\* Every request, every caller's dispositions of SIGTERM, SIGPIPE and SIGABRT, every
\* call failing, and a supervisor that dies at any step.
SPECIFICATION Spec
CONSTANTS
    Signals = {CHLD, TERM, PIPE, ABRT}
    Chld = CHLD
    Pipe = PIPE
    Excluded = {ABRT}
    Faults = {"reset", "sigpipe", "prctl", "setpgid", "sigmask", "landlock", "exec", "group"}
INVARIANTS
    ParentDeathFelt
    NoHostHandler
    ProgramAsPromised
PROPERTIES
    GroupTruth
CHECK_DEADLOCK FALSE
