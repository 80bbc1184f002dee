\* Two writers with the same process id in different PID
\* namespaces, two names each, every call failing, kills and power losses.
SPECIFICATION Spec
CONSTANTS
    w1 = w1
    w2 = w2
    Writers = {w1, w2}
    Pids = {1}
    PidOf <- MCPidOf
    Dest = Dest
    MaxAttempts = 2
    Faults = {"write", "chmod", "sync", "rename", "parent"}
INVARIANTS
    NeverTorn
    DurableOnOk
PROPERTIES
    OnlyOwnTemp
    ModeKept
    NoLitter
CHECK_DEADLOCK FALSE
