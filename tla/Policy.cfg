\* Every combination of options on kernels from none to ABI 7, and nine sets
\* of files of which one changes while they are discovered.
SPECIFICATION Spec
CONSTANTS
    Names <- MCNames
    Inodes <- MCInodes
    Type <- MCType
    Executable <- MCExecutable
    Readable <- MCReadable
    Contexts <- MCContexts
    Commands = {"prog"}
    Interps <- MCInterps
    Found <- MCFound
    EnvName = "env"
    ShName = "sh"
    Linked <- MCLinked
    Multicall <- MCMulticall
    MaxVisits = 6
    MaxReplaced = 1
    Dirs <- MCDirs
    DevDir = "dev"
    PresetDirs = {"tmp"}
    Ports = {0, 1, 2}
    Scenarios <- MCScenarios
INVARIANTS
    Enforced
    NotFalselyDenied
    OnlyPinned
    NestingBounded
CHECK_DEADLOCK FALSE
