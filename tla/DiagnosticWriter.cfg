\* Two foreign signals or redirections of stderr during one message of two
\* pieces; three writes and two waits at most.
SPECIFICATION Spec
CONSTANTS
    MaxWrites = 3
    MaxTries = 2
    Length = 2
    MaxEvents = 2
    Files <- MCFiles
INVARIANTS
    CallerUntouched
    RightFile
CHECK_DEADLOCK FALSE
