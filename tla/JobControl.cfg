\* One command under a shell that does job control; four events of the
\* user, the shell or others, in any order and at any moment.
SPECIFICATION Spec
CONSTANTS
    MaxEvents = 4
    Batch = 2
INVARIANTS
    TerminalReturned
PROPERTIES
    NoTheft
    StopsToBeContinued
    StopShown
    FgReaches
CHECK_DEADLOCK FALSE
