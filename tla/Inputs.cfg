SPECIFICATION Spec
\* A case ends where it has been judged.
CHECK_DEADLOCK FALSE
CONSTANTS
    Numerals <- NumeralsOf
    SignalNames <- SignalsOf
    PolicyIsSound <- Sound
INVARIANTS
    ExpandsAsMeant
    KnowsWhatRuns
    WrittenIsRead
    FileDecides
    SourceDecides
