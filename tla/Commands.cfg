\* Ints of four bits: -8 to 7.  Exceptions stop the machine.
SPECIFICATION Spec
CONSTANTS
    INT_BITS = 4
    Lines <- MCLines
    FitRows = 3
    FitCols = 4
    None = None
INVARIANTS
    CommandIsLine
    AnswerIsExact
CHECK_DEADLOCK FALSE
