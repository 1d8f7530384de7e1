CONSTANTS
    Commands = {c1, c2}
    NoCommand = NoCommand
    Outputs = {0, 2}
    Banner = 1
    PROMPT = 2
    ERROR = 1
    MaxLine = 2
    MaxKeys = 6

SPECIFICATION Spec

PROPERTY
    CommandRuns
