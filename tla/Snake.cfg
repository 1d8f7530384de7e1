CONSTANTS
    GB_WIDTH = 3
    GB_HEIGHT = 3
    START_X = 2
    START_LEN = 3

SPECIFICATION Spec

INVARIANTS
    OneApple
    SnakeInOnePiece
    ScoreIsGrowth

PROPERTY
    NoReversal
