CONSTANTS
    Texts <- MCTexts
    Grids <- MCGrids
    TAB_WDITH = 1
    Prompt = 1
    MaxKeys = 2
    LIMIT = 24

SPECIFICATION Spec

INVARIANTS
    ScreenIsTail
    OnlyTabsLeaveGrid
    NeverLost

PROPERTIES
    RedrawEnds

CHECK_DEADLOCK FALSE
