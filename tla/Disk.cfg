CONSTANTS
    Machines <- MCMachines
    Capacity <- MCCapacity
    Byte = 3
    Nibble = 2
    SectorsPerTrack = 2
    Quads = 3
    NULL = NULL
    SpinLimit = 2
    SectorsPerEntry = 4
    EntryLimit = 64
    PMPorts = {0, 1}
    Sectors = {35, 40, 54, 80}

SPECIFICATION Spec

INVARIANTS
    OnlyAskedMoves
    SuccessIsReal
    ErrorIsReal

PROPERTIES
    ProbeFindsDrives
    CallsReturn
