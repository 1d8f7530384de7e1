\* Four lines of the two controllers and every machine with a few functions.
SPECIFICATION Spec
CONSTANTS
    Lines = {0, 1, 8, 15}
    MaxRaised = 2
    MaxSpurious = 1
    None = None
    DEVICE_PER_BUS <- MCDevicesPerBus
    FUNCTIONS <- MCFunctions
    Classes = {"0106", "0101", "other"}
    SATA = "0106"
    IDE = "0101"
    Machines <- MCMachines
    MaxTicks = 2
INVARIANTS
    NoIrqIsException
    NothingInService
    ScanIsComplete
PROPERTY
    BootEnds
