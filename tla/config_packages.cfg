SPECIFICATION Spec
CONSTANTS
    Keys = {1, 2}
    Values = {"m", "a", "b", "c", "x"}
    Serials <- MCSerials
    Undefined = Undefined
    DataDirs = 1
    Depth = 2
    Names = {1}
    Supported = 1
    Majors = {0, 1, 2}
    Disks <- ChangingDisks
    Packages <- ChangingDisks
INVARIANTS TypeOK EveryItemHasValue FirmItems
PROPERTIES LoadReturns
