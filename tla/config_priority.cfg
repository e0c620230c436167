SPECIFICATION Spec
CONSTANTS
    Keys = {1, 2}
    Values = {"m", "a", "b", "c", "x"}
    Serials <- MCSerials
    Undefined = Undefined
    DataDirs = 2
    Depth = 1
    Names = {1, 2}
    Supported = 1
    Majors = {0, 1, 2}
    Disks <- RankedDisks
    Packages <- NoDisks
INVARIANTS LaterDirWins
