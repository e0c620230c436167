SPECIFICATION Spec
CONSTANTS
    Keys = {"g", "k"}
    Values = {"a", "b", "n"}
    NoValue = NoValue
    Serials <- MCSerials
    Types <- MCTypes
    TypeOf <- MCTypeOf
    Converted <- MCConverted
    DoubleType = "Double"
    Users = {u1}
    GlobalCache = GlobalCache
    None = None
    Metas <- BumpedMetas
    Downgrades = FALSE
    Leftovers = {"ok"}
    Faults = {"open", "write", "flush"}
INVARIANTS CleanMeansStored
PROPERTIES RefusedIsNoOp RetiredStaysRetired
