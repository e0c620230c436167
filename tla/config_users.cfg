SPECIFICATION Spec
CONSTANTS
    Keys = {"g", "k"}
    Values = {"a", "b"}
    NoValue = NoValue
    Serials <- MCSerials
    Types <- MCTypes
    TypeOf <- MCTypeOf
    Converted <- MCConverted
    DoubleType = "Double"
    Users = {u1, u2}
    GlobalCache = GlobalCache
    None = None
    Metas <- OneMeta
    Downgrades = FALSE
    Leftovers = {"foreign"}
    Faults = {}
INVARIANTS TypeOK
PROPERTIES AcceptedIsVisible ViewSpec
SYMMETRY UserSymmetry
