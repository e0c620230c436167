SPECIFICATION Spec
CONSTANTS
    Keys = {"k", "g"}
    Values = {"a", "b"}
    NoValue = NoValue
    Serials <- MCSerials
    Types <- MCTypes
    TypeOf <- MCTypeOf
    Converted <- MCConverted
    DoubleType = "Double"
    Procs = {"p", "q"}
    Configs = {"app", "generic"}
    Generic = "generic"
    ConfigOf <- AppAndGeneric
    Users = {"u"}
    UserOf <- OneUser
    GlobalCache = GlobalCache
    Meta <- BothMetas
    Unwritable <- UserUncertain
    InitialFiles <- MaybeNewer
    Kills = TRUE
    None = None
INVARIANTS TypeOK LastSettingKept
PROPERTIES ChangeIsAnnounced
