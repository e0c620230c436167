SPECIFICATION Spec
CONSTANTS
    None = None
    FileNames = {a, b}
    Contents = {x}
    LinkTargets <- MCLinked
    MaxDepth = 2
    MaxNodes = 3
    MaxWild = 1
    Octets = {x}
    Engines = {e1, e2}
    Threads = {t1, t2}
    Subs = {a, b}
    InDirectory = {b}
    Default <- MCDefault
    MaxPending = 3
    Sources = {"a", "dir"}
    FileName <- MCFileName
    Within <- MCWithin
    MaxHash = 1
    CapPaths <- MCCapPaths
    Sep = "/"
    Writable <- MCWritable
    MaxPaths = 2
    MaxTables = 3
    MaxCalls = 1
    Texts = {blank, text}
    Blank = blank
    WatchedDirs = {d, e}
    Objects = {o1, o2}
    Vals = {u, v}
    Moved = moved
    Movers = {m1, m2}
    Programs = {p1, p2}
    Recent = {f, g}
    Apps = {app}
    Sections = {"A", "B"}
    Keys = {"k"}
    Unparsed = Unparsed
    Addresses = {addr}
    Classes = {C, D}
    Functions = {"f"}
    Replacements = {r}
    MaxCount = 2
    RuleSets = {"r", "s"}
    DefaultRules <- MCDefaultRules
    CompiledRules = "r"
    MaxComing = 3
    LogPaths = {"p", "d"}
    Directory = "d"
    DefaultPath = "q"
    MaxAppenders = 2
    OsFiles <- MCOsFiles
    ReleaseFiles <- MCReleaseFiles
    DeepinFiles <- MCDeepinFiles
    Blocks <- MCBlocks
    KnownTypes = {"deepin", "uos"}
    AlikeTypes = {"dx"}
    MaxUpgrades = 1
    Lists <- MCLists
    BadItem = "bad"
    DataDirs = 1
    Licenses = {"l"}
    Pids = {1, 2}
    OwnPid = 1
    Processes = {"me", "p", "q"}
    Me = "me"
    Identity <- MCIdentity
    Given = {"e"}
    AppNames = {"n"}
    FormatAppId <- MCFormatAppId
    Cmdline = "c"
    NoId = ""
    Options = {k1}
    Resettable = {k1}
    OptionValues = {v0, v1, v2}
    Backends = {b1, b2}
    Reporting = {b2}
INVARIANTS TypeOK IndexIsTree RoundTrip
    DiskIsFile PictureSettles HoldsWhatWasPut TrashedIsDescribed ListIsExact
    UsableUntilRemoved CallsReachTheirs KeptIsTrue
PROPERTIES StoreAgrees
CHECK_DEADLOCK FALSE
