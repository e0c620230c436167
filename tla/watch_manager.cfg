SPECIFICATION Spec
CONSTANTS
    Watchers = {w1, w2, w3}
    Paths = {"/", "/a", "/a/f", "/b"}
    Above <- MCAbove
    Root = "/"
    Limit = 3
    Restarts = FALSE
    None = None
INVARIANTS TypeOK CountIsHolders WatchSurvives
SYMMETRY WatcherSymmetry
