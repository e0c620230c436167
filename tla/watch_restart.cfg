SPECIFICATION Spec
CONSTANTS
    Watchers = {w1, w2}
    Paths = {"/", "/a", "/a/f", "/b"}
    Above <- MCAbove
    Root = "/"
    Limit = 3
    Restarts = TRUE
    None = None
INVARIANTS StartedIsHeld
