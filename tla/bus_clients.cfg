SPECIFICATION Spec
CONSTANTS
    MaxValue = 3
    MaxOwner = 2
    MaxPending = 2
    MaxQueued = 3
    MaxStarts = 3
    MaxChanges = 4
    Clients = {c1, c2}
    Settings = {v0, v1}
    Fallback = fallback
    MaxEpoch = 2
    MaxNotices = 2
    None = None
INVARIANTS TypeOK ListenersAreCurrent ValidityIsNoticed ViewIsStored RefsAreLive
PROPERTY GetAllFinishes
