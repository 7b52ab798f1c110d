SPECIFICATION Spec

CONSTANTS
    Urls = {1, 2}
    Paths = {1, 2, 3}
    Clones = {2}
    Place <- MCPlace
    NoLock = nolock
    MaxGets = 3

INVARIANTS
    TypeOK
    GetPins
    SourcesKept
    RunsHashed
