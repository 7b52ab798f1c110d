SPECIFICATION Spec

CONSTANTS
    MaxCallDepth = 3
    MaxIter = 6
    Names <- NarrowedSet
    FileOf <- MCFileOf

INVARIANTS
    AcceptedRuns
