SPECIFICATION Spec

CONSTANTS
    MaxCallDepth = 3
    MaxIter = 6
    Names <- Checkable
    FileOf <- MCFileOf

INVARIANTS
    TypeOK
    AcceptedRuns
    NamesResolved
    
