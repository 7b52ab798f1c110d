SPECIFICATION Spec

CONSTANTS
    MaxCallDepth = 3
    MaxIter = 6
    Names <- OptionTry
    FileOf <- MCFileOf

INVARIANTS
    AcceptedRuns
