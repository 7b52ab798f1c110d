SPECIFICATION Spec

CONSTANTS
    Files = {main, a, b}
    Main = main
    Std = {json}
    Contents <- AllGraphs
    Edited <- SomeGraphs
    MaxEdits = 1

INVARIANTS
    TypeOK
    VerdictRight
    CyclesReported
    EvaluationFollows
    LoadingSimple
    NestingBounded

PROPERTIES
    CompleteInterfaces
    Terminates
