SPECIFICATION FairSpec

CONSTANTS
    MaxCallDepth = 3
    MaxIter = 6
    Cases <- Agreeing
    Programs <- MCPrograms
    ApplyInEvaluator <- MCApplyCallee
    Heights <- MCHeights
    Exprs <- MCExprs
    Stmts <- MCStmts
    Depth <- MCDepth

INVARIANTS
    TypeOK
    StackSafe
    Balanced
    CodeFits
    CallDepthOK

PROPERTIES
    Implements
    Terminates
