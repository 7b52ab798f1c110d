SPECIFICATION Spec

CONSTANTS
    MaxCallDepth = 3
    MaxIter = 6
    Cases <- RangeContinue
    Programs <- MCPrograms
    ApplyInEvaluator <- MCApplyCallee
    Heights <- MCHeights
    Exprs <- MCExprs
    Stmts <- MCStmts
    Depth <- MCDepth

INVARIANTS
    EnginesAgree
