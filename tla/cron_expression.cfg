\* Boundary values of both day fields, some of them in a spelling that only
\* one of the two programs reads; up to two weekday tokens.
SPECIFICATION ExpressionSpec
CONSTANTS
    DomNumbers <- MCDomNumbers
    DowNumbers <- MCDowNumbers
    StepNumbers <- MCStepNumbers
    NoStep = NoStep
    MaxTokens = 2
    Dates = {1, 2, 8, 31}
INVARIANTS
    SyncedExpressionsRun
CHECK_DEADLOCK FALSE
