CONSTANTS
    Symbol = {"a", "b", "c"}
    LogLanes = 1
    Programs <- SmallPrograms
    LimbWidth = 3
    Widths = {1, 2, 3, 4, 5, 6, 7, 8}
    Ops <- MCOps
SPECIFICATION ValuesSpec
\* A program stops after its last operator.
CHECK_DEADLOCK FALSE
INVARIANT ValuePreserved
INVARIANT ValueKept
INVARIANT ComparisonExact
