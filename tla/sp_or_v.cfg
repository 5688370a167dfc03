CONSTANTS
    Symbol = {"a", "b", "c"}
    LogLanes = 1
    Programs <- ThreeXor
SPECIFICATION Spec
INVARIANT ValuePreserved
CHECK_DEADLOCK FALSE
