CONSTANTS
    Secret = {"k"}
    Share = {}
    Mask = {"m"}
    OrigSecret <- MCOrigSecret
    ShareNum <- MCShareNum
    NbShares = 1
    Symbols <- SymbolsOf
    LogLanes = 2
    Words <- MCWords
    MaxOps = 1
SPECIFICATION Spec
INVARIANT TrueIffIndependent
