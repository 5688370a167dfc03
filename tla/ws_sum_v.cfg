CONSTANTS
    Secret = {"k"}
    Share = {}
    Mask = {"m0", "m1"}
    OrigSecret <- SumOrigSecret
    ShareNum <- SumShareNum
    NbShares = 1
    Symbols <- RecordedSymbols
    Height <- HeightOf
    NodesOf <- NodesOfTuple
    Occ <- RecordedOcc
    CountIn <- RecordedCount
    WordWidth = 2
    WordSymbol = {"k", "m0", "m1"}
    SumNode <- MCSumNode
    SumTuple <- MCSumTuple
    WordValue <- WordAt
    PartialSum <- SumAt
    ReplacedSum <- ReplacedSumGraph
    SimplifiedSum <- SimplifySum
    SumTuples <- MCSumTuples
SPECIFICATION SumSpec
INVARIANT SumPositiveIsRight
