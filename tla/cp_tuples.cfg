CONSTANTS
    Secret = {"k", "l"}
    Share = {"a0", "a1", "b0"}
    Mask = {"m0", "m1", "m2"}
    OrigSecret <- MCOrigSecret
    ShareNum <- MCShareNum
    NbShares = 2
    LogLanes = 2
    Symbols <- RecordedSymbols
    Value <- EvalNode
    Occ <- RecordedOcc
    CountIn <- RecordedCount
    Node <- MCNode
    Tuple <- MCTuple
    Height <- HeightOf
    NodesOf <- NodesOfTuple
    Replaced <- ReplacedGraph
    Simplified <- Simplify
    Queries <- MCQueries
    Tuples <- MCTuples
    WordWidth = 2
    WordSymbol = {"k", "m0", "m1"}
    SumNode <- MCSumNode
    SumTuple <- MCSumTuple
    WordValue <- WordAt
    PartialSum <- SumAt
    ReplacedSum <- ReplacedSumGraph
    SimplifiedSum <- SimplifySum
    SumTuples <- MCSumTuples
SPECIFICATION TuplesSpec
INVARIANT TypeOK
INVARIANT PositiveIsRight
INVARIANT NegativeIsRight
INVARIANT EnumerationExact
INVARIANT LoopEnds
INVARIANT AdditionalIndexesSuffice
INVARIANT SumVerdictExact
INVARIANT HarmlessExchangeKeepsDistribution
PROPERTY DistributionKept
PROPERTY ImplementsRound
