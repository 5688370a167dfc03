CONSTANTS
    Index = {0, 1, 2}
    Tuple <- MCTuple
    Needed <- MCNeeded
    Occurring <- MCOccurring
    MaxAllowed = 3
    Exp <- MCExp
    HasWordOp <- MCHasWordOp
    SubExps <- MCSubExps
    Function = {"Val", "ValBit", "Trans"}
    ProbeTuple <- MCProbeTuple
    BitExpEnable = TRUE
SPECIFICATION FairWrapperSpec
\* A program that calls checkSecurity is done when it returns.
CHECK_DEADLOCK FALSE
INVARIANT TypeOK
INVARIANT WrapperTypeOK
INVARIANT PositiveIsRight
INVARIANT VerdictExact
 
INVARIANT NoIsRight
PROPERTY CallsReturn
