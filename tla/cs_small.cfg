CONSTANTS
    Exp <- MCExp
    Products <- ProductsAB
    OpNode <- SimplifiedOp
    SymbNode <- Node
    Symbols <- SymbolsIn
    MaskingMaskOcc <- MCMaskingMaskOcc
    OtherMaskOcc <- MCOtherMaskOcc
    Value <- ValueOf
    InputLists <- SmallGadgets
    Calls <- SmallCalls
    Ops = {"BXOR", "BAND"}
    MaxElements = 7
    Secret = {"a", "b"}
    Share = {"a0", "a1", "b0", "b1"}
    Mask = {"m0"}
    OrigSecret <- MCOrigSecret
    ShareNum <- MCShareNum
    NbShares = 2
    REM_SINGLE_INPUT_PROBES = TRUE
    REM_REDUNDANT_PROBES = FALSE
SPECIFICATION Spec
\* The program exits when the property does not go with its symbols.
CHECK_DEADLOCK FALSE
INVARIANT TypeOK
INVARIANT IncludedProbesCovered
INVARIANT VerdictExact
INVARIANT VerdictExactPINI
INVARIANT VerdictExactTPS
INVARIANT VerdictExactWithGlitches
