CONSTANTS
    Exp <- MCExp
    Products <- ProductsA2
    OpNode <- SimplifiedOp
    SymbNode <- Node
    Symbols <- SymbolsIn
    MaskingMaskOcc <- MCMaskingMaskOcc
    OtherMaskOcc <- MCOtherMaskOcc
    Value <- ValueOf
    InputLists <- GadgetA2
    Calls <- GlitchCalls
    Ops = {"BXOR"}
    MaxElements = 6
    Secret = {"a"}
    Share = {"a0", "a1"}
    Mask = {"m0"}
    OrigSecret <- MCOrigSecret
    ShareNum <- MCShareNum
    NbShares = 2
    REM_SINGLE_INPUT_PROBES = TRUE
    REM_REDUNDANT_PROBES = FALSE
SPECIFICATION Spec

INVARIANT AllTuplesOfSizeOrderVerify
