CONSTANTS
    Exp <- MCExp
    Products <- ProductsA3
    OpNode <- SimplifiedOp
    SymbNode <- Node
    Symbols <- SymbolsIn
    MaskingMaskOcc <- MCMaskingMaskOcc
    OtherMaskOcc <- MCOtherMaskOcc
    Value <- ValueOf
    InputLists <- GadgetA3
    Calls <- Order2Calls
    Ops = {"BXOR"}
    MaxElements = 7
    Secret = {"a"}
    Share = {"a0", "a1", "a2"}
    Mask = {"m0"}
    OrigSecret <- MCOrigSecret
    ShareNum <- MCShareNum
    NbShares = 3
    REM_SINGLE_INPUT_PROBES = TRUE
    REM_REDUNDANT_PROBES = FALSE
SPECIFICATION OptionsSpec
INVARIANT DefaultExact
INVARIANT DefaultExactPINI
INVARIANT DefaultExactWithGlitches
INVARIANT FullTuplesExact
