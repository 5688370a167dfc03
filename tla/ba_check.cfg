CONSTANTS
    Gadget <- MCGadget
    Order = {1, 2, 3}
SPECIFICATION Spec
\* The search ends.
CHECK_DEADLOCK FALSE
INVARIANT TypeOK
INVARIANT NoneForgotten
PROPERTY ImplementsTupleVerdict
PROPERTY Terminates
