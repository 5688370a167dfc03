CONSTANTS
    MaxNodes = 6
    Symbol = {"w"}
    WideSymbol = {"w"}
    BitIndex = {0}
    BitOf <- MCBitOf
    OpExp = {"x0", "c", "nw", "nc"}
    Operands <- MCOperands
    ExtractOf <- MCExtractOf
    ConcatOf <- MCConcatOf
    WideIn <- MCWideIn
    Equal <- MCEqual
    Calls <- AllCalls
SPECIFICATION Spec
INVARIANT NoDangling
