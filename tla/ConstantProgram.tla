---------------------------- MODULE ConstantProgram ----------------------------
(***************************************************************************)
(* A program that evaluates an expression, operation by operation, with a  *)
(* constant for each of its symbols (getExpValue and the folding of        *)
(* constants when nodes are built).                                        *)
(***************************************************************************)
EXTENDS Constants

CONSTANTS
    Widths,             \* bound: the widths the program uses
    Ops(_)              \* the operations it uses at a width

ASSUME WidthsAssumption == Widths \subseteq Nat \ {0}

VARIABLES
    c,                  \* the constant the program has got to
    number             \* history: the number it should be

constantVars == <<c, number>>

(* The limbs of a number.                                                  *)
Of(v, width) == Constant(width, [i \in Indexes(width) |-> (v \div Base ^ i) % Base])

Value(x) == FoldFunctionOnSet(+, 0, [i \in Indexes(x.width) |-> x.cst[i] * Base ^ i], Indexes(x.width))

Numbers(width) == 0 .. 2 ^ width - 1

Signed(v, width) == IF 2 * v >= 2 ^ width THEN v - 2 ^ width ELSE v

ConstantInit == \E width \in Widths : \E v \in Numbers(width) : c = Of(v, width) /\ number = v

Becomes(op, constant, v) ==
    /\ op \in Ops(c.width)
    /\ c' = constant
    /\ number' = v % 2 ^ constant.width

Arithmetic ==
    \/ \E v \in Numbers(c.width) : Becomes("PLUS", Plus(c, Of(v, c.width)), number + v)
    \/ \E v \in Numbers(c.width) : Becomes("MINUS", Minus(c, Of(v, c.width)), number - v)
    \/ Becomes("UMINUS", UMinus(c), -number)
    \/ Becomes("BNOT", BNot(c), -number - 1)

Shift ==
    \E shval \in 0 .. c.width :
        \/ Becomes("LSHL", LShL(c, shval), number * 2 ^ shval)
        \/ Becomes("LSHR", LShR(c, shval), number \div 2 ^ shval)
        \/ Becomes("ASHR", AShR(c, shval), Signed(number, c.width) \div 2 ^ shval)

ShiftAround ==
    \E shval \in 1 .. c.width - 1 :
        Becomes("ROR", RotateRight(c, shval), number \div 2 ^ shval + number * 2 ^ (c.width - shval))

Cut == \E lsb \in 0 .. c.width - 1 : \E msb \in lsb .. c.width - 1 :
    Becomes("EXTRACT", Extract(msb, lsb, c), number \div 2 ^ lsb)

Widen ==
    \E bits \in {w - c.width : w \in {w \in Widths : w > c.width}} :
        \/ Becomes("ZEXT", ZeroExt(bits, c), number)
        \/ Becomes("SEXT", SignExt(bits, c), Signed(number, c.width))
        \/ \E v \in Numbers(bits) :
                Becomes("CONCAT", Concat(c, Of(v, bits)), number + v * 2 ^ c.width)

ConstantNext == Arithmetic \/ Shift \/ ShiftAround \/ Cut \/ Widen

ConstantSpec == ConstantInit /\ [][ConstantNext]_constantVars

-----------------------------------------------------------------------------
(* Every operation gives the number it should, of the width it should      *)
(* have, with nothing left above this width: whatever limbs the operands   *)
(* and the bits in question straddle.                                      *)
ValueKept ==
    /\ Value(c) = number
    /\ c.cst \in [Indexes(c.width) -> Limb]
=============================================================================
