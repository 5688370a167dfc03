----------------------------- MODULE FastCircuit -----------------------------
(***************************************************************************)
(* FastCircuit (src/src/concrev.cpp): expressions are compiled to a list   *)
(* of instructions on registers before they are evaluated for all values   *)
(* of their symbols.  An expression of one bit without word operations is  *)
(* evaluated for many values of the masks at once, one in each bit of a    *)
(* machine word (a lane); what is wider than a bit, as a tuple of          *)
(* expressions, one value after the other.                                 *)
(*                                                                         *)
(* getBitDecomposition leaves symbols of one bit, and words made of them   *)
(* with Concat.  Of the instructions on words, sums, products, negations   *)
(* and extractions are modelled; shifts, extensions, products in GF(256)   *)
(* and arrays are left out.                                                *)
(***************************************************************************)
EXTENDS Simplify

CONSTANT LogLanes       \* bound: lanes of a register, 6 for the 64 bits of the code

ASSUME LogLanesAssumption == LogLanes \in Nat

Lanes == 0 .. 2 ^ LogLanes - 1

-----------------------------------------------------------------------------
(* Words.  The operands of these nodes are in order: the first one of a    *)
(* Concat is the least significant.                                        *)

WordNode(op, s) == [op |-> op, opnds |-> s]
ExtractNode(msb, lsb, e) == [op |-> "EXTRACT", opnds |-> <<e>>, bits |-> <<msb, lsb>>]
ConcatNode(s) == IF Len(s) = 1 THEN s[1] ELSE WordNode("CONCAT", s)

IsWordNode(n) == n.op \in {"CONCAT", "PLUS", "IMUL", "UMINUS", "EXTRACT"}

RECURSIVE Width(_)
Width(n) ==
    IF n.op = "CONCAT" THEN FoldLeft(LAMBDA w, c : w + Width(c), 0, n.opnds)
    ELSE IF n.op = "EXTRACT" THEN n.bits[1] - n.bits[2] + 1
    ELSE IF IsWordNode(n) THEN Width(n.opnds[1])
    ELSE 1

-----------------------------------------------------------------------------
(* Compilation.  The operands of a node come before it, those of bitwise   *)
(* operators in the order of their hashes; a node that occurs several      *)
(* times has one register.                                                 *)

Children(n) == IF IsWordNode(n) THEN n.opnds ELSE IF IsOp(n) THEN SetToSeq(n.args) ELSE <<>>

Instr(fc, n) ==
    [op      |-> IF n.op = "SYMB" THEN "VAR" ELSE n.op,
     outReg  |-> Len(fc.code) + 1,
     multiIn |-> [i \in DOMAIN Children(n) |-> fc.node2reg[Children(n)[i]]],
     childWidths |-> [i \in DOMAIN Children(n) |-> Width(Children(n)[i])],
     width   |-> Width(n),
     cst     |-> n.op = "CONST" /\ n.cst,
     bits    |-> IF n.op = "EXTRACT" THEN n.bits ELSE <<>>]

RECURSIVE CompileNode(_, _)
CompileNode(fc, n) ==
    IF n \in DOMAIN fc.node2reg THEN fc
    ELSE LET below == FoldLeft(CompileNode, fc, Children(n))
         IN  [code |-> Append(below.code, Instr(below, n)),
              node2reg |-> below.node2reg @@ (n :> Len(below.code) + 1)]

(* A tuple is compiled as the Concat of its expressions.                   *)
Compile(s) == CompileNode([code |-> <<>>, node2reg |-> <<>>], ConcatNode(s))

(* The registers of those of the symbols of V that occur.                  *)
VarRegs(fc, V) == {fc.node2reg[Symb(v)] : v \in {v \in V : Symb(v) \in DOMAIN fc.node2reg}}

(* isBitsliceable: one bit, and bitwise operators only.                    *)
IsBitsliceable(fc) ==
    /\ Last(fc.code).width = 1
    /\ \A i \in DOMAIN fc.code : fc.code[i].op \in {"VAR", "CONST", "BXOR", "BAND", "BOR", "BNOT"}

-----------------------------------------------------------------------------
(* Evaluation: regs holds the values of the symbols and is filled          *)
(* instruction by instruction.                                             *)

Bit(b) == IF b THEN 1 ELSE 0

Scalar(regs, instr) ==
    LET in == [i \in DOMAIN instr.multiIn |-> regs[instr.multiIn[i]]]
    IN  CASE instr.op = "VAR"    -> regs[instr.outReg]
          [] instr.op = "CONST"  -> Bit(instr.cst)
          [] instr.op = "BXOR"   -> FoldLeft(LAMBDA val, x : (val + x) % 2, 0, in)
          [] instr.op = "BAND"   -> Bit(\A i \in DOMAIN in : in[i] = 1)
          [] instr.op = "BOR"    -> Bit(\E i \in DOMAIN in : in[i] = 1)
          [] instr.op = "BNOT"   -> 1 - in[1]
          [] instr.op = "PLUS"   -> FoldLeft(LAMBDA sum, x : sum + x, 0, in) % 2 ^ instr.width
          [] instr.op = "IMUL"   -> FoldLeft(LAMBDA prod, x : prod * x, 1, in) % 2 ^ instr.width
          [] instr.op = "UMINUS" -> (-in[1]) % 2 ^ instr.width
          [] instr.op = "EXTRACT" -> (in[1] \div 2 ^ instr.bits[2]) % 2 ^ instr.width
          [] instr.op = "CONCAT" ->
               FoldLeft(LAMBDA val, i : val * 2 ^ instr.childWidths[i] + in[i], 0, [i \in DOMAIN in |-> i])

(* A register holds the set of the lanes that are 1.                       *)
Bitsliced(regs, instr) ==
    LET in == [i \in DOMAIN instr.multiIn |-> regs[instr.multiIn[i]]]
    IN  CASE instr.op = "VAR"   -> regs[instr.outReg]
          [] instr.op = "CONST" -> IF instr.cst THEN Lanes ELSE {}
          [] instr.op = "BXOR"  -> FoldLeft(LAMBDA v, x : (v \ x) \cup (x \ v), {}, in)
          [] instr.op = "BAND"  -> FoldLeft(LAMBDA v, x : v \cap x, Lanes, in)
          [] instr.op = "BOR"   -> FoldLeft(LAMBDA v, x : v \cup x, {}, in)
          [] instr.op = "BNOT"  -> Lanes \ in[1]

EvalScalar(fc, regs) ==
    Last(FoldLeft(LAMBDA r, instr : [r EXCEPT ![instr.outReg] = Scalar(r, instr)], regs, fc.code))

EvalBitsliced(fc, regs) ==
    Last(FoldLeft(LAMBDA r, instr : [r EXCEPT ![instr.outReg] = Bitsliced(r, instr)], regs, fc.code))

-----------------------------------------------------------------------------
(* fastGetDistrib: how often each value comes when the registers of K     *)
(* hold 1 and those of the masks, maskRegs, take all their values.         *)

Regs(fc, zero, one, K, maskRegs, maskValues) ==
    [r \in DOMAIN fc.code |->
        IF r \in K THEN one
        ELSE IF r \in ToSet(maskRegs) THEN maskValues[CHOOSE i \in DOMAIN maskRegs : maskRegs[i] = r]
        ELSE zero]

BitOf(v, i) == (v \div 2 ^ i) % 2

(* The lanes in which mask i, counted from 0, is set.                      *)
Pattern(i) == {lane \in Lanes : BitOf(lane, i) = 1}

(* Up to LogLanes masks, the first lanes have all their values.            *)
ActiveLanes(n) == IF n <= LogLanes THEN 0 .. 2 ^ n - 1 ELSE Lanes

(* Mutant: what comes out of the other lanes is counted as well.           *)
OnesUnmasked(out, active) == Cardinality(out)

Ones(out, active) == Cardinality(out \cap active)

(* The masks beyond LogLanes are the same in all lanes of a block.         *)
Blocks(n) == IF n <= LogLanes THEN {0} ELSE 0 .. 2 ^ (n - LogLanes) - 1

MaskLanes(i, block, active) ==
    IF i < LogLanes THEN Pattern(i) \cap active
    ELSE IF BitOf(block, i - LogLanes) = 1 THEN Lanes ELSE {}

BitslicedDistrib(fc, K, maskRegs) ==
    LET n == Len(maskRegs)
        active == ActiveLanes(n)
        regs(block) == Regs(fc, {}, Lanes, K, maskRegs, [i \in DOMAIN maskRegs |-> MaskLanes(i - 1, block, active)])
        ones == MapThenSumSet(LAMBDA block : Ones(EvalBitsliced(fc, regs(block)), active), Blocks(n))
    IN  <<2 ^ n - ones, ones>>

ScalarDistrib(fc, K, maskRegs) ==
    LET values == 0 .. 2 ^ Len(maskRegs) - 1
        regs(v) == Regs(fc, 0, 1, K, maskRegs, [i \in DOMAIN maskRegs |-> BitOf(v, i - 1)])
        out == [v \in values |-> EvalScalar(fc, regs(v))]
        outWidth == Last(fc.code).width
    IN  [o \in 1 .. 2 ^ outWidth |-> Cardinality({v \in values : out[v] = o - 1})]

FastGetDistrib(fc, K, maskRegs) ==
    IF IsBitsliceable(fc) THEN BitslicedDistrib(fc, K, maskRegs) ELSE ScalarDistrib(fc, K, maskRegs)

-----------------------------------------------------------------------------
(* compareExpsWithExev: the values of the symbols for which the two        *)
(* expressions differ are put in res, and they are the same when res is    *)
(* empty: as it always is when there is no symbol.                         *)

ValueAt(fc, T) == EvalScalar(fc, Regs(fc, 0, 1, VarRegs(fc, T), <<>>, <<>>))

(* Mutant: the symbols of the first expression are enumerated only.        *)
CompareExpsOneSided(e0, e1) ==
    LET fc0 == Compile(<<e0>>)
        fc1 == Compile(<<e1>>)
    IN  \A T \in SUBSET SymbolsOf(e0) : ValueAt(fc0, T) = ValueAt(fc1, T)

CompareExpsWithExev(e0, e1) ==
    LET fc0 == Compile(<<e0>>)
        fc1 == Compile(<<e1>>)
        allVars == SymbolsOf(e0) \cup SymbolsOf(e1)
    IN  allVars # {} => \A T \in SUBSET allVars : ValueAt(fc0, T) = ValueAt(fc1, T)
=============================================================================
