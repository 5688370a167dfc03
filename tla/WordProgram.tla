----------------------------- MODULE WordProgram -----------------------------
(***************************************************************************)
(* A program that adds and multiplies words, takes bits of the result, and *)
(* asks getDistribWithExev what they reveal.  With the default options     *)
(* (BIT_SIMPLIFY_PLUS off) getBitDecomposition leaves the sums as they     *)
(* are, on operands that are a Concat of bits.                             *)
(***************************************************************************)
EXTENDS FastEvaluation

CONSTANT Words      \* the words of the program: sequences of one-bit expressions
CONSTANT MaxOps     \* bound: how many sums and products it makes of them

VARIABLES exp, ops

vars == <<exp, ops>>

(* What an expression means (getExpValueRec and the operators on           *)
(* constants).                                                             *)
RECURSIVE EvalWord(_, _)
EvalWord(e, T) ==
    LET value(i) == EvalWord(e.opnds[i], T)
    IN  CASE e.op = "CONCAT"  -> FoldRight(LAMBDA c, v : EvalWord(c, T) + 2 ^ Width(c) * v, e.opnds, 0)
          [] e.op = "PLUS"    -> (value(1) + value(2)) % 2 ^ Width(e)
          [] e.op = "IMUL"    -> (value(1) * value(2)) % 2 ^ Width(e)
          [] e.op = "EXTRACT" -> (value(1) \div 2 ^ e.bits[2]) % 2 ^ Width(e)
          [] OTHER            -> Bit(Eval(e, T))

Init ==
    /\ exp \in {ConcatNode(w) : w \in Words}
    /\ ops = 0

(* Equal operands are left out: simplify rewrites their sum.               *)
Combine(op, w) ==
    /\ ops < MaxOps
    /\ Width(exp) = Len(w)
    /\ exp # ConcatNode(w)
    /\ exp' = WordNode(op, <<exp, ConcatNode(w)>>)
    /\ ops' = ops + 1

TakeBit(i) ==
    /\ Width(exp) > 1
    /\ exp' = ExtractNode(i, i, exp)
    /\ UNCHANGED ops

Next ==
    \/ \E op \in {"PLUS", "IMUL"}, w \in Words : Combine(op, w)
    \/ \E i \in 0 .. Width(exp) - 1 : TakeBit(i)

Spec == Init /\ [][Next]_vars

Distribution(K) ==
    [v \in 0 .. 2 ^ Width(exp) - 1 |-> Cardinality({M \in SUBSET Mask : EvalWord(exp, K \cup M) = v})]

(* README.md:297 on getDistribWithExev: the returned value is true iff the *)
(* expression is independent from the secret variables' values.            *)
TrueIffIndependent ==
    IsTPSWithExev(<<exp>>) <=> \A K \in SUBSET Secret : Distribution(K) = Distribution({})
=============================================================================
