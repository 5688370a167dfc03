------------------------------ MODULE WordTuples ------------------------------
(***************************************************************************)
(* The tuples of sums that checkProperty works on, with simplify, the      *)
(* replaced graph, the occurrences of masks and the enumeration as they    *)
(* are computed.  simplify merges sums of sums, cancels x with -x, and     *)
(* leaves negations of sums as they are.                                   *)
(***************************************************************************)
EXTENDS SumProperty, MaskOccurrences, Bags

RECURSIVE WordAt(_, _)
WordAt(e, v) ==
    CASE e.op = "SYMB"   -> v[e.symb]
      [] e.op = "CONST"  -> 0
      [] e.op = "UMINUS" -> (-WordAt(TheOperand(e), v)) % WordCount
      [] e.op = "PLUS"   ->
           MapThenSumSet(LAMBDA c : CopiesIn(c, e.args) * WordAt(c, v), Operands(e)) % WordCount

RECURSIVE SumAt(_, _, _)
SumAt(n, P, v) ==
    IF P = {} THEN 0 ELSE LET p == CHOOSE p \in P : TRUE IN Plus(WordAt(p[1], v), SumAt(n, P \ {p}, v))

(* getReplacedGraphRec.                                                    *)
RECURSIVE ReplacedSumGraph(_, _, _)
ReplacedSumGraph(e, m, ctr) ==
    ReplacedSumOf(e, m, ctr, [c \in Operands(e) |-> ReplacedSumGraph(c, m, ctr)])

-----------------------------------------------------------------------------
(* simplify.                                                               *)

Negated(e) == IF e.op = "UMINUS" THEN TheOperand(e) ELSE IF e = Zero THEN Zero ELSE Neg(e)

(* How often x is an operand once sums of sums are merged.                 *)
Times(x, b) ==
    (IF x.op = "PLUS" THEN 0 ELSE CopiesIn(x, b))
    + MapThenSumSet(LAMBDA c : CopiesIn(c, b) * CopiesIn(x, c.args), {c \in DOMAIN b : c.op = "PLUS"})

Left(x, b) == Times(x, b) - Times(Negated(x), b)

SumOf(b) ==
    LET operands == UNION {IF c.op = "PLUS" THEN Operands(c) ELSE {c} : c \in DOMAIN b} \ {Zero}
        left == [x \in {x \in operands : Left(x, b) > 0} |-> Left(x, b)]
    IN  CASE left = EmptyBag -> Zero
          [] BagCardinality(left) = 1 -> CHOOSE x \in DOMAIN left : TRUE
          [] OTHER -> Sum(left)

RECURSIVE SimplifySum(_)
SimplifySum(e) ==
    CASE e.op = "UMINUS" -> Negated(SimplifySum(TheOperand(e)))
      [] e.op = "PLUS"   -> SumOf(BagOfAll(SimplifySum, e.args))
      [] OTHER           -> e
=============================================================================
