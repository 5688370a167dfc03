------------------------------ MODULE Simplify ------------------------------
(***************************************************************************)
(* simplify (src/src/simplify.cpp) on expressions one bit wide: symbols,   *)
(* constants and the operators BXOR, BAND, BOR and BNOT.  A node keeps its *)
(* operands in the order of their hashes, and the rules meet them in this  *)
(* order: here a node, whether it was there or is built by a rule, hands   *)
(* over its operands in any order, so that Simplify(e), a set, holds every *)
(* node that simplify can return for e (and, where two nodes are ordered   *)
(* against one another in two places, nodes that only two different orders *)
(* lead to).                                                               *)
(*                                                                         *)
(* A node with equal operands (the last rule for BXOR can leave such a     *)
(* node) is represented without them: cancelled in BXOR, merged in BAND    *)
(* and BOR.  The options are those of config.hpp: EXTENDED_SIMPLIFY on.    *)
(***************************************************************************)
EXTENDS Nodes, Integers, FiniteSets, SequencesExt

Operand(e) == CHOOSE x \in e.args : TRUE        \* the operand of a BNOT

(* What an expression means (getExpValueRec): its value when exactly the   *)
(* symbols of T are set.                                                   *)
RECURSIVE Eval(_, _)
Eval(e, T) ==
    CASE e.op = "SYMB"  -> e.symb \in T
      [] e.op = "CONST" -> e.cst
      [] e.op = "BNOT"  -> ~Eval(Operand(e), T)
      [] e.op = "BAND"  -> \A x \in e.args : Eval(x, T)
      [] e.op = "BOR"   -> \E x \in e.args : Eval(x, T)
      [] e.op = "BXOR"  -> Cardinality({x \in e.args : Eval(x, T)}) % 2 = 1

RECURSIVE SymbolsOf(_)
SymbolsOf(e) ==
    CASE e.op = "SYMB" -> {e.symb}
      [] e.op = "CONST" -> {}
      [] IsOp(e) -> UNION {SymbolsOf(x) : x \in e.args}

-----------------------------------------------------------------------------
(* Building nodes.                                                         *)

(* The operator ~ folds constants when it builds a node, and nothing else. *)
Not(e) == IF e.op = "CONST" THEN Const(~e.cst) ELSE OpNode("BNOT", {e})

Occurrences(s, x) == {i \in DOMAIN s : s[i] = x}

(* The operands that are left when equal ones cancel.                      *)
Uncancelled(s) == {x \in ToSet(s) : Cardinality(Occurrences(s, x)) % 2 = 1}

NodeOf(op, s) == OpNode(op, IF op = "BXOR" THEN Uncancelled(s) ELSE ToSet(s))

Neutral(op) == Const(op = "BAND")
Absorbing(op) == Const(op = "BOR")
Dual(op) == IF op = "BAND" THEN "BOR" ELSE "BAND"

(* The node of op, or the only operand.                                    *)
Collapsed(op, es) == IF Cardinality(es) = 1 THEN CHOOSE x \in es : TRUE ELSE OpNode(op, es)

(* The operands of a node in every order.                                  *)
Orderings(es) == {s \in [1 .. Cardinality(es) -> es] : IsInjective(s)}

(* Every way to take one element of each set of a sequence of sets.        *)
OneOfEach(sets) == {s \in [DOMAIN sets -> UNION ToSet(sets)] : \A i \in DOMAIN sets : s[i] \in sets[i]}

(* mergeWithChildrenIfPossible: (a op b) op c -> a op b op c               *)
Mergings(op, s) ==
    {FlattenSeq(t) : t \in OneOfEach([i \in DOMAIN s |->
                               IF s[i].op = op THEN Orderings(s[i].args) ELSE {<<s[i]>>}])}

RECURSIVE SimplifiedOp(_, _), Factorized(_, _, _)

-----------------------------------------------------------------------------
(* factorize: a & b ^ a & c -> a & (b ^ c), and likewise for the other     *)
(* pairs of operators; a | a & b -> a, except under BXOR.                  *)

WithoutFactor(e, f) == Collapsed(e.op, e.args \ {f})

Without(s, I) ==
    LET kept == SelectSeq([i \in DOMAIN s |-> i], LAMBDA i : i \notin I)
    IN  [n \in DOMAIN kept |-> s[kept[n]]]

(* Operands of a simplified node are simplified: only the product that is  *)
(* left of three factors or more is a new node.                            *)
RestOf(e, f) ==
    LET rest == e.args \ {f}
    IN  IF Cardinality(rest) = 1 THEN rest ELSE SimplifiedOp(e.op, SetToSeq(rest))

(* Products i (which is, or was, mul) and j make way for f times the rest. *)
(* (mutant: the rests are added up by ^ whatever the operator is.)         *)
FactoredOutByXor(addOp, mul, s, i, j, f) ==
    UNION {UNION {{Append(Without(s, {i, j}), p) : p \in SimplifiedOp(mul.op, <<f, sum>>)}
                  : sum \in SimplifiedOp("BXOR", rests)}
           : rests \in RestOf(mul, f) \X RestOf(s[j], f)}

FactoredOut(addOp, mul, s, i, j, f) ==
    UNION {UNION {{Append(Without(s, {i, j}), p) : p \in SimplifiedOp(mul.op, <<f, sum>>)}
                  : sum \in SimplifiedOp(addOp, rests)}
           : rests \in RestOf(mul, f) \X RestOf(s[j], f)}

(* Operand i, the product mul, is compared with the operands from j on.    *)
(* One that absorbs it erases operand i, and the comparison goes on, still *)
(* with mul and with place i: another one erases whatever is there now     *)
(* (erased: from then on only the first factor of mul, which may be any of *)
(* them, is looked for in a product).  When there is nothing at place i,   *)
(* the erasure writes outside of the vector, and the call does not return. *)
RECURSIVE Compared(_, _, _, _, _, _)
Compared(addOp, mul, s, i, j, erased) ==
    LET onward == Compared(addOp, mul, s, i, j + 1, erased)
        common == mul.args \cap s[j].args
    IN  IF j > Len(s) THEN {s}
        ELSE IF j = i THEN onward
        ELSE IF s[j].op = mul.op
        THEN (IF common = {} \/ (erased /\ common # mul.args) THEN onward ELSE {})
             \cup (IF i > Len(s) THEN {}
                   ELSE UNION {FactoredOut(addOp, mul, s, i, j, f) : f \in common})
        ELSE IF addOp = "BXOR" \/ s[j] \notin mul.args THEN onward
        ELSE IF i > Len(s) THEN {}
        ELSE Compared(addOp, mul, Without(s, {i}), i, j + 1, TRUE)

(* The products that another operand absorbs or shares a factor with.      *)
Reducible(mulOp, addOp, s) ==
    {i \in DOMAIN s : /\ s[i].op = mulOp
                      /\ \E j \in (DOMAIN s) \ {i} :
                            IF s[j].op = mulOp THEN s[i].args \cap s[j].args # {}
                            ELSE addOp # "BXOR" /\ s[j] \in s[i].args}

Factorized(mulOp, addOp, s) ==
    LET reducible == Reducible(mulOp, addOp, s)
        i == Min(reducible)
    IN  IF reducible = {} THEN {s}
        ELSE UNION {Factorized(mulOp, addOp, t) : t \in Compared(addOp, s[i], s, i, 1, FALSE)}

-----------------------------------------------------------------------------
(* BXOR: negations are moved out, nested BXOR merged, equal operands and   *)
(* constants removed, products factorized as long as something changes.    *)

(* (~p & x) ^ (p & y) -> x ^ (p & (x ^ y)), x a symbol or a BXOR: the     *)
(* operands i2 that select with operand i1.                                *)
Selectors(s, i1) ==
    {t \in ((DOMAIN s) \ {i1}) \X s[i1].args :
        /\ t[2].op = "BNOT"
        /\ IsOp(s[t[1]]) /\ Operand(t[2]) \in s[t[1]].args
        /\ \A i \in {i1, t[1]} : s[i].op = "BAND" /\ Cardinality(s[i].args) = 2
        /\ WithoutFactor(s[i1], t[2]).op \in {"BXOR", "SYMB"}}

RECURSIVE WithSelections(_, _)
WithSelections(s, i1) ==
    IF i1 > Len(s) THEN {s}
    ELSE IF ~IsOp(s[i1]) \/ Selectors(s, i1) = {} THEN WithSelections(s, i1 + 1)
    ELSE UNION {LET p == Operand(t[2])
                    x == WithoutFactor(s[i1], t[2])
                    sums == SimplifiedOp("BXOR", <<x, WithoutFactor(s[t[1]], p)>>)
                    products == UNION {SimplifiedOp("BAND", <<sum, p>>) : sum \in sums}
                IN  UNION {WithSelections([s EXCEPT ![i1] = x, ![t[1]] = q], i1 + 1) : q \in products}
                : t \in Selectors(s, i1)}

XorOf(es, negated) ==
    LET node == IF es = {} THEN Const(FALSE) ELSE Collapsed("BXOR", es)
    IN  IF negated THEN Not(node) ELSE node

(* The order of the operands matters to the rules for products only.       *)
NothingToFactorize(es) ==
    LET s == SetToSeq(es)
    IN  /\ Reducible("BAND", "BXOR", s) = {}
        /\ \A i \in DOMAIN s : IsOp(s[i]) => Selectors(s, i) = {}

RECURSIVE XorRound(_, _)
XorRound(s, negated) ==
    LET left == Uncancelled(s)
        variable == {x \in left : x.op # "CONST"}
        negatedNow == negated # (Const(TRUE) \in left)
        Round(s1, f) == UNION {IF f # s1 THEN XorRound(w, negatedNow)
                               ELSE {XorOf(Uncancelled(w), negatedNow)} : w \in WithSelections(f, 1)}
    IN  IF NothingToFactorize(variable) THEN {XorOf(variable, negatedNow)}
        ELSE UNION {UNION {Round(s1, f) : f \in Factorized("BAND", "BXOR", s1)}
                    : s1 \in Orderings(variable)}

SimplifyXor(s) ==
    LET unnegated == [i \in DOMAIN s |-> IF s[i].op = "BNOT" THEN Operand(s[i]) ELSE s[i]]
        negated == Cardinality({i \in DOMAIN s : s[i].op = "BNOT"}) % 2 = 1
    IN  XorRound(CHOOSE t \in Mergings("BXOR", unnegated) : TRUE, negated)

-----------------------------------------------------------------------------
(* BAND and BOR (op; the other one is op1).                                *)

RECURSIVE WithoutDuplicates(_)
WithoutDuplicates(s) ==
    IF s = <<>> THEN <<>>
    ELSE <<Head(s)>> \o WithoutDuplicates(SelectSeq(Tail(s), LAMBDA x : x # Head(s)))

HasComplement(s) == \E i, j \in DOMAIN s : s[i].op = "BNOT" /\ Operand(s[i]) = s[j]

Stripped(e) == IF e.op = "BNOT" THEN Operand(e) ELSE e

(* a & (a ^ b) -> a & ~b, and so on: whatever the other operands say of a  *)
(* part of the BXOR x (or of its negation) that is operand i, this part is *)
(* left out of it, in the order of the operands, and x is negated as many  *)
(* times as a part was 1.                                                  *)
XorParts(x, e) ==
    IF e.op = "BXOR" THEN IF e.args \subseteq x.args THEN e.args ELSE {}
    ELSE {e} \cap x.args

KnownParts(op, s, i) ==
    LET x == Stripped(s[i])
        others == Without(s, {i})
        known[k \in 0 .. Len(others)] ==
            IF k = 0 THEN [parts |-> {}, negated |-> (op = "BOR") # (s[i].op = "BNOT")]
            ELSE LET before == known[k - 1]
                     parts == XorParts(x, Stripped(others[k]))
                 IN  IF parts = {} \/ Cardinality(before.parts) = Cardinality(x.args) - 1
                     THEN before
                     ELSE [parts |-> before.parts \cup parts,
                           negated |-> before.negated # (others[k].op # "BNOT")]
    IN  known[Len(others)]

KnownPartsRemoved(op, s, i) ==
    LET known == KnownParts(op, s, i)
    IN  IF Stripped(s[i]).op # "BXOR" \/ known.parts = {} THEN {s}
        ELSE Mergings(op, [s EXCEPT ![i] =
                              XorOf(Stripped(s[i]).args \ known.parts, known.negated)])

(* a | (~a & b) -> a | b: an operand of operand i whose negation is        *)
(* another operand says nothing more.  A negated node of op stands for all *)
(* its operands.                                                           *)
(* (mutant: the sign of a plain operand is forgotten.)                     *)
ImpliedUnsigned(op, others, e) ==
    \/ e.op = "BNOT" /\ Operand(e).op = op /\ Operand(e).args \subseteq others
    \/ e.op = "BNOT" /\ Operand(e).op # op /\ Operand(e) \in others
    \/ e.op # "BNOT" /\ e \in others

Implied(op, others, e) ==
    \/ e.op = "BNOT" /\ Operand(e).op = op /\ Operand(e).args \subseteq others
    \/ e.op = "BNOT" /\ Operand(e).op # op /\ Operand(e) \in others
    \/ e.op # "BNOT" /\ OpNode("BNOT", {e}) \in others

ImpliedRemoved(op, s, i) ==
    LET implied == {e \in s[i].args : Implied(op, ToSet(Without(s, {i})), e)}
        left == s[i].args \ implied
    IN  IF s[i].op # Dual(op) \/ implied = {} THEN {s}
        ELSE Mergings(op, [s EXCEPT ![i] =
                              IF left = {} THEN Neutral(op) ELSE Collapsed(Dual(op), left)])

RECURSIVE KnownPartsPass(_, _, _), ImpliedPass(_, _, _)
KnownPartsPass(op, s, i) ==
    IF i > Len(s) THEN {s}
    ELSE UNION {KnownPartsPass(op, t, i + 1) : t \in KnownPartsRemoved(op, s, i)}

ImpliedPass(op, s, i) ==
    IF i > Len(s) THEN {s}
    ELSE UNION {ImpliedPass(op, t, i + 1) : t \in ImpliedRemoved(op, s, i)}

(* The operands after the rules above, until none of them changes any:     *)
(* the absorbing constant alone when two of them are opposite.             *)
RECURSIVE BoolLoop(_, _)
BoolLoop(op, s) ==
    LET distinct == WithoutDuplicates(s)
        Changed == UNION {ImpliedPass(op, t, 1) : t \in KnownPartsPass(op, distinct, 1)}
    IN  IF HasComplement(distinct) THEN {<<Absorbing(op)>>}
        ELSE UNION {IF t = distinct THEN {distinct} ELSE BoolLoop(op, t) : t \in Changed}

SimplifiedNot(e) ==
    IF e.op = "BNOT" THEN Operand(e) ELSE Not(e)

(* De Morgan, when every operand is a negation.                            *)
BoolOf(op, es) ==
    IF es = {} THEN {Neutral(op)}
    ELSE IF Cardinality(es) > 1 /\ \A x \in es : x.op = "BNOT"
    THEN {SimplifiedNot(d) :
             d \in SimplifiedOp(Dual(op), SetToSeq({Operand(x) : x \in es}))}
    ELSE {Collapsed(op, es)}

SimplifyBool(op, s) ==
    UNION {LET variable == SelectSeq(looped, LAMBDA x : x.op # "CONST")
           IN  IF Absorbing(op) \in ToSet(looped) THEN {Absorbing(op)}
               ELSE UNION {BoolOf(op, ToSet(f)) : f \in Factorized(Dual(op), op, variable)}
           : looped \in BoolLoop(op, s)}

-----------------------------------------------------------------------------
(* simplifyCore: the operands first (Simplify), then the node of them in   *)
(* any order.  XorRound takes every order of the operands itself.          *)
SimplifiedNode(op, r) ==
    CASE op = "BXOR" -> SimplifyXor(r)
      [] op \in {"BAND", "BOR"} -> UNION {SimplifyBool(op, t) : t \in Mergings(op, r)}
      [] op = "BNOT" -> {SimplifiedNot(r[1])}

InOrders(op, s) ==
    IF op = "BXOR" THEN {s} ELSE {[i \in DOMAIN s |-> s[p[i]]] : p \in Orderings(DOMAIN s)}

(* A node of simplified operands, some maybe equal: what is left of a node *)
(* or what a rule builds.                                                  *)
SimplifiedOp(op, s) == UNION {SimplifiedNode(op, t) : t \in InOrders(op, s)}

RECURSIVE Simplify(_)
Simplify(e) ==
    IF ~IsOp(e) THEN {e}
    ELSE LET operands == SetToSeq(e.args)
             simplified == [i \in DOMAIN operands |-> Simplify(operands[i])]
         IN  UNION {SimplifiedOp(e.op, r) : r \in OneOfEach(simplified)}
=============================================================================
