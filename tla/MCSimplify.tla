------------------------------ MODULE MCSimplify ------------------------------
EXTENDS SimplifyProgram

Nodes == {Symb(s) : s \in Symbol}

Xor(S) == OpNode("BXOR", {Symb(s) : s \in S})
And(e, f) == OpNode("BAND", {e, f})

(* Symbols, a negation, and two-operand nodes of one operator.             *)
Literals == Nodes \cup {Not(Symb("a"))}
Xors == Literals \cup {Xor({"a", "b"}), Xor({"b", "c"})}

Program(opSet, combined, max) == [ops |-> opSet, operands |-> combined, maxOps |-> max]

(* Products with common factors, products that select with a, and the dual *)
(* sums.                                                                   *)
Products ==
    {And(Symb("a"), Symb("b")), And(Symb("a"), Symb("c")), And(Symb("b"), Symb("c")),
     And(Not(Symb("a")), Symb("b")), And(Not(Symb("a")), Symb("c")), OpNode("BAND", Nodes)}
Sums == {OpNode("BOR", e.args) : e \in Products}

(* Programs of a few operators, with which no rule goes wrong: over sums   *)
(* and literals, and over products of which several meet under one node.   *)
SmallPrograms ==
    {Program({"BXOR", "BAND"}, Xors, 3), Program({"BXOR", "BAND", "BOR"}, Literals, 4),
     Program({"BXOR"}, Products \cup {Symb("a"), Symb("b")}, 3),
     Program({"BOR"}, Products, 3), Program({"BAND"}, Sums, 3)}

(* Operands with which the rules for BAND and BOR go wrong.                *)
ThreeXor == {Program({"BOR"}, {OpNode("BOR", {Symb("a"), Symb("b")}), Xor({"a", "b", "c"})}, 1)}

(* Sums that share what is known of a third one.                           *)
OverlappingXors ==
    {Program({"BAND"}, {Xor({"a", "b"}), Xor({"b", "c"}), Xor({"a", "b", "c", "d"})}, 3)}

(* A sum that a rule makes equal to another operand.                       *)
BecomingEqual ==
    {Program({"BAND"}, {And(Not(Symb("a")), Symb("b")), And(Xor({"a", "b"}), Xor({"b", "c", "d"}))}, 3)}

(* A product of which the other operands refute every factor.              *)
AllImplied ==
    {Program({"BOR"}, {And(Not(Symb("a")), Symb("b")), Not(Symb("b")), Symb("a")}, 2)}

(* A product that two operands of a sum absorb.                            *)
AbsorbedTwice == {Program({"BOR"}, {And(Symb("a"), Symb("b")), OpNode("BOR", Nodes)}, 1)}
=============================================================================
