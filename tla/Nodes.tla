------------------------------- MODULE Nodes -------------------------------
(***************************************************************************)
(* The nodes of expressions one bit wide (src/include/node.hpp): symbols,  *)
(* constants and the operators BXOR, BAND, BOR and BNOT.  Nodes are hash   *)
(* consed, so that equivalent operands are equal values here, and a node   *)
(* holds the set of its operands: what it keeps of their order is the      *)
(* order of their hashes, which nobody chose.                              *)
(***************************************************************************)

Symb(s) == [op |-> "SYMB", symb |-> s]
Const(b) == [op |-> "CONST", cst |-> b]
OpNode(op, es) == [op |-> op, args |-> es]

IsOp(e) == e.op \in {"BXOR", "BAND", "BOR", "BNOT"}
=============================================================================
