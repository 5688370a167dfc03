---------------------------- MODULE Expressions ----------------------------
(***************************************************************************)
(* The expressions of one-bit wires, in the normal form simplify gives     *)
(* them (src/src/simplify.cpp): an exclusive or of products of distinct    *)
(* symbols, without repetition.  An expression is the set of its products  *)
(* and a product the set of its symbols: the empty product is the constant *)
(* 1, the empty sum the constant 0.                                        *)
(*                                                                         *)
(* simplify cancels equal operands of BXOR, merges nested BXORs and drops  *)
(* repeated operands of BAND; it does not expand BAND over BXOR.  The      *)
(* operands of a product are therefore products themselves.                *)
(***************************************************************************)
EXTENDS FiniteSets, Integers, Sequences

Node(sym) == {{sym}}

SymbolsIn(e) == UNION e

Xor(e, f) == (e \ f) \cup (f \ e)

IsProduct(e) == Cardinality(e) = 1

And(e, f) == {p \cup q : p \in e, q \in f}

(* A product of a sum is outside of this normal form: no node, here.       *)
NoNode == {{"no node"}}

SimplifiedOp(op, es) ==
    CASE op = "BXOR" -> Xor(es[1], es[2])
      [] op = "BNOT" -> Xor(es[1], {{}})
      [] op = "BAND" -> IF IsProduct(es[1]) /\ IsProduct(es[2]) THEN And(es[1], es[2])
                        ELSE NoNode

(* A mask masks the rest of a sum in which it is an operand and occurs in  *)
(* no other; a mask alone masks nothing.                                   *)
MaskingIn(masks, e) ==
    {m \in masks : {m} \in e /\ e \ {{m}, {}} # {} /\ \A p \in e \ {{m}} : m \notin p}

OtherIn(masks, e) == (masks \cap SymbolsIn(e)) \ MaskingIn(masks, e)

(* Concrete evaluation, with the set of the symbols that are 1.            *)
ValueOf(e, K, M) == Cardinality({p \in e : p \subseteq K \cup M}) % 2 = 1
=============================================================================
