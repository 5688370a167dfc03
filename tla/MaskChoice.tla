------------------------------ MODULE MaskChoice ------------------------------
(***************************************************************************)
(* How checkProperty (src/src/tps.cpp) chooses the mask and the node that  *)
(* it exchanges, from what every node remembers of the masks below it      *)
(* (the constructor Node::OpNode, src/src/node.cpp).  The operands of a    *)
(* bitwise node are a set; those of a sum, PLUS, or of a negation, UMINUS, *)
(* of words are a bag: m + m is not m.  A tuple is the sequence of the     *)
(* operands of the Concat that the loop looks at, or its only expression.  *)
(***************************************************************************)
EXTENDS Nodes, SymbolTable, SequencesExt

CONSTANTS
    Height(_),          \* how deep an expression is
    NodesOf(_),         \* the nodes of a tuple, operands included
    Occ(_),             \* what a node remembers of the masks: see OccOf
    CountIn(_, _)       \* CountIn(x, e): how often x occurs in e

IsLeaf(n) == n.op \in {"SYMB", "CONST"}

Operands(n) ==
    CASE IsLeaf(n) -> {}
      [] n.op \in {"PLUS", "UMINUS"} -> DOMAIN n.args
      [] OTHER -> n.args

Copies(c, n) == IF n.op \in {"PLUS", "UMINUS"} THEN n.args[c] ELSE 1

IsConcat(s) == Len(s) > 1

-----------------------------------------------------------------------------
(* What a node remembers of the masks (the constructor Node::OpNode):      *)
(*   masking    <<m, base, ctr, height>>: m hides base, and through base   *)
(*              the node ctr, height nodes above;                          *)
(*   other      <<m, parent>>: an occurrence of m under parent that hides  *)
(*              nothing;                                                   *)
(*   currently  <<m, base>>: m hides the node itself;                      *)
(*   preserved  <<m, parent>>: the node is m or a negation of m.           *)
(* The parent of a mask that is not yet an operand is NoParent.            *)

NoParent == Const(FALSE)

Under(p, n) == IF p = NoParent THEN n ELSE p

MasksIn(occ) == {t[1] : t \in occ.masking \cup occ.other}

(* The operands of a node, with what each remembers.                       *)
Remembering(nodes) == {[node |-> c, occ |-> Occ(c)] : c \in nodes}

(* No operand of n other than o holds m, so that m hides the whole sum.    *)
Alone(m, o, n, operands) ==
    /\ Copies(o.node, n) = 1
    /\ \A p \in operands \ {o} : m \notin MasksIn(p.occ)

AloneIn(S, n, operands) == {r \in S : Alone(r.mask, r.operand, n, operands)}

MaskingBelow(operands) == UNION {o.occ.masking : o \in operands}

OtherBelow(n, operands) == {<<t[1], Under(t[2], n)>> : t \in UNION {o.occ.other : o \in operands}}

(* The masks that hide an operand, and the operands that are masks.        *)
Kept(operands) ==
    UNION {{[mask |-> t[1], base |-> t[2], operand |-> o] : t \in o.occ.currently} : o \in operands}

New(n, operands) ==
    UNION {{[mask |-> t[1], parent |-> Under(t[2], n), operand |-> o] : t \in o.occ.preserved} : o \in operands}

(* What hides an operand, through its base, hides n one node higher.       *)
Above(S, n) ==
    UNION {{<<t[1], t[2], n, t[4] + 1>> :
               t \in {t \in r.operand.occ.masking : t[1] = r.mask /\ t[2] = r.base /\ t[3] = r.operand.node}}
           : r \in S}

HiddenBy(S, n) == {<<r.mask, n, n, 0>> : r \in S}

SumOcc(n, operands) ==
    LET kept == AloneIn(Kept(operands), n, operands)
        new == AloneIn(New(n, operands), n, operands)
    IN  [masking |-> MaskingBelow(operands) \cup Above(kept, n) \cup HiddenBy(new, n),
         other |-> OtherBelow(n, operands) \ {<<r.mask, r.parent>> : r \in new},
         currently |-> {<<r.mask, r.base>> : r \in kept} \cup {<<r.mask, n>> : r \in new},
         preserved |-> {}]

NegationOcc(n, operands) ==
    [masking |-> MaskingBelow(operands) \cup Above(Kept(operands), n),
     other |-> OtherBelow(n, operands),
     currently |-> {<<r.mask, r.base>> : r \in Kept(operands)},
     preserved |-> {<<r.mask, r.parent>> : r \in New(n, operands)}]

ProductOcc(n, operands) ==
    [masking |-> MaskingBelow(operands), other |-> OtherBelow(n, operands),
     currently |-> {}, preserved |-> {}]

MaskOcc(m) ==
    [masking |-> {}, other |-> {<<m, NoParent>>}, currently |-> {}, preserved |-> {<<m, NoParent>>}]

LeafOcc == [masking |-> {}, other |-> {}, currently |-> {}, preserved |-> {}]

OccOf(n, operands) ==
    CASE n.op = "SYMB" -> IF n.symb \in Mask THEN MaskOcc(n.symb) ELSE LeafOcc
      [] n.op = "CONST" -> LeafOcc
      [] n.op \in {"BXOR", "PLUS"} -> SumOcc(n, operands)
      [] n.op \in {"BNOT", "UMINUS"} -> NegationOcc(n, operands)
      [] n.op \in {"BAND", "BOR", "CONCAT"} -> ProductOcc(n, operands)

(* What the node of the loop remembers.                                    *)
TupleOcc(s) ==
    IF IsConcat(s) THEN OccOf(OpNode("CONCAT", ToSet(s)), Remembering(ToSet(s))) ELSE Occ(s[1])

(* The masks of the tuple s, and the nodes they hide.                      *)
Hidden(s) == {<<t[1], t[3]>> : t \in TupleOcc(s).masking}

(* The nodes of S are finite trees, and each holds what its constructor    *)
(* has recorded: the symbols below it (setVarsOccurrences), the masks.     *)
AreTrees(S) ==
    \A n \in S :
        /\ Height(n) \in Nat
        /\ \A c \in Operands(n) : c \in S /\ Height(c) < Height(n)
        /\ Symbols(n) = IF n.op = "SYMB" THEN {n.symb} ELSE UNION {Symbols(c) : c \in Operands(n)}
        /\ Occ(n) = OccOf(n, Remembering(Operands(n)))

(* A tuple of T has at least one expression; its nodes are in S.           *)
AreTuples(T, S) ==
    \A s \in T :
        /\ s \in Seq(S) /\ s # <<>>
        /\ NodesOf(s) \subseteq S /\ ToSet(s) \subseteq NodesOf(s)
        /\ \A n \in NodesOf(s) : Operands(n) \subseteq NodesOf(s)

Count(x, s) == FoldSeq(LAMBDA e, n : n + CountIn(x, e), 0, s)

-----------------------------------------------------------------------------
(* The choice.                                                             *)

MaskingBases(m, occ) == {t[2] : t \in {t \in occ.masking : t[1] = m}}
OtherParents(m, occ) == {t \in occ.other : t[1] = m}

(* Mutant: masks are taken again and again.                                *)
HidesSomething(m, occ, s, used) ==
    /\ MaskingBases(m, occ) # {}
    /\ IsConcat(s) => Symb(m) \notin ToSet(s)

(* A mask is taken again only when a single occurrence of it is left.      *)
MayBeTaken(m, occ, s, used) ==
    /\ MaskingBases(m, occ) # {}
    /\ m \in used => Cardinality(MaskingBases(m, occ)) = 1 /\ OtherParents(m, occ) = {}
    /\ IsConcat(s) => Symb(m) \notin ToSet(s)

Candidates(occ, s, used) == {m \in Mask : MayBeTaken(m, occ, s, used)}

(* The fewest occurrences that hide nothing, then the fewest others: equal *)
(* ones are told apart by the addresses of the nodes.                      *)
Preferred(m1, m2, occ) ==
    LET others(m) == Cardinality(OtherParents(m, occ))
        maskings(m) == Cardinality(MaskingBases(m, occ))
    IN  \/ others(m1) < others(m2)
        \/ others(m1) = others(m2) /\ maskings(m1) <= maskings(m2)

(* The node to be replaced: hidden by m through the base that occurs the   *)
(* least, occurring as often as this base, and as high as possible.        *)
NodesToReplace(m, occ, s) ==
    LET entries == {t \in occ.masking : t[1] = m}
        bases == {t[2] : t \in entries}
        rarest == {b \in bases : \A b2 \in bases : Count(b, s) <= Count(b2, s)}
        asOften(b) == {t \in entries : t[2] = b /\ Count(t[3], s) = Count(b, s)}
    IN  UNION {{t[3] : t \in {t \in asOften(b) : \A t2 \in asOften(b) : t2[4] <= t[4]}} : b \in rarest}

(* The masks and nodes the loop may exchange in the tuple s; none when a   *)
(* mask hides all of it.                                                   *)
Exchanges(s, used) ==
    LET occ == TupleOcc(s)
        candidates == Candidates(occ, s, used)
        preferred == {m \in candidates : \A m2 \in candidates : Preferred(m, m2, occ)}
    IN  IF occ.currently # {} THEN {}
        ELSE UNION {{<<m, ctr>> : ctr \in NodesToReplace(m, occ, s)} : m \in preferred}

(* Mutant: a mask that hides one expression of the tuple is enough.        *)
SomeMasked(s) == \E i \in DOMAIN s : Occ(s[i]).currently # {}

(* A mask hides all of the tuple.                                          *)
IsMasked(s) == TupleOcc(s).currently # {}
=============================================================================
