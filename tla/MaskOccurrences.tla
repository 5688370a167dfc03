--------------------------- MODULE MaskOccurrences ---------------------------
(***************************************************************************)
(* What a node remembers of what is below it (the constructor Node::OpNode *)
(* and setVarsOccurrences, src/src/node.cpp), from the leaves up.          *)
(***************************************************************************)
EXTENDS MaskChoice

RECURSIVE HeightOf(_)
HeightOf(n) == FoldSet(LAMBDA c, h : IF HeightOf(c) >= h THEN HeightOf(c) + 1 ELSE h, 0, Operands(n))

RECURSIVE NodesBelow(_)
NodesBelow(n) == {n} \cup UNION {NodesBelow(c) : c \in Operands(n)}

NodesOfTuple(s) == UNION {NodesBelow(s[i]) : i \in DOMAIN s}

RECURSIVE RecordedSymbols(_)
RecordedSymbols(n) ==
    CASE n.op = "SYMB"  -> {n.symb}
      [] n.op = "CONST" -> {}
      [] OTHER          -> UNION {RecordedSymbols(c) : c \in Operands(n)}

RECURSIVE RecordedOcc(_)
RecordedOcc(n) == OccOf(n, {[node |-> c, occ |-> RecordedOcc(c)] : c \in Operands(n)})

RECURSIVE RecordedCount(_, _)
RecordedCount(x, e) ==
    IF e = x THEN 1
    ELSE MapThenSumSet(LAMBDA c : Copies(c, e) * RecordedCount(x, c), Operands(e))
=============================================================================
