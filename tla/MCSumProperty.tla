---------------------------- MODULE MCSumProperty ----------------------------
EXTENDS WordTuples

(* The sums of two or three of the symbols S, negated or not.              *)
SumsOver(S) ==
    {Sum(SetToBag({IF s \in N THEN Neg(Symb(s)) ELSE Symb(s) : s \in T})) :
        T \in {T \in SUBSET S : Cardinality(T) \in 2 .. 3}, N \in SUBSET S}

(* One such sum; two of those of two terms and k + m0 + m1, in one order;  *)
(* a mask beside two of two terms.                                         *)
SumsMade ==
    LET over == SumsOver({"k", "m0", "m1"})
        short == {e \in over : Cardinality(Operands(e)) = 2}
        plain == Sum(SetToBag({Symb("k"), Symb("m0"), Symb("m1")}))
        pairs(S) == {SetToSeq(p) : p \in kSubset(2, S)}
    IN  {<<e>> : e \in over} \cup pairs(short \cup {plain}) \cup {Append(s, Symb("m1")) : s \in pairs(short)}

(* The tuples the loop comes to from the pairs S of a tuple and the masks  *)
(* taken.                                                                  *)
RECURSIVE SumsReached(_, _)
SumsReached(S, done) ==
    LET next == UNION {{<<[i \in DOMAIN st[1] |-> SimplifySum(ReplacedSumGraph(st[1][i], p[1], p[2]))],
                          st[2] \cup {p[1]}>> : p \in Exchanges(st[1], st[2])} : st \in S}
    IN  IF S = {} THEN {st[1] : st \in done} ELSE SumsReached(next \ (done \cup S), done \cup S)

SumTuplesMade == SumsReached({<<s, {}>> : s \in SumsMade}, {})

SumNodesMade ==
    UNION {LET below == NodesOfTuple(s)
           IN  below \cup UNION {{ReplacedSumGraph(e, p[1], p[2]) : e \in below} : p \in Hidden(s)}
           : s \in SumTuplesMade}

(* TLC evaluates a definition once, what it puts for a constant each time. *)
MCSumTuples == SumsMade
MCSumTuple == SumTuplesMade
MCSumNode == SumNodesMade

SumOrigSecret(sh) == sh
SumShareNum(sh) == 0
=============================================================================
