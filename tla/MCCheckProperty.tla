--------------------------- MODULE MCCheckProperty ---------------------------
EXTENDS BitTuples

(* a0 and a1 are the shares of "k", b0 is one of "l"; "k" itself is for    *)
(* TPS.                                                                    *)
MCOrigSecret(sh) == IF sh = "b0" THEN "l" ELSE "k"
MCShareNum(sh) == IF sh = "a1" THEN 1 ELSE 0

X(S) == OpNode("BXOR", S)
A(S) == OpNode("BAND", S)

(* Terms: symbols, products of two of them, and a product of a sum.        *)
Terms(x, y, m, n) ==
    LET leaf == [s \in {x, y, m, n} |-> Symb(s)]
    IN  {leaf[s] : s \in {x, y, m, n}}
        \cup {A({leaf[x], leaf[m]}), A({leaf[m], leaf[n]}), A({leaf[y], X({leaf[x], leaf[m]})}),
              OpNode("BNOT", {X({leaf[x], leaf[m]})})}

(* Sums of two or three terms.                                             *)
Sums(terms) == {X(T) : T \in {T \in SUBSET terms : Cardinality(T) \in 2 .. 3}}

(* One such sum, alone or observed together with a small expression; z     *)
(* occurs in the latter only.                                              *)
Tuples2(x, y, z, m, n) ==
    LET sums == Sums(Terms(x, y, m, n))
        small == {Symb(m), X({Symb(m), Symb(n)}), X({Symb(y), Symb(m)}), A({Symb(z), Symb(n)})}
    IN  {<<e>> : e \in sums} \cup {<<e, f>> : e \in sums, f \in small}

(* TPS is about explicit secrets, every other property about shares.       *)
MCTuples(q) == IF q.secProp = "TPS" THEN Tuples2("k", "m2", "m2", "m0", "m1")
                                    ELSE Tuples2("a0", "a1", "b0", "m0", "m1")

AllQueries ==
    [secProp : {"TPS"}, noFalsePositive : BOOLEAN]
    \cup [secProp : {"NI"}, maxShareOcc : {1}, noFalsePositive : BOOLEAN]
    \cup [secProp : {"RNI"}, diff : {0}, noFalsePositive : BOOLEAN]
    \cup [secProp : {"PINI"}, maxShareOcc : {0, 1}, outputIndexes : {{}, {1}}, noFalsePositive : BOOLEAN]
    \cup [secProp : {"OPINI"}, maxShareOcc : {1}, outputIndexes : {{}, {1}}, noFalsePositive : BOOLEAN]

(* The tuples the loop comes to from the pairs S of a tuple and the masks  *)
(* taken, in at most n turns more.                                         *)
MadeOf(s) == OneOfEach([i \in DOMAIN s |-> Simplify(s[i])])

RECURSIVE Reached(_, _, _)
Reached(S, done, n) ==
    LET next == UNION {UNION {{<<t, st[2] \cup {p[1]}>> :
                                  t \in MadeOf([i \in DOMAIN st[1] |-> ReplacedGraph(st[1][i], p[1], p[2])])}
                              : p \in Exchanges(st[1], st[2])} : st \in S}
    IN  IF S = {} \/ n = 0 THEN done \cup S ELSE Reached(next \ (done \cup S), done \cup S, n - 1)

Asked == UNION {MCTuples(q) : q \in AllQueries}

(* One turn more than LoopEnds allows.                                    *)
TuplesMade ==
    LET first == {<<t, {}>> : t \in UNION {MadeOf(s) : s \in Asked}}
    IN  Asked \cup {st[1] : st \in Reached(first, {}, Cardinality(Mask) + 1)}

NodesMade ==
    UNION {LET below == NodesOfTuple(s)
           IN  below \cup UNION {{ReplacedGraph(e, p[1], p[2]) : e \in below} : p \in Hidden(s)}
           : s \in TuplesMade}

(* TLC evaluates a definition once, what it puts for a constant each time. *)
MCQueries == AllQueries
MCTuple == TuplesMade
MCNode == NodesMade
=============================================================================
