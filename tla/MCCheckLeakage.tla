---------------------------- MODULE MCCheckLeakage ----------------------------
EXTENDS CheckLeakage

(* Bits named for the index they need; "ab" needs both, "none" none.       *)
BitNeeds == [a |-> {0}, b |-> {1}, ab |-> {0, 1}, none |-> {}]

(* Expressions of one bit; a word whose analysis may fail when it has      *)
(* taken index 0 already, and one built of it with a word operator, whose  *)
(* bits need an index each.                                                *)
OneBit == {<<"b">>, <<"ab">>}
RetriedWord == <<"a", "none">>
WordOf == <<"b", "a">>
MCExp == OneBit \cup {RetriedWord, WordOf}
MCSubExps(e) == IF e = WordOf THEN {RetriedWord} ELSE {}
MCHasWordOp(e) == Len(e) > 1

WordTuple == [of : {FlattenSeq(es) : es \in {<<e>> : e \in Exp} \cup {<<e, e2>> : e, e2 \in Exp}}
                   \cup {<<b>> : b \in DOMAIN BitNeeds}, bits : BOOLEAN]

(* The output of index 0 needs index 1 as well, and the analysis of a word *)
(* finds what is needed.                                                   *)
BitsNeed(t) == UNION {BitNeeds[b] : b \in ToSet(t.of)}
Chained(t, J) == BitsNeed(t) \cup (IF 0 \in J THEN {1} ELSE {})

(* Tuples of probes: three indexes, each needed from some set of outputs   *)
(* on, or from some number of outputs on, and an analysis that finds what  *)
(* is needed; or two indexes that need each other in any way, and an       *)
(* analysis that finds any indexes besides.                                *)
FromSet == {w \in [Index -> SUBSET Index] : \A i \in Index : i \notin w[i]}
FromNumber == [Index -> 0 .. 4]
Pairs ==
    {f \in [SUBSET {0, 1} -> SUBSET {0, 1}] :
        \A K \in SUBSET {0, 1} : \A J \in SUBSET K : f[J] \subseteq f[K]}

MCProbeTuple ==
    [from : {"set"}, by : FromSet] \cup [from : {"number"}, by : FromNumber]
        \cup [from : {"pair"}, by : Pairs]

IsProbeTuple(t) == "from" \in DOMAIN t

MCTuple == WordTuple \cup MCProbeTuple

MCNeeded(t, J) ==
    IF ~IsProbeTuple(t) THEN Chained(t, J)
    ELSE CASE t.from = "set" -> {i \in Index : t.by[i] \subseteq J}
           [] t.from = "number" -> {i \in Index : t.by[i] <= Cardinality(J)}
           [] t.from = "pair" -> t.by[J \cap {0, 1}]

MCOccurring(t, J) ==
    IF IsProbeTuple(t) /\ t.from = "pair" THEN {I \in SUBSET Index : MCNeeded(t, J) \subseteq I}
    ELSE {MCNeeded(t, J)}

(* Words alone, with an analysis that finds what is needed.                *)
NoTuple == {}
ExactAnalysis(t, J) == {Chained(t, J)}
=============================================================================
