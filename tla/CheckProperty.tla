---------------------------- MODULE CheckProperty ----------------------------
(***************************************************************************)
(* checkProperty (src/src/tps.cpp): the symbolic verification of one tuple *)
(* of expressions, here one bit wide.  The tuple is a Concat of the        *)
(* simplified expressions (or the expression itself when there is one).    *)
(* As long as the secrets or shares that occur in it are too many, and no  *)
(* mask hides all of it, the loop chooses a mask, a node that this mask    *)
(* hides, and exchanges them: the distribution stays the same, and with    *)
(* luck fewer secrets occur.  When no mask can be taken the answer is no,  *)
(* or, with noFalsePositive, what the enumeration of all values says.      *)
(***************************************************************************)
EXTENDS MaskChoice, ConcreteEvaluation

CONSTANTS
    Node,                           \* bound: the expressions there are
    Tuple,                          \* bound: the tuples the loop may come to
    Replaced(_, _, _),              \* Replaced(e, m, ctr): see ReplacedOf
    Simplified(_),                  \* the expressions that simplify may return
    Queries,                        \* the properties asked for, with their parameters
    Tuples(_)                       \* Tuples(q): the tuples of expressions asked about

VARIABLES
    roots,                  \* the expressions of the tuple (the node of the loop)
    query,                  \* the property, its parameters and noFalsePositive
    masksTaken,             \* the masks already chosen
    pc,                     \* "simplify", "loop" or "done"
    verdict,                \* what the call returns
    additionalInputIndexes, \* OPINI: indexes the caller has to probe as well
    asked,                  \* history: the tuple the call was made with
    turns                   \* history: the exchanges made so far

vars == <<roots, query, masksTaken, pc, verdict, additionalInputIndexes, asked, turns>>

-----------------------------------------------------------------------------
(* Expressions: finite trees of bitwise operators on symbols of one bit.   *)

ASSUME NodeAssumption ==
    \A n \in Node :
        \/ \E s \in Secret \cup Share \cup Mask : n = Symb(s)
        \/ \E b \in BOOLEAN : n = Const(b)
        \/ /\ IsOp(n) /\ n = OpNode(n.op, n.args)
           /\ IsFiniteSet(n.args) /\ n.args \subseteq Node
           /\ n.op = "BNOT" => Cardinality(n.args) = 1

ASSUME TreesAssumption == AreTrees(Node)

ASSUME TupleAssumption == AreTuples(Tuple, Node)

(* What an expression means (getExpValueRec): its value when exactly the   *)
(* inputs of K and the masks of M are set.                                 *)
ValueOf(n, K, M) ==
    CASE n.op = "SYMB"  -> n.symb \in K \cup M
      [] n.op = "CONST" -> n.cst
      [] n.op = "BNOT"  -> \A c \in n.args : ~Value(c, K, M)
      [] n.op = "BAND"  -> \A c \in n.args : Value(c, K, M)
      [] n.op = "BOR"   -> \E c \in n.args : Value(c, K, M)
      [] n.op = "BXOR"  -> Cardinality({c \in n.args : Value(c, K, M)}) % 2 = 1

ASSUME ValueAssumption ==
    \A n \in Node : \A K \in SUBSET (Secret \cup Share), M \in SUBSET Mask :
        Value(n, K, M) <=> ValueOf(n, K, M)

(* simplify keeps the value.                                               *)
ASSUME SimplifiedAssumption ==
    \A n \in Node : \A r \in Simplified(n) :
        \A K \in SUBSET (Secret \cup Share), M \in SUBSET Mask : Value(r, K, M) <=> Value(n, K, M)

-----------------------------------------------------------------------------
(* getReplacedGraph.                                                       *)

(* The node made of the replaced operands; equal ones cancel in a sum.     *)
Rebuilt(e, replaced) ==
    OpNode(e.op, {d \in {replaced[c] : c \in e.args} :
                     e.op = "BXOR" => Cardinality({c \in e.args : replaced[c] = d}) % 2 = 1})

(* Mutant: the other occurrences of the mask are left as they are.         *)
ReplacedOneWay(e, m, ctr, replaced) ==
    IF e = ctr THEN Symb(m)
    ELSE IF ~IsOp(e) THEN e
    ELSE Rebuilt(e, replaced)

(* m and ctr exchanged in e; replaced[c] is what the operand c becomes.    *)
ReplacedOf(e, m, ctr, replaced) ==
    IF e = ctr THEN Symb(m)
    ELSE IF e = Symb(m) THEN ctr
    ELSE IF ~IsOp(e) THEN e
    ELSE Rebuilt(e, replaced)

ASSUME ReplacedAssumption ==
    \A s \in Tuple : \A p \in Hidden(s) : \A e \in NodesOf(s) :
        /\ Replaced(e, p[1], p[2]) \in Node
        /\ Replaced(e, p[1], p[2])
              = ReplacedOf(e, p[1], p[2], [c \in Operands(e) |-> Replaced(c, p[1], p[2])])

-----------------------------------------------------------------------------
(* Queries: the allowances are those of a call, and secPropValidity has    *)
(* let the tuple pass: TPS is asked of secrets, the others of shares.      *)

ASSUME QueriesAssumption ==
    \A q \in Queries :
        /\ q.noFalsePositive \in BOOLEAN
        /\ \/ q.secProp = "TPS"
           \/ q.secProp = "NI" /\ q.maxShareOcc \in Nat
           \/ q.secProp = "RNI" /\ q.diff \in Nat /\ q.diff < NbShares
           \/ q.secProp \in {"PINI", "OPINI"} /\ q.maxShareOcc \in Nat

ASSUME TuplesAssumption ==
    \A q \in Queries : \A s \in Tuples(q) :
        /\ s \in Tuple
        /\ InputsIn(ToSet(s)) \subseteq IF q.secProp = "TPS" THEN Secret \ Share ELSE Share \ Secret

-----------------------------------------------------------------------------
(* The loop.                                                               *)

Inputs == InputsIn(ToSet(roots))

IndexesOf(symbols, outputIndexes) == {ShareNum(sh) : sh \in symbols \cap Share} \ outputIndexes

FewEnough ==
    CASE query.secProp = "TPS" -> Inputs \cap Secret = {}
      [] query.secProp = "NI"  ->
           \A s \in Secret : Cardinality(Inputs \cap SharesOf(s)) <= query.maxShareOcc
      [] query.secProp = "RNI" ->
           \A s \in Secret : Inputs \cap SharesOf(s) # {} =>
               Cardinality(Inputs \cap SharesOf(s)) + query.diff < NbShares
      [] query.secProp = "PINI" ->
           Cardinality(IndexesOf(Inputs, query.outputIndexes)) <= query.maxShareOcc
      [] query.secProp = "OPINI" -> FALSE

(* Mutant: the verdict is noted and the loop goes on.                      *)
Noted(v) ==
    /\ verdict' = v
    /\ UNCHANGED <<roots, query, masksTaken, pc, asked, turns>>

Return(v) ==
    /\ verdict' = v
    /\ pc' = "done"
    /\ UNCHANGED <<roots, query, masksTaken, asked, turns>>

(* The tuples that simplify may make of s.                                 *)
SimplifiedTuples(s) ==
    {t \in [DOMAIN s -> UNION {Simplified(s[i]) : i \in DOMAIN s}] :
        t \in Tuple /\ \A i \in DOMAIN s : t[i] \in Simplified(s[i])}

(* checkPropertyWrapper.  Simplifying the Concat itself changes nothing on *)
(* one-bit symbols.                                                        *)
SimplifyTuple ==
    /\ pc = "simplify"
    /\ roots' \in SimplifiedTuples(roots)
    /\ pc' = "loop"
    /\ UNCHANGED <<query, masksTaken, verdict, additionalInputIndexes, asked, turns>>

FewEnoughOccurrences ==
    /\ pc = "loop"
    /\ FewEnough
    /\ Return(TRUE)
    /\ UNCHANGED additionalInputIndexes

RootMasked ==
    /\ pc = "loop"
    /\ ~FewEnough
    /\ IsMasked(roots)
    /\ Return(TRUE)
    /\ UNCHANGED additionalInputIndexes

Replace ==
    /\ pc = "loop"
    /\ ~FewEnough
    /\ \E p \in Exchanges(roots, masksTaken) :
         /\ masksTaken' = masksTaken \cup {p[1]}
         /\ roots' \in SimplifiedTuples([i \in DOMAIN roots |-> Replaced(roots[i], p[1], p[2])])
    /\ turns' = turns + 1
    /\ UNCHANGED <<query, pc, verdict, additionalInputIndexes, asked>>

NoMaskLeft ==
    /\ pc = "loop"
    /\ ~FewEnough
    /\ ~IsMasked(roots)
    /\ Exchanges(roots, masksTaken) = {}

(* What the enumeration of all values says of a tuple, by definition.      *)
HoldsOf(E) ==
    CASE query.secProp = "TPS"  -> IsTPSWithExev(E)
      [] query.secProp = "NI"   -> IsNIWithExev(E, query.maxShareOcc)
      [] query.secProp = "RNI"  -> IsRNIWithExev(E, query.diff)
      [] query.secProp \in {"PINI", "OPINI"} ->
           IsPINIWithExev(E, query.maxShareOcc, query.outputIndexes)

(* Mutants: the enumeration is left out.                                   *)
GiveUp ==
    /\ NoMaskLeft
    /\ query.secProp # "OPINI"
    /\ Return(FALSE)
    /\ UNCHANGED additionalInputIndexes

GiveUpOPINI ==
    /\ NoMaskLeft
    /\ query.secProp = "OPINI"
    /\ Return(Cardinality(IndexesOf(Inputs, query.outputIndexes)) <= query.maxShareOcc)
    /\ UNCHANGED additionalInputIndexes

NoMaskToTake ==
    /\ NoMaskLeft
    /\ query.secProp # "OPINI"
    /\ Return(query.noFalsePositive /\ HoldsOf(ToSet(roots)))
    /\ UNCHANGED additionalInputIndexes

(* OPINI collects the indexes that are needed, for the caller to probe the *)
(* outputs there too.                                                      *)
NoMaskToTakeOPINI ==
    /\ NoMaskLeft
    /\ query.secProp = "OPINI"
    /\ LET occurring == IndexesOf(Inputs, query.outputIndexes)
           effective == EffectiveIndexes(ToSet(roots)) \ query.outputIndexes
       IN  IF Cardinality(occurring) <= query.maxShareOcc
           THEN Return(TRUE) /\ additionalInputIndexes' = occurring
           ELSE IF query.noFalsePositive
           THEN /\ Return(Cardinality(effective) <= query.maxShareOcc)
                /\ additionalInputIndexes' = effective
           ELSE Return(FALSE) /\ UNCHANGED additionalInputIndexes

Init ==
    /\ query \in Queries
    /\ asked \in Tuples(query)
    /\ roots = asked
    /\ masksTaken = {}
    /\ pc = "simplify"
    /\ verdict = FALSE
    /\ additionalInputIndexes = {}
    /\ turns = 0

(* The call has returned; any other state without a step is a deadlock.    *)
Returned == pc = "done" /\ UNCHANGED vars

Next ==
    \/ Returned
    \/ SimplifyTuple
    \/ FewEnoughOccurrences
    \/ RootMasked
    \/ Replace
    \/ NoMaskToTake
    \/ NoMaskToTakeOPINI

Spec == Init /\ [][Next]_vars

-----------------------------------------------------------------------------
(* Type invariant.                                                         *)
TypeOK ==
    /\ Len(roots) = Len(asked)
    /\ masksTaken \subseteq Mask
    /\ pc \in {"simplify", "loop", "done"}
    /\ verdict \in BOOLEAN
    /\ verdict => pc = "done"
    /\ pc = "simplify" => turns = 0 /\ masksTaken = {}
    /\ turns = 0 <=> masksTaken = {}
    /\ additionalInputIndexes \subseteq 0 .. NbShares - 1
    /\ turns \in Nat

Holds == HoldsOf(ToSet(asked))

(* A positive verdict is never wrong: whatever masks and nodes the loop    *)
(* chose, in whatever order, the enumeration agrees with it.               *)
PositiveIsRight == pc = "done" /\ verdict => Holds

(* With noFalsePositive neither is a negative one: the enumeration is made *)
(* of the node the replacements have led to, whose verdict must be that of *)
(* the tuple asked about (README.md:313).                                  *)
NegativeIsRight == pc = "done" /\ query.noFalsePositive /\ ~verdict => ~Holds

(* For OPINI the indexes handed back include every one that is needed, and *)
(* fit in what the caller allowed: opini_internal subtracts their number   *)
(* from maxShareOcc and ends because they are new to outputIndexes.        *)
AdditionalIndexesSuffice ==
    pc = "done" /\ verdict /\ query.secProp = "OPINI" =>
        /\ EffectiveIndexes(ToSet(asked)) \subseteq query.outputIndexes \cup additionalInputIndexes
        /\ additionalInputIndexes \cap query.outputIndexes = {}
        /\ Cardinality(additionalInputIndexes) <= query.maxShareOcc

Shown(s, K, M) == {i \in DOMAIN s : Value(s[i], K, M)}

JointDistribution(s, K) ==
    [o \in {Shown(s, K, M) : M \in SUBSET Mask} |->
        Cardinality({M \in SUBSET Mask : Shown(s, K, M) = o})]

(* With OPINI a call is the analysis of one round of opini_internal, as    *)
(* the module Opini knows it: none of its steps, whatever masks it takes,  *)
(* does anything but wait, or answer as such an analysis may that finds    *)
(* all the indexes that the tuple asked about, the outputs in it, needs.   *)
RoundNeeded(s, outputIndexes) == EffectiveIndexes(ToSet(s))

RoundOccurring(s, outputIndexes) ==
    {I \in SUBSET (0 .. NbShares - 1) : RoundNeeded(s, outputIndexes) \subseteq I}

Round ==
    INSTANCE Opini WITH
        Index <- 0 .. NbShares - 1, MaxAllowed <- NbShares,
        Needed <- RoundNeeded, Occurring <- RoundOccurring,
        probes <- asked, noFalsePositive <- query.noFalsePositive,
        outputIndexes <- query.outputIndexes, given <- query.outputIndexes,
        maxShareOcc <- query.maxShareOcc, allowed <- query.maxShareOcc,
        pc <- IF pc # "done" THEN "analyse" ELSE IF verdict THEN "extend" ELSE "returned",
        res <- verdict

ImplementsRound ==
    [][query.secProp = "OPINI" => [Round!AnalyseMasked \/ Round!AnalyseOccurring]_(Round!vars)]_vars

(* Every turn of the loop leaves the joint distribution of the tuple as it *)
(* was, for each value of the inputs: exchanging a mask with what it hides *)
(* is a permutation of the values of the mask, when all the occurrences of *)
(* both are exchanged at once.                                             *)
DistributionKept ==
    [][\A K \in SUBSET InputsIn(ToSet(asked)) :
          JointDistribution(roots', K) = JointDistribution(roots, K)]_vars

(* The loop ends: a mask that was taken is not taken again, but when a     *)
(* single occurrence of it is left.  What the code does not say is how     *)
(* often that can be: no tuple needs more turns than there are masks.  A   *)
(* call that is not stuck before it has returned thus always returns.      *)
LoopEnds == turns <= Cardinality(Mask)
=============================================================================
