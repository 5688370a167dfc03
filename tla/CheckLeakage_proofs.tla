-------------------------- MODULE CheckLeakage_proofs --------------------------
(***************************************************************************)
(* What is proved of opini_internal, for every set of indexes, allowance   *)
(* and analysis, and of the functions of check_leakage.cpp that call it,   *)
(* for every set of expressions and any program that builds expressions    *)
(* and calls them.                                                         *)
(***************************************************************************)
EXTENDS CheckLeakage, FiniteSetTheorems, SequenceTheorems, TLAPS

-----------------------------------------------------------------------------
(* Counting subsets of Index.                                              *)

(* Sets of indexes are finite and can be counted.                          *)
LEMMA IndexesCount ==
    ASSUME NEW J \in SUBSET Index
    PROVE  IsFiniteSet(J) /\ Cardinality(J) \in Nat
BY IndexAssumption, FS_Subset, FS_CardinalityType

(* A set of fewer indexes counts less.                                     *)
LEMMA FewerIndexes ==
    ASSUME NEW K \in SUBSET Index, NEW J \in SUBSET K
    PROVE  Cardinality(J) <= Cardinality(K)
BY IndexesCount, FS_Subset

(* The new indexes of two rounds add up.                                   *)
LEMMA DisjointCount ==
    ASSUME NEW J \in SUBSET Index, NEW K \in SUBSET Index, J \cap K = {}
    PROVE  Cardinality(J \cup K) = Cardinality(J) + Cardinality(K)
<1>1. Cardinality(J \cap K) = 0
  BY FS_EmptySet
<1>2. Cardinality(J \cup K) = Cardinality(J) + Cardinality(K) - Cardinality(J \cap K)
  BY IndexesCount, FS_Union
<1> QED
  BY <1>1, <1>2, IndexesCount

-----------------------------------------------------------------------------
(* The invariant of the loop: what is left of the allowance is what        *)
(* outputIndexes has not used up, and a positive answer of the analysis    *)
(* comes with all the indexes that are still missing.                      *)

AllowanceInv == maxShareOcc + Cardinality(outputIndexes \ given) = allowed

ExtendInv ==
    pc = "extend" =>
        /\ res
        /\ additionalInputIndexes \cap outputIndexes = {}
        /\ Cardinality(additionalInputIndexes) <= maxShareOcc
        /\ Needed(probes, outputIndexes) \subseteq outputIndexes \cup additionalInputIndexes

IInv == TypeOK /\ AllowanceInv /\ ExtendInv /\ PositiveIsRight

(* The call begins with the whole allowance and nothing found.             *)
LEMMA InitIInv == Init => IInv
<1> SUFFICES ASSUME Init PROVE IInv
  OBVIOUS
<1> USE DEF Init
<1>1. outputIndexes \ given = {} /\ Cardinality({}) = 0
  BY FS_EmptySet
<1>2. TypeOK
  BY MaxAllowedAssumption DEF TypeOK
<1>3. AllowanceInv
  BY <1>1, MaxAllowedAssumption DEF AllowanceInv
<1> QED
  BY <1>2, <1>3 DEF IInv, ExtendInv, PositiveIsRight

(* An answer of the analysis only has to be right about the state it was   *)
(* given in.                                                               *)
LEMMA FoundIInv ==
    ASSUME IInv, pc = "analyse", NEW found \in BOOLEAN, NEW indexes \in SUBSET Index,
           Found(found, indexes),
           found => /\ indexes \cap outputIndexes = {}
                    /\ Cardinality(indexes) <= maxShareOcc
                    /\ Needed(probes, outputIndexes) \subseteq outputIndexes \cup indexes
    PROVE  IInv'
<1> USE DEF Found, callVars
<1>1. TypeOK'
  BY DEF IInv, TypeOK
<1>2. AllowanceInv'
  BY DEF IInv, AllowanceInv
<1>3. ExtendInv'
  BY DEF ExtendInv
<1>4. PositiveIsRight'
  BY DEF PositiveIsRight
<1> QED
  BY <1>1, <1>2, <1>3, <1>4 DEF IInv

(* The whole tuple is hidden: nothing is needed.                           *)
LEMMA AnalyseMaskedIInv == IInv /\ AnalyseMasked => IInv'
<1> SUFFICES ASSUME IInv, AnalyseMasked PROVE IInv'
  OBVIOUS
<1>1. Cardinality({}) <= maxShareOcc
  BY FS_EmptySet, MaxAllowedAssumption DEF IInv, TypeOK
<1> QED
  BY <1>1, FoundIInv DEF AnalyseMasked

(* The indexes that occur, or else those that are needed, are counted.     *)
LEMMA AnalyseOccurringIInv == IInv /\ AnalyseOccurring => IInv'
<1> SUFFICES ASSUME IInv, AnalyseOccurring PROVE IInv'
  OBVIOUS
<1> USE DEF AnalyseOccurring
<1>1. PICK occurring \in Occurring(probes, outputIndexes) :
          IF Cardinality(occurring \ outputIndexes) <= maxShareOcc
          THEN Found(TRUE, occurring \ outputIndexes)
          ELSE IF noFalsePositive
          THEN Found(Cardinality(Needed(probes, outputIndexes) \ outputIndexes) <= maxShareOcc,
                     Needed(probes, outputIndexes) \ outputIndexes)
          ELSE Found(FALSE, {})
  OBVIOUS
<1>2. probes \in Tuple /\ outputIndexes \in SUBSET Index
  BY DEF IInv, TypeOK
<1>3. Needed(probes, outputIndexes) \subseteq occurring /\ occurring \subseteq Index
  BY <1>1, <1>2, OccurringAssumption
<1>4. CASE Cardinality(occurring \ outputIndexes) <= maxShareOcc
  BY <1>1, <1>3, <1>4, FoundIInv
<1>5. CASE ~(Cardinality(occurring \ outputIndexes) <= maxShareOcc) /\ noFalsePositive
  <2> DEFINE effective == Needed(probes, outputIndexes) \ outputIndexes
             few == Cardinality(effective) <= maxShareOcc
  <2>1. Found(few, effective)
    BY <1>1, <1>5
  <2>2. effective \in SUBSET Index /\ effective \cap outputIndexes = {}
    BY <1>3
  <2>3. Needed(probes, outputIndexes) \subseteq outputIndexes \cup effective
    OBVIOUS
  <2>4. few \in BOOLEAN
    OBVIOUS
  <2> HIDE DEF effective
  <2> QED
    BY <2>1, <2>2, <2>3, <2>4, FoundIInv
<1>6. CASE ~(Cardinality(occurring \ outputIndexes) <= maxShareOcc) /\ ~noFalsePositive
  BY <1>1, <1>6, FoundIInv
<1> QED
  BY <1>4, <1>5, <1>6

(* The new indexes are paid for out of the allowance; when there is none,  *)
(* outputIndexes is enough for itself.                                     *)
LEMMA ExtendIInv == IInv /\ Extend => IInv'
<1> SUFFICES ASSUME IInv, Extend PROVE IInv'
  OBVIOUS
<1> USE DEF Extend, callVars
<1>1. /\ outputIndexes \in SUBSET Index /\ given \in SUBSET outputIndexes
      /\ additionalInputIndexes \in SUBSET Index
      /\ maxShareOcc \in Nat /\ allowed \in Nat /\ maxShareOcc <= MaxAllowed
  BY MaxAllowedAssumption DEF IInv, TypeOK
<1>2. CASE additionalInputIndexes = {}
  <2>1. TypeOK'
    BY <1>2 DEF IInv, TypeOK
  <2>2. AllowanceInv' /\ ExtendInv'
    BY <1>2 DEF IInv, AllowanceInv, ExtendInv
  <2>3. Simulates(probes, outputIndexes)
    BY <1>2 DEF IInv, ExtendInv, Simulates
  <2>4. Cardinality(outputIndexes \ given) <= allowed
    BY <1>1, IndexesCount DEF IInv, AllowanceInv
  <2>5. PositiveIsRight'
    BY <1>2, <2>3, <2>4 DEF PositiveIsRight, Simulates
  <2> QED
    BY <2>1, <2>2, <2>5 DEF IInv
<1>3. CASE additionalInputIndexes # {}
  <2>1. /\ outputIndexes' = outputIndexes \cup additionalInputIndexes
        /\ maxShareOcc' = maxShareOcc - Cardinality(additionalInputIndexes)
        /\ pc' = "analyse"
    BY <1>3
  <2>2. /\ additionalInputIndexes \cap outputIndexes = {}
        /\ Cardinality(additionalInputIndexes) <= maxShareOcc
    BY DEF IInv, ExtendInv
  <2>3. Cardinality(additionalInputIndexes) \in Nat /\ Cardinality(outputIndexes \ given) \in Nat
    BY <1>1, IndexesCount
  <2>4. maxShareOcc' \in 0 .. MaxAllowed
    BY <1>1, <2>1, <2>2, <2>3, MaxAllowedAssumption
  <2>5. TypeOK'
    BY <1>1, <2>1, <2>4 DEF IInv, TypeOK
  <2>6. Cardinality(outputIndexes' \ given) =
            Cardinality(outputIndexes \ given) + Cardinality(additionalInputIndexes)
    <3>1. outputIndexes' \ given = (outputIndexes \ given) \cup additionalInputIndexes
      BY <1>1, <2>1, <2>2
    <3>2. (outputIndexes \ given) \cap additionalInputIndexes = {}
      BY <2>2
    <3> QED
      BY <1>1, <3>1, <3>2, DisjointCount
  <2>7. AllowanceInv'
    BY <1>1, <2>1, <2>3, <2>6 DEF IInv, AllowanceInv
  <2> QED
    BY <2>1, <2>5, <2>7 DEF IInv, ExtendInv, PositiveIsRight
<1> QED
  BY <1>2, <1>3

(* Nothing else changes the state.                                         *)
LEMMA NextIInv == IInv /\ [Next]_vars => IInv'
<1> SUFFICES ASSUME IInv, [Next]_vars PROVE IInv'
  OBVIOUS
<1>1. CASE UNCHANGED vars
  BY <1>1 DEF vars, callVars, IInv, TypeOK, AllowanceInv, ExtendInv, PositiveIsRight, Simulates
<1> QED
  BY <1>1, AnalyseMaskedIInv, AnalyseOccurringIInv, ExtendIInv DEF Next

(* The invariant holds throughout the call.                                *)
THEOREM Invariance == Spec => []IInv
BY InitIInv, NextIInv, PTL DEF Spec

(* The state keeps its shape; what is left of the allowance is never       *)
(* negative.                                                               *)
THEOREM TypeCorrect == Spec => []TypeOK
BY Invariance, PTL DEF IInv

(* A tuple that opini accepts is simulated, outputs included, by as many   *)
(* indexes as were allowed: however imprecise the analysis is and whatever *)
(* it chooses, no tuple is accepted that should not be.                    *)
THEOREM PositiveCorrect == Spec => []PositiveIsRight
BY Invariance, PTL DEF IInv

-----------------------------------------------------------------------------
(* With an analysis that finds nothing but what is needed.                 *)

(* Every set of indexes that would do has all those found so far.          *)
LeastInv ==
    \A K \in SUBSET Index : given \subseteq K /\ Simulates(probes, K) =>
        /\ outputIndexes \subseteq K
        /\ pc = "extend" => additionalInputIndexes \subseteq K

NegativeIsRight == pc = "returned" /\ ~res => ~IsOPINI(probes, given, allowed)

ExactInv == IInv /\ (Exact(probes) => LeastInv /\ NegativeIsRight)

(* What is needed with the outputs found so far is in every such set.      *)
LEMMA NeededInLeast ==
    ASSUME IInv, LeastInv, NEW K \in SUBSET Index, given \subseteq K, Simulates(probes, K)
    PROVE  Needed(probes, outputIndexes) \subseteq K /\ outputIndexes \subseteq K
BY NeededAssumption DEF LeastInv, Simulates, IInv, TypeOK

(* When they are too many for what is left, no set will do.                *)
LEMMA TooMany ==
    ASSUME IInv, LeastInv,
           ~(Cardinality(Needed(probes, outputIndexes) \ outputIndexes) <= maxShareOcc)
    PROVE  ~IsOPINI(probes, given, allowed)
<1> DEFINE new == Needed(probes, outputIndexes) \ outputIndexes
<1> SUFFICES ASSUME NEW K \in SUBSET Index, given \subseteq K, Simulates(probes, K),
                    Cardinality(K \ given) <= allowed
             PROVE  FALSE
  BY DEF IsOPINI
<1>1. /\ outputIndexes \in SUBSET Index /\ given \in SUBSET outputIndexes
      /\ maxShareOcc \in Nat /\ allowed \in Nat
  BY MaxAllowedAssumption DEF IInv, TypeOK
<1>2. Needed(probes, outputIndexes) \subseteq K /\ outputIndexes \subseteq K
  BY NeededInLeast
<1>3. new \in SUBSET Index /\ (outputIndexes \ given) \in SUBSET Index /\ (K \ given) \in SUBSET Index
  BY <1>1, <1>2
<1>4. (outputIndexes \ given) \cup new \in SUBSET (K \ given)
  BY <1>1, <1>2
<1>5. (outputIndexes \ given) \cap new = {}
  OBVIOUS
<1>6. Cardinality((outputIndexes \ given) \cup new) = Cardinality(outputIndexes \ given) + Cardinality(new)
  BY <1>3, <1>5, DisjointCount
<1>7. Cardinality((outputIndexes \ given) \cup new) <= Cardinality(K \ given)
  BY <1>3, <1>4, FewerIndexes
<1>8. /\ Cardinality(outputIndexes \ given) \in Nat /\ Cardinality(new) \in Nat
      /\ Cardinality(K \ given) \in Nat
  BY <1>3, IndexesCount
<1>9. maxShareOcc + Cardinality(outputIndexes \ given) = allowed
  BY DEF IInv, AllowanceInv
<1>10. Cardinality(new) > maxShareOcc
  BY <1>1, <1>8
<1> QED
  BY <1>1, <1>6, <1>7, <1>8, <1>9, <1>10

(* The answers of an exact analysis keep both.                             *)
LEMMA AnalyseExact ==
    ASSUME Exact(probes), ExactInv, AnalyseMasked \/ AnalyseOccurring
    PROVE  LeastInv' /\ NegativeIsRight'
<1> DEFINE needed == Needed(probes, outputIndexes)
<1> USE DEF Found, callVars
<1>1. /\ UNCHANGED <<callVars, outputIndexes, maxShareOcc>>
      /\ additionalInputIndexes' \subseteq needed
      /\ pc' = IF res' THEN "extend" ELSE "returned"
      /\ ~res' => ~(Cardinality(needed \ outputIndexes) <= maxShareOcc)
  <2>1. CASE AnalyseMasked
    BY <2>1 DEF AnalyseMasked
  <2>2. CASE AnalyseOccurring
    <3>1. PICK occurring \in Occurring(probes, outputIndexes) :
              IF Cardinality(occurring \ outputIndexes) <= maxShareOcc
              THEN Found(TRUE, occurring \ outputIndexes)
              ELSE IF noFalsePositive
              THEN Found(Cardinality(needed \ outputIndexes) <= maxShareOcc, needed \ outputIndexes)
              ELSE Found(FALSE, {})
      BY <2>2 DEF AnalyseOccurring
    <3>2. occurring = needed
      BY <3>1 DEF Exact, ExactInv, IInv, TypeOK
    <3> QED
      BY <3>1, <3>2
  <2> QED
    BY <2>1, <2>2
<1>2. LeastInv'
  BY <1>1, NeededInLeast DEF ExactInv, LeastInv, Simulates
<1>3. NegativeIsRight'
  BY <1>1, TooMany DEF ExactInv, NegativeIsRight, IsOPINI, Simulates
<1> QED
  BY <1>2, <1>3

(* So does adding indexes that every set that would do must have.          *)
LEMMA ExtendExact ==
    ASSUME Exact(probes), ExactInv, Extend
    PROVE  LeastInv' /\ NegativeIsRight'
<1>1. LeastInv'
  BY DEF Extend, callVars, ExactInv, LeastInv, Simulates
<1>2. NegativeIsRight'
  BY DEF Extend, callVars, ExactInv, IInv, ExtendInv, NegativeIsRight
<1> QED
  BY <1>1, <1>2

(* Nothing else changes the state.                                         *)
LEMMA NextExactInv == ExactInv /\ [Next]_vars => ExactInv'
<1> SUFFICES ASSUME ExactInv, [Next]_vars PROVE ExactInv'
  OBVIOUS
<1>1. IInv'
  BY NextIInv DEF ExactInv
<1>2. ASSUME Exact(probes)' PROVE LeastInv' /\ NegativeIsRight'
  <2>1. probes' = probes
    BY DEF Next, AnalyseMasked, AnalyseOccurring, Found, Extend, callVars, vars
  <2>2. Exact(probes)
    BY <1>2, <2>1
  <2>3. CASE UNCHANGED vars
    BY <2>2, <2>3 DEF vars, callVars, ExactInv, LeastInv, NegativeIsRight, Simulates, IsOPINI
  <2> QED
    BY <2>2, <2>3, AnalyseExact, ExtendExact DEF Next
<1> QED
  BY <1>1, <1>2 DEF ExactInv

(* The stronger invariant holds throughout the call.                       *)
THEOREM ExactInvariance == Spec => []ExactInv
<1>1. Init => ExactInv
  BY InitIInv DEF Init, ExactInv, LeastInv, NegativeIsRight
<1> QED
  BY <1>1, NextExactInv, PTL DEF Spec

(* Such a state has a right answer.                                        *)
LEMMA ExactAnswer == ExactInv => VerdictExact
<1> SUFFICES ASSUME ExactInv, pc = "returned", Exact(probes), res
             PROVE  IsOPINI(probes, given, allowed)
  BY DEF ExactInv, NegativeIsRight, VerdictExact, IInv, TypeOK
<1>1. given \subseteq outputIndexes /\ outputIndexes \in SUBSET Index
  BY DEF ExactInv, IInv, TypeOK
<1> QED
  BY <1>1 DEF ExactInv, IInv, PositiveIsRight, IsOPINI

(* With an exact analysis opini accepts a tuple if and only if some set of *)
(* indexes, with no more new ones than allowed, is enough for the probes   *)
(* and for its own outputs: taking the indexes round by round never takes  *)
(* one too many.                                                           *)
THEOREM VerdictCorrect == Spec => []VerdictExact
BY ExactAnswer, ExactInvariance, PTL

-----------------------------------------------------------------------------
(* The functions of check_leakage.cpp.                                     *)

Word == Analysis(exps, FALSE)
Bits == Analysis(exps, TRUE)

SomeWordOp(es) == \E i \in DOMAIN es : HasWordOp(es[i])

(* One bit is asked about, or the expression as a whole.                   *)
OneTuple == fn = "ValBit" => Len(exps[1]) = 1

-----------------------------------------------------------------------------
(* The analyses that a function makes.                                     *)

(* The expression as it is, in bits, or both in this order.                *)
LEMMA WordThenBits ==
    ASSUME NEW f \in Function, f # "ValBit", NEW es \in Arguments, NEW marked \in SUBSET Exp
    PROVE  \/ Analyses(f, es, marked) = <<>> /\ ~BitExpEnable
           \/ Analyses(f, es, marked) = <<Analysis(es, FALSE)>>
           \/ Analyses(f, es, marked) = <<Analysis(es, TRUE)>>
           \/ /\ Analyses(f, es, marked) = <<Analysis(es, FALSE), Analysis(es, TRUE)>>
              /\ BitExpEnable /\ SomeWordOp(es)
<1> DEFINE word == Analysis(es, FALSE)
           bit == Analysis(es, TRUE)
           bits == IF BitExpEnable THEN <<bit>> ELSE <<>>
           first == IF \E i \in DOMAIN es : es[i] \in marked THEN <<>> ELSE <<word>>
<1>1. \/ bits = <<bit>> /\ BitExpEnable
      \/ bits = <<>> /\ ~BitExpEnable
  BY FunctionAssumption
<1>2. first = <<>> \/ first = <<word>>
  OBVIOUS
<1>3. CASE SomeWordOp(es)
  <2>1. Analyses(f, es, marked) = first \o bits
    BY <1>3 DEF Analyses, SomeWordOp
  <2>2. /\ <<>> \o <<>> = <<>> /\ <<word>> \o <<>> = <<word>>
        /\ <<>> \o <<bit>> = <<bit>> /\ <<word>> \o <<bit>> = <<word, bit>>
    <3> DEFINE S == {word, bit}
    <3>1. <<>> \in Seq(S) /\ <<word>> \in Seq(S) /\ <<bit>> \in Seq(S) /\ <<word, bit>> \in Seq(S)
      OBVIOUS
    <3> HIDE DEF S, word, bit
    <3>2. \A t \in Seq(S) : t \o <<>> = t /\ <<>> \o t = t
      BY ConcatEmptySeq
    <3>3. /\ <<word>> \o <<bit>> \in Seq(S) /\ Len(<<word>> \o <<bit>>) = 2
          /\ \A i \in 1 .. 2 : (<<word>> \o <<bit>>)[i] = IF i <= 1 THEN <<word>>[i] ELSE <<bit>>[i - 1]
      BY <3>1, ConcatProperties
    <3>4. Len(<<word, bit>>) = 2 /\ \A i \in 1 .. 2 : (<<word>> \o <<bit>>)[i] = <<word, bit>>[i]
      <4>1. (<<word>> \o <<bit>>)[1] = word /\ (<<word>> \o <<bit>>)[2] = bit
        BY <3>3
      <4> QED
        BY <4>1
    <3>5. <<word>> \o <<bit>> = <<word, bit>>
      BY <3>1, <3>3, <3>4, SeqEqual
    <3> QED
      BY <3>1, <3>2, <3>5
  <2> HIDE DEF bits, first
  <2> QED
    BY <1>1, <1>2, <1>3, <2>1, <2>2
<1>4. CASE ~SomeWordOp(es)
  <2>1. Analyses(f, es, marked) = IF BitExpEnable THEN bits ELSE <<word>>
    BY <1>4 DEF Analyses, SomeWordOp
  <2> QED
    BY <1>1, <2>1
<1> QED
  BY <1>3, <1>4

(* Of an expression of one bit there is one bit to analyse.                *)
LEMMA BitByBit ==
    ASSUME NEW es \in Arguments, NEW marked \in SUBSET Exp
    PROVE  /\ Analyses("ValBit", es, marked) = [i \in 1 .. Len(es[1]) |-> Analysis(<<<<es[1][i]>>>>, TRUE)]
           /\ Len(es[1]) \in Nat
<1>1. es[1] \in Seq(UNION {ToSet(x) : x \in Exp})
  BY ExpAssumption DEF Arguments
<1>2. DOMAIN es[1] = 1 .. Len(es[1]) /\ Len(es[1]) \in Nat
  BY <1>1
<1>3. Analyses("ValBit", es, marked) = [i \in DOMAIN es[1] |-> Analysis(<<<<es[1][i]>>>>, TRUE)]
  BY DEF Analyses
<1> QED
  BY <1>2, <1>3

(* Up to two elements make a sequence.                                     *)
LEMMA ShortSeq ==
    ASSUME NEW S, NEW s, \A i \in DOMAIN s : s[i] \in S,
           NEW x, NEW y, s = <<>> \/ s = <<x>> \/ s = <<y>> \/ s = <<x, y>>
    PROVE  s \in Seq(S)
<1>1. CASE s = <<>>
  BY <1>1
<1>2. CASE s = <<x>>
  <2>1. s[1] = x /\ 1 \in DOMAIN s
    BY <1>2
  <2> QED
    BY <1>2, <2>1
<1>3. CASE s = <<y>>
  <2>1. s[1] = y /\ 1 \in DOMAIN s
    BY <1>3
  <2> QED
    BY <1>3, <2>1
<1>4. CASE s = <<x, y>>
  <2>1. s[1] = x /\ s[2] = y /\ 1 \in DOMAIN s /\ 2 \in DOMAIN s
    BY <1>4
  <2>2. x \in S /\ y \in S
    BY <2>1
  <2> QED
    BY <1>4, <2>2
<1> QED
  BY <1>1, <1>2, <1>3, <1>4

(* An element of a sequence is the first one or in the rest.               *)
LEMMA HeadOrTail ==
    ASSUME NEW S, NEW s \in Seq(S), s # <<>>, NEW i \in DOMAIN s
    PROVE  s[i] = Head(s) \/ s[i] \in ToSet(Tail(s))
<1>1. i \in 1 .. Len(s) /\ Len(s) \in Nat
  OBVIOUS
<1>2. CASE i = 1
  BY <1>2
<1>3. CASE i # 1
  <2>1. i - 1 \in DOMAIN Tail(s) /\ Tail(s)[i - 1] = s[i]
    BY <1>1, <1>3
  <2> QED
    BY <2>1 DEF ToSet
<1> QED
  BY <1>2, <1>3

(* Everything a function analyses is a tuple.                              *)
LEMMA AnalysesAreTuples ==
    ASSUME NEW f \in Function, NEW es \in Arguments, NEW marked \in SUBSET Exp
    PROVE  Analyses(f, es, marked) \in Seq(AnalysisTuples)
<1> DEFINE todo == Analyses(f, es, marked)
<1>1. ToSet(todo) \subseteq AnalysisTuples
  <2> DEFINE all == {ToSet(Analyses(f2, es2, marked2)) :
                       f2 \in Function, es2 \in Arguments, marked2 \in SUBSET Exp}
  <2>1. AnalysisTuples = UNION all
    BY DEF AnalysisTuples
  <2>2. ToSet(todo) \in all
    OBVIOUS
  <2> HIDE DEF all, todo
  <2> QED
    BY <2>1, <2>2
<1>2. \A i \in DOMAIN todo : todo[i] \in AnalysisTuples
  BY <1>1 DEF ToSet
<1>3. CASE f = "ValBit"
  <2>1. todo = [i \in 1 .. Len(es[1]) |-> Analysis(<<<<es[1][i]>>>>, TRUE)] /\ Len(es[1]) \in Nat
    BY <1>3, BitByBit
  <2>2. todo \in [1 .. Len(es[1]) -> AnalysisTuples]
    <3> HIDE DEF todo
    <3> QED
      BY <1>2, <2>1
  <2> HIDE DEF todo
  <2>3. todo \in UNION {[1 .. k -> AnalysisTuples] : k \in Nat}
    BY <2>1, <2>2
  <2> QED
    BY <2>3, SeqDef DEF todo
<1>4. CASE f # "ValBit"
  <2>1. \/ todo = <<>>
        \/ todo = <<Analysis(es, FALSE)>>
        \/ todo = <<Analysis(es, TRUE)>>
        \/ todo = <<Analysis(es, FALSE), Analysis(es, TRUE)>>
    BY <1>4, WordThenBits
  <2> HIDE DEF todo
  <2>2. todo \in Seq(AnalysisTuples)
    BY <1>2, <2>1, ShortSeq
  <2> QED
    BY <2>2 DEF todo
<1> QED
  BY <1>3, <1>4

-----------------------------------------------------------------------------
(* What holds of every call of opini, whoever makes it.                    *)

OpiniInv ==
    /\ IInv
    /\ calling => ExactInv

(* Where a program is, and the call it has made.                           *)
ProgramInv ==
    /\ fn \in Function \cup {"checkSecurity"}
    /\ exps \in Arguments \cup {<<>>}
    /\ n \in 0 .. MaxAllowed
    /\ before \subseteq Index
    /\ analyses \in Seq(AnalysisTuples)
    /\ fn = "checkSecurity" => exps = <<>> /\ analyses = <<>>
    /\ fn # "checkSecurity" => ~noFalsePositive
    /\ ToSet(exps) \subseteq built
    /\ ~calling => pc = "returned"
    /\ calling => n = allowed
    /\ calling /\ fn # "checkSecurity" => exps \in Arguments /\ probes \in AnalysisTuples
    /\ calling /\ fn = "checkSecurity" => given = before

(* opini begins with what the invariant asks for.                          *)
LEMMA CallOpiniInv ==
    ASSUME OpiniInv, NEW t \in Tuple, NEW max \in 0 .. MaxAllowed, NEW indexes \in SUBSET Index,
           CallOpini(t, max, indexes)
    PROVE  OpiniInv' /\ ExactInv'
<1> USE DEF CallOpini
<1>1. indexes \ indexes = {} /\ Cardinality({}) = 0
  BY FS_EmptySet
<1>2. TypeOK'
  BY DEF OpiniInv, IInv, TypeOK
<1>3. AllowanceInv'
  BY <1>1, MaxAllowedAssumption DEF AllowanceInv
<1>4. IInv'
  BY <1>2, <1>3 DEF IInv, ExtendInv, PositiveIsRight
<1>5. ExactInv'
  BY <1>4 DEF ExactInv, LeastInv, NegativeIsRight
<1> QED
  BY <1>4, <1>5 DEF OpiniInv

-----------------------------------------------------------------------------
(* The functions of a single tuple: what each analysis begins with.        *)

(* The bits of an expression need what it needs as a word.                 *)
LEMMA SameNeeds ==
    ASSUME NEW es \in Arguments, NEW J \in SUBSET Index, NEW max
    PROVE  IsOPINI(Analysis(es, TRUE), J, max) <=> IsOPINI(Analysis(es, FALSE), J, max)
BY DecomposedAssumption DEF IsOPINI, Simulates

(* Analyses that find what is needed and nothing else.                     *)
ExactAnalyses == BitExpEnable /\ \A t \in AnalysisTuples : Exact(t)

(* An analysis of the word was refused and has left its indexes behind.    *)
Refused ==
    /\ BitExpEnable /\ SomeWordOp(exps)
    /\ Word \in AnalysisTuples
    /\ Exact(Word) => ~IsOPINI(Word, before, n)

(* An analysis of the word is the first; one in bits is the last.          *)
StageInv ==
    calling /\ fn # "checkSecurity" /\ OneTuple =>
        /\ fn = "ValBit" =>
              probes = Analysis(<<<<exps[1][1]>>>>, TRUE) /\ analyses = <<>> /\ given = before
        /\ fn # "ValBit" =>
              /\ probes \in {Word, Bits}
              /\ \/ analyses = <<>>
                 \/ /\ analyses = <<Bits>> /\ probes = Word /\ given = before
                    /\ BitExpEnable /\ SomeWordOp(exps)
              /\ given = before \/ Refused

(* The calls of opini so far have added as much as each was allowed, and   *)
(* there is room for the one under way.                                    *)
CountInv ==
    /\ calls \in Nat
    /\ calling =>
         /\ before \subseteq given
         /\ Cardinality(given \ before) + n <= calls * n

(* A tuple the function was asked about is being analysed, in bits         *)
(* perhaps; it is still to be; or it is simulated already.                 *)
SimulatedWithin(t, J) == \E K \in SUBSET J : before \subseteq K /\ Simulates(t, K)

SimulatedInv ==
    calling =>
        \A t \in AskedTuples :
            \/ t = probes
            \/ t = Word /\ probes = Bits
            \/ fn = "ValBit" /\ t \in ToSet(analyses)
            \/ SimulatedWithin(t, given)

AnswerInv ==
    /\ YesIsRight
    /\ ExactAnalyses /\ OneTuple => NoIsRight

WInv ==
    WrapperTypeOK /\ OpiniInv /\ ProgramInv /\ StageInv /\ CountInv /\ SimulatedInv /\ AnswerInv

(* Nothing has been asked yet, or checkSecurity has just called.           *)
LEMMA WrapperInitInv == WrapperInit => WInv
<1> SUFFICES ASSUME WrapperInit PROVE WInv
  OBVIOUS
<1> USE DEF WrapperInit
<1>1. ToSet(exps) = {} /\ <<>> \in Seq(AnalysisTuples)
  BY DEF ToSet
<1>2. CASE NoCall
  <2> USE <1>2 DEF NoCall
  <2>0. fn # "checkSecurity"
    BY FunctionAssumption
  <2>1. WrapperTypeOK
    BY DEF WrapperTypeOK
  <2>2. {} \ {} = {} /\ Cardinality({}) = 0
    BY FS_EmptySet
  <2>3. TypeOK
    <3>1. probes \in Tuple
      <4>1. probes = CHOOSE t \in Tuple : TRUE
        OBVIOUS
      <4>2. \E t \in Tuple : TRUE
        BY AnalysesAssumption
      <4>3. (CHOOSE t \in Tuple : TRUE) \in Tuple
        BY <4>2, Zenon
      <4> QED
        BY <4>1, <4>3
    <3>2. noFalsePositive \in BOOLEAN /\ res \in BOOLEAN
      OBVIOUS
    <3>3. allowed \in 0 .. MaxAllowed /\ maxShareOcc \in 0 .. MaxAllowed
      BY MaxAllowedAssumption
    <3> QED
      BY <3>1, <3>2, <3>3 DEF TypeOK
  <2>4. OpiniInv
    BY <2>2, <2>3 DEF OpiniInv, IInv, AllowanceInv, ExtendInv, PositiveIsRight
  <2>5. ProgramInv
    BY <1>1, <2>0, MaxAllowedAssumption DEF ProgramInv
  <2>6. StageInv /\ CountInv /\ SimulatedInv /\ AnswerInv
    BY DEF StageInv, CountInv, SimulatedInv, AnswerInv, YesIsRight, NoIsRight
  <2> QED
    BY <2>1, <2>4, <2>5, <2>6 DEF WInv
<1>3. CASE DirectCall
  <2> USE <1>3 DEF DirectCall
  <2>1. WrapperTypeOK
    BY DEF WrapperTypeOK
  <2>2. IInv
    BY InitIInv
  <2>3. OpiniInv
    BY <2>2 DEF OpiniInv, ExactInv, LeastInv, NegativeIsRight, Init
  <2>4. ProgramInv
    BY <1>1 DEF ProgramInv, Init
  <2>5. StageInv /\ AnswerInv
    BY DEF StageInv, AnswerInv, YesIsRight, NoIsRight
  <2>6. CountInv
    <3>1. given \ before = {} /\ Cardinality({}) = 0 /\ n \in Nat
      BY FS_EmptySet, MaxAllowedAssumption DEF Init
    <3>2. calls * n = n
      BY <3>1
    <3>3. Cardinality(given \ before) = 0
      BY <3>1
    <3>4. Cardinality(given \ before) + n <= calls * n
      BY <3>1, <3>2, <3>3
    <3> QED
      BY <3>4 DEF CountInv
  <2>7. SimulatedInv
    BY DEF SimulatedInv, AskedTuples
  <2> QED
    BY <2>1, <2>3, <2>4, <2>5, <2>6, <2>7 DEF WInv
<1> QED
  BY <1>2, <1>3

(* Building an expression calls nothing.                                   *)
LEMMA BuildInv == WInv /\ (\E e \in Exp : Build(e)) => WInv'
<1> SUFFICES ASSUME WInv, NEW e \in Exp, Build(e) PROVE WInv'
  OBVIOUS
<1> USE DEF Build, vars, callVars
<1>1. WrapperTypeOK'
  BY DEF WInv, WrapperTypeOK
<1>2. OpiniInv'
  BY DEF WInv, OpiniInv, IInv, TypeOK, AllowanceInv, ExtendInv, PositiveIsRight, Simulates
<1>3. ProgramInv'
  BY DEF WInv, ProgramInv
<1>4. StageInv' /\ CountInv' /\ SimulatedInv'
  BY DEF WInv, StageInv, CountInv, SimulatedInv
<1>5. AnswerInv'
  BY DEF WInv, AnswerInv, OneTuple, YesIsRight, NoIsRight, AskedTuples, IsOPINI, Simulates
<1> QED
  BY <1>1, <1>2, <1>3, <1>4, <1>5 DEF WInv

(* A call begins with the first analysis, if there is one to make.         *)
LEMMA AskInv ==
    ASSUME WInv, NEW f \in Function, NEW es \in Arguments, NEW max \in 0 .. MaxAllowed,
           NEW indexes \in SUBSET Index, Ask(f, es, max, indexes)
    PROVE  WInv'
<1> DEFINE todo == Analyses(f, es, wordAnalysisHasFailed)
<1>1. /\ ~calling /\ fn \in Function
      /\ ToSet(es) \subseteq built
      /\ fn' = f /\ exps' = es /\ n' = max /\ before' = indexes /\ answer' = FALSE
      /\ calling' = (todo # <<>>)
      /\ IF todo = <<>> THEN analyses' = <<>> /\ calls' = 0 /\ UNCHANGED vars
         ELSE analyses' = Tail(todo) /\ calls' = 1 /\ CallOpini(Head(todo), max, indexes)
      /\ UNCHANGED <<built, wordAnalysisHasFailed>>
  BY DEF Ask
<1>2. wordAnalysisHasFailed \in SUBSET Exp
  BY DEF WInv, WrapperTypeOK
<1>3. todo \in Seq(AnalysisTuples)
  BY <1>2, AnalysesAreTuples
<1>4. f # "checkSecurity" /\ fn # "checkSecurity"
  BY <1>1, FunctionAssumption
<1>5. f # "ValBit" =>
          \/ todo = <<>> /\ ~BitExpEnable
          \/ todo = <<Analysis(es, FALSE)>>
          \/ todo = <<Analysis(es, TRUE)>>
          \/ /\ todo = <<Analysis(es, FALSE), Analysis(es, TRUE)>>
             /\ BitExpEnable /\ SomeWordOp(es)
  BY <1>2, WordThenBits
<1>6. f = "ValBit" /\ Len(es[1]) = 1 => todo = <<Analysis(<<<<es[1][1]>>>>, TRUE)>>
  <2> SUFFICES ASSUME f = "ValBit", Len(es[1]) = 1 PROVE todo = <<Analysis(<<<<es[1][1]>>>>, TRUE)>>
    OBVIOUS
  <2>1. todo = [i \in 1 .. 1 |-> Analysis(<<<<es[1][i]>>>>, TRUE)]
    BY <1>2, BitByBit
  <2> DEFINE bit == Analysis(<<<<es[1][1]>>>>, TRUE)
  <2> HIDE DEF todo
  <2>2. todo = [i \in 1 .. 1 |-> bit]
    BY <2>1
  <2> HIDE DEF bit
  <2>3. todo = <<bit>>
    BY <2>2
  <2> QED
    BY <2>3 DEF bit
<1> HIDE DEF todo
<1>7. WrapperTypeOK'
  BY <1>1 DEF WInv, WrapperTypeOK
<1>8. CASE todo = <<>>
  <2>1. ~calling' /\ analyses' = <<>> /\ calls' = 0 /\ UNCHANGED vars
    BY <1>1, <1>8
  <2>2. OpiniInv'
    BY <2>1 DEF vars, callVars, WInv, OpiniInv, IInv, TypeOK, AllowanceInv, ExtendInv,
                PositiveIsRight, Simulates
  <2>3. ProgramInv'
    BY <1>1, <1>4, <2>1, <1>3, <1>8 DEF vars, callVars, WInv, ProgramInv
  <2>4. StageInv' /\ CountInv' /\ SimulatedInv'
    BY <2>1 DEF StageInv, CountInv, SimulatedInv
  <2>5. ~BitExpEnable \/ ~OneTuple'
    <3>1. CASE f = "ValBit"
      <4>1. ~(Len(es[1]) = 1)
        BY <1>6, <1>8, <3>1
      <4> QED
        BY <1>1, <3>1, <4>1 DEF OneTuple
    <3>2. CASE f # "ValBit"
      BY <1>5, <1>8, <3>2
    <3> QED
      BY <3>1, <3>2
  <2>6. AnswerInv'
    BY <1>1, <2>5 DEF AnswerInv, YesIsRight, ExactAnalyses
  <2> QED
    BY <1>7, <2>2, <2>3, <2>4, <2>6 DEF WInv
<1>9. CASE todo # <<>>
  <2>1. calling' /\ analyses' = Tail(todo) /\ calls' = 1 /\ CallOpini(Head(todo), max, indexes)
    BY <1>1, <1>9
  <2>2. Head(todo) \in AnalysisTuples /\ Tail(todo) \in Seq(AnalysisTuples)
    BY <1>3, <1>9, HeadTailProperties
  <2>3. Head(todo) \in Tuple
    BY <2>2, AnalysesAssumption
  <2>4. OpiniInv'
    BY <2>1, <2>3, CallOpiniInv DEF WInv
  <2>5. /\ probes' = Head(todo) /\ given' = indexes /\ allowed' = max
        /\ pc' = "analyse" /\ noFalsePositive' = noFalsePositive
    BY <2>1 DEF CallOpini
  <2>6. ProgramInv'
    BY <1>1, <1>4, <2>1, <2>2, <2>5 DEF WInv, ProgramInv
  <2>7. StageInv'
    <3>1. CASE f = "ValBit"
      <4>1. Len(es[1]) = 1 => Head(todo) = Analysis(<<<<es[1][1]>>>>, TRUE) /\ Tail(todo) = <<>>
        <5> SUFFICES ASSUME Len(es[1]) = 1
                     PROVE  Head(todo) = Analysis(<<<<es[1][1]>>>>, TRUE) /\ Tail(todo) = <<>>
          OBVIOUS
        <5>1. todo = <<Analysis(<<<<es[1][1]>>>>, TRUE)>>
          BY <1>6, <3>1
        <5> QED
          BY <5>1
      <4> QED
        BY <1>1, <2>1, <2>5, <3>1, <4>1 DEF StageInv, OneTuple
    <3>2. CASE f # "ValBit"
      <4>1. \/ Head(todo) \in {Analysis(es, FALSE), Analysis(es, TRUE)} /\ Tail(todo) = <<>>
            \/ /\ Head(todo) = Analysis(es, FALSE) /\ Tail(todo) = <<Analysis(es, TRUE)>>
               /\ BitExpEnable /\ SomeWordOp(es)
        <5>1. \/ todo = <<Analysis(es, FALSE)>>
              \/ todo = <<Analysis(es, TRUE)>>
              \/ /\ todo = <<Analysis(es, FALSE), Analysis(es, TRUE)>>
                 /\ BitExpEnable /\ SomeWordOp(es)
          BY <1>5, <1>9, <3>2
        <5>2. \A a, b : /\ Head(<<a>>) = a /\ Tail(<<a>>) = <<>>
                        /\ Head(<<a, b>>) = a /\ Tail(<<a, b>>) = <<b>>
          OBVIOUS
        <5> QED
          BY <5>1, <5>2
      <4> QED
        BY <1>1, <2>1, <2>5, <3>2, <4>1 DEF StageInv, Word, Bits
    <3> QED
      BY <3>1, <3>2
  <2>8. AnswerInv'
    BY <1>1, <2>1 DEF AnswerInv, YesIsRight, NoIsRight
  <2>9. CountInv'
    <3>1. indexes \ indexes = {} /\ Cardinality({}) = 0
      BY FS_EmptySet
    <3>2. max \in Nat /\ 1 * max = max
      BY MaxAllowedAssumption
    <3>3. given' \ before' = {} /\ n' = max /\ calls' * n' = max
      BY <1>1, <2>1, <2>5, <3>2
    <3>4. Cardinality(given' \ before') = 0
      BY <3>1, <3>3
    <3>5. Cardinality(given' \ before') + n' <= calls' * n'
      BY <3>2, <3>3, <3>4
    <3> QED
      BY <1>1, <2>1, <2>5, <3>5 DEF CountInv
  <2>10. SimulatedInv'
    <3> SUFFICES ASSUME NEW t \in AskedTuples'
                 PROVE  \/ t = probes'
                        \/ t = Word' /\ probes' = Bits'
                        \/ fn' = "ValBit" /\ t \in ToSet(analyses')
      BY DEF SimulatedInv
    <3>1. CASE f = "ValBit"
      <4>1. PICK b \in ToSet(es[1]) : t = Analysis(<<<<b>>>>, TRUE)
        BY <1>1, <3>1 DEF AskedTuples
      <4>2. PICK i \in DOMAIN es[1] : b = es[1][i]
        BY <4>1 DEF ToSet
      <4>3. es[1] \in Seq(UNION {ToSet(x) : x \in Exp})
        BY ExpAssumption DEF Arguments
      <4>4. i \in 1 .. Len(es[1])
        BY <4>2, <4>3
      <4>5. t = todo[i] /\ i \in DOMAIN todo
        BY <1>2, <3>1, <4>1, <4>2, <4>4, BitByBit DEF todo
      <4>6. todo[i] = Head(todo) \/ todo[i] \in ToSet(Tail(todo))
        BY <1>3, <1>9, <4>5, HeadOrTail
      <4> QED
        BY <1>1, <2>1, <2>5, <3>1, <4>5, <4>6
    <3>2. CASE f # "ValBit"
      <4>1. t = Word'
        BY <1>1, <1>4, <3>2 DEF AskedTuples, Word
      <4>2. probes' \in {Word', Bits'}
        BY <1>1, <2>1, <2>7, <1>4, <3>2 DEF StageInv, OneTuple
      <4> QED
        BY <4>1, <4>2
    <3> QED
      BY <3>1, <3>2
  <2> QED
    BY <1>7, <2>4, <2>6, <2>7, <2>8, <2>9, <2>10 DEF WInv
<1> QED
  BY <1>8, <1>9

(* The one tuple that a call is about.                                     *)
LEMMA AskedTuple ==
    ASSUME WInv, calling, OneTuple
    PROVE  \A t \in AskedTuples, J \in SUBSET Index, max \in Nat :
               IsOPINI(t, J, max) <=> IsOPINI(probes, J, max)
<1> SUFFICES ASSUME NEW t \in AskedTuples, NEW J \in SUBSET Index, NEW max \in Nat
             PROVE  IsOPINI(t, J, max) <=> IsOPINI(probes, J, max)
  OBVIOUS
<1>1. CASE fn = "checkSecurity"
  BY <1>1 DEF AskedTuples
<1>2. CASE fn = "ValBit"
  <2>1. exps \in Arguments /\ probes = Analysis(<<<<exps[1][1]>>>>, TRUE) /\ Len(exps[1]) = 1
    BY <1>2 DEF WInv, StageInv, ProgramInv, OneTuple
  <2>2. exps[1] \in Seq(UNION {ToSet(x) : x \in Exp})
    BY <2>1, ExpAssumption DEF Arguments
  <2>3. ToSet(exps[1]) = {exps[1][1]}
    BY <2>1, <2>2 DEF ToSet
  <2>4. PICK b \in ToSet(exps[1]) : t = Analysis(<<<<b>>>>, TRUE)
    BY <1>2 DEF AskedTuples
  <2> QED
    BY <2>1, <2>3, <2>4
<1>3. CASE fn \notin {"checkSecurity", "ValBit"}
  <2>1. exps \in Arguments /\ probes \in {Word, Bits}
    BY <1>3 DEF WInv, StageInv, ProgramInv
  <2>2. t = Word
    BY <1>3 DEF AskedTuples, Word
  <2> QED
    BY <2>1, <2>2, SameNeeds DEF Word, Bits
<1> QED
  BY <1>1, <1>2, <1>3

(* Whatever opini has answered, the indexes it hands back are within what  *)
(* the calls so far have been allowed.                                     *)
LEMMA AddedSoFar ==
    ASSUME WInv, calling
    PROVE  /\ before \subseteq outputIndexes
           /\ Cardinality(outputIndexes \ before) <= calls * n
<1>1. /\ before \subseteq given /\ given \subseteq outputIndexes /\ outputIndexes \subseteq Index
      /\ n = allowed /\ n \in Nat /\ maxShareOcc \in Nat /\ calls \in Nat
      /\ maxShareOcc + Cardinality(outputIndexes \ given) = allowed
      /\ Cardinality(given \ before) + n <= calls * n
  BY MaxAllowedAssumption DEF WInv, CountInv, ProgramInv, OpiniInv, IInv, TypeOK, AllowanceInv
<1>2. (given \ before) \cup (outputIndexes \ given) = outputIndexes \ before
  BY <1>1
<1>3. /\ Cardinality(outputIndexes \ before) = Cardinality(given \ before) + Cardinality(outputIndexes \ given)
      /\ Cardinality(given \ before) \in Nat /\ Cardinality(outputIndexes \ given) \in Nat
  <2>1. given \ before \in SUBSET Index /\ outputIndexes \ given \in SUBSET Index
    BY <1>1
  <2>2. (given \ before) \cap (outputIndexes \ given) = {}
    OBVIOUS
  <2> QED
    BY <1>2, <2>1, <2>2, DisjointCount, IndexesCount
<1> DEFINE bound == calls * n
<1>4. bound \in Nat
  BY <1>1
<1> HIDE DEF bound
<1>5. Cardinality(given \ before) + n <= bound
  BY <1>1 DEF bound
<1>6. Cardinality(outputIndexes \ before) <= bound
  BY <1>1, <1>3, <1>4, <1>5
<1> QED
  BY <1>1, <1>6 DEF bound

(* When opini says yes, the tuples that are done with are all simulated    *)
(* within the indexes it hands back.                                       *)
LEMMA SimulatedSoFar ==
    ASSUME WInv, calling, pc = "returned", res, NEW t \in AskedTuples,
           ~(fn = "ValBit" /\ t \in ToSet(analyses))
    PROVE  SimulatedWithin(t, outputIndexes)
<1>1. /\ before \subseteq given /\ given \subseteq outputIndexes /\ outputIndexes \subseteq Index
      /\ Simulates(probes, outputIndexes)
  BY DEF WInv, CountInv, OpiniInv, IInv, TypeOK, PositiveIsRight
<1>2. CASE t = probes
  BY <1>1, <1>2 DEF SimulatedWithin
<1>3. CASE t = Word /\ probes = Bits
  <2>1. CASE exps \in Arguments
    <3>1. Simulates(t, outputIndexes)
      BY <1>1, <1>3, <2>1, DecomposedAssumption DEF Simulates, Word, Bits
    <3> QED
      BY <1>1, <3>1 DEF SimulatedWithin
  <2>2. CASE exps \notin Arguments
    BY <1>2, <2>2 DEF WInv, ProgramInv, AskedTuples
  <2> QED
    BY <2>1, <2>2
<1>4. CASE SimulatedWithin(t, given)
  BY <1>1, <1>4 DEF SimulatedWithin
<1> QED
  BY <1>2, <1>3, <1>4 DEF WInv, SimulatedInv

(* A no of opini is right about the call, when it was the first analysis   *)
(* or the one before it was refused too.                                   *)
LEMMA RightAnswer ==
    ASSUME WInv, calling, pc = "returned", OneTuple, ExactAnalyses, ~res, exps # <<>>
    PROVE  \A t \in AskedTuples : ~IsOPINI(t, before, n)
<1>1. before \in SUBSET Index /\ n \in Nat /\ n = allowed
  BY MaxAllowedAssumption DEF WInv, ProgramInv, OpiniInv, IInv, TypeOK
<1>2. fn # "checkSecurity" /\ exps \in Arguments /\ probes \in AnalysisTuples
  BY DEF WInv, ProgramInv
<1>3. CASE given = before
  <2>1. Exact(probes)
    BY <1>2 DEF ExactAnalyses
  <2>2. ~IsOPINI(probes, before, n)
    BY <1>1, <1>3, <2>1 DEF WInv, OpiniInv, ExactInv, NegativeIsRight
  <2> QED
    BY <1>1, <2>2, AskedTuple
<1>4. CASE Refused /\ fn # "ValBit"
  <2>1. ~IsOPINI(Word, before, n)
    BY <1>4 DEF Refused, ExactAnalyses
  <2> QED
    BY <1>2, <1>4, <2>1 DEF AskedTuples, Word
<1>5. given = before \/ (Refused /\ fn # "ValBit")
  BY <1>2 DEF WInv, StageInv
<1> QED
  BY <1>3, <1>4, <1>5

(* The answer of opini is the answer of the function, or the next analysis *)
(* begins.                                                                 *)
LEMMA ResumeInv == WInv /\ Resume => WInv'
<1> SUFFICES ASSUME WInv, Resume PROVE WInv'
  OBVIOUS
<1>1. /\ calling /\ pc = "returned"
      /\ UNCHANGED <<built, fn, exps, n, before>>
  BY DEF Resume
<1>2. wordAnalysisHasFailed' \subseteq built
  <2>1. fn = "Val" => exps[1] \in built
    <3> SUFFICES ASSUME fn = "Val" PROVE exps[1] \in built
      OBVIOUS
    <3>1. exps \in Arguments /\ ToSet(exps) \subseteq built
      BY <1>1 DEF WInv, ProgramInv
    <3>2. exps[1] \in ToSet(exps)
      BY <3>1 DEF Arguments, ToSet
    <3> QED
      BY <3>1, <3>2
  <2> QED
    BY <2>1 DEF Resume, WInv, WrapperTypeOK
<1>3. CASE analyses = <<>> \/ res = (fn # "ValBit")
  <2>1. answer' = res /\ calling' = FALSE /\ UNCHANGED <<analyses, calls, vars>>
    BY <1>3 DEF Resume
  <2> USE DEF vars, callVars
  <2>2. WrapperTypeOK'
    BY <1>1, <1>2, <2>1 DEF WInv, WrapperTypeOK, OpiniInv, IInv, TypeOK
  <2>3. OpiniInv'
    BY <2>1 DEF WInv, OpiniInv, IInv, TypeOK, AllowanceInv, ExtendInv, PositiveIsRight, Simulates
  <2>4. ProgramInv'
    BY <1>1, <2>1 DEF WInv, ProgramInv
  <2>5. StageInv' /\ CountInv' /\ SimulatedInv'
    BY <2>1 DEF WInv, StageInv, CountInv, SimulatedInv
  <2>6. AnswerInv'
    <3>1. AskedTuples' = AskedTuples /\ (OneTuple' <=> OneTuple)
      BY <1>1, <2>1 DEF AskedTuples, OneTuple
    <3>2. YesIsRight'
      <4> SUFFICES ASSUME res
                   PROVE  /\ Cardinality(outputIndexes \ before) <= calls * n
                          /\ \A t \in AskedTuples : SimulatedWithin(t, outputIndexes)
        BY <1>1, <2>1, <3>1 DEF YesIsRight, SimulatedWithin, Simulates
      <4>1. fn = "ValBit" => ToSet(analyses) = {}
        <5>1. fn = "ValBit" => analyses = <<>>
          BY <1>3
        <5>2. ToSet(<<>>) = {}
          BY DEF ToSet
        <5> QED
          BY <5>1, <5>2
      <4> QED
        BY <1>1, <4>1, AddedSoFar, SimulatedSoFar
    <3>3. ASSUME ExactAnalyses, OneTuple PROVE NoIsRight'
      <4> SUFFICES ASSUME ~res, exps # <<>> PROVE \E t \in AskedTuples : ~IsOPINI(t, before, n)
        BY <1>1, <2>1, <3>1 DEF NoIsRight
      <4>1. \E t : t \in AskedTuples
        <5>1. exps \in Arguments /\ fn # "checkSecurity"
          BY <1>1 DEF WInv, ProgramInv
        <5>2. CASE fn = "ValBit"
          <6>1. exps[1] \in Seq(UNION {ToSet(x) : x \in Exp}) /\ Len(exps[1]) = 1
            BY <3>3, <5>1, <5>2, ExpAssumption DEF Arguments, OneTuple
          <6>2. exps[1][1] \in ToSet(exps[1])
            BY <6>1 DEF ToSet
          <6>3. Analysis(<<<<exps[1][1]>>>>, TRUE) \in AskedTuples
            BY <5>2, <6>2 DEF AskedTuples
          <6> QED
            BY <6>3
        <5>3. CASE fn # "ValBit"
          BY <5>1, <5>3 DEF AskedTuples
        <5> QED
          BY <5>2, <5>3
      <4> QED
        BY <1>1, <3>3, <4>1, RightAnswer
    <3> QED
      BY <3>1, <3>2, <3>3 DEF AnswerInv
  <2> QED
    BY <2>2, <2>3, <2>4, <2>5, <2>6 DEF WInv
<1>4. CASE ~(analyses = <<>> \/ res = (fn # "ValBit"))
  <2>1. /\ analyses' = Tail(analyses) /\ calls' = calls + 1
        /\ CallOpini(Head(analyses), n, outputIndexes)
        /\ UNCHANGED <<answer, calling>>
    BY <1>4 DEF Resume
  <2>2. Head(analyses) \in AnalysisTuples /\ Tail(analyses) \in Seq(AnalysisTuples)
    BY <1>4, HeadTailProperties DEF WInv, ProgramInv
  <2>3. Head(analyses) \in Tuple /\ n \in 0 .. MaxAllowed /\ outputIndexes \in SUBSET Index
    BY <2>2, AnalysesAssumption DEF WInv, ProgramInv, OpiniInv, IInv, TypeOK
  <2>4. OpiniInv'
    BY <2>1, <2>3, CallOpiniInv DEF WInv
  <2>5. /\ probes' = Head(analyses) /\ given' = outputIndexes /\ allowed' = n
        /\ pc' = "analyse" /\ noFalsePositive' = noFalsePositive
    BY <2>1 DEF CallOpini
  <2>6. WrapperTypeOK'
    BY <1>1, <1>2, <2>1 DEF WInv, WrapperTypeOK
  <2>7. fn # "checkSecurity"
    BY <1>4 DEF WInv, ProgramInv
  <2>8. ProgramInv'
    BY <1>1, <2>1, <2>2, <2>5, <2>7 DEF WInv, ProgramInv
  <2>9. StageInv'
    <3> SUFFICES ASSUME OneTuple
                 PROVE  /\ fn # "ValBit" /\ probes' = Bits /\ analyses' = <<>>
                        /\ given' = before \/ Refused
      BY <1>1 DEF StageInv, OneTuple, Word, Bits, Refused
    <3>1. fn # "ValBit"
      BY <1>1, <1>4, <2>7 DEF WInv, StageInv
    <3>2. /\ analyses = <<Bits>> /\ probes = Word /\ given = before
          /\ BitExpEnable /\ SomeWordOp(exps)
      BY <1>1, <1>4, <2>7, <3>1 DEF WInv, StageInv
    <3>3. ~res
      BY <1>4, <3>1 DEF WInv, OpiniInv, IInv, TypeOK
    <3>4. Refused
      <4>1. Word \in AnalysisTuples /\ n = allowed
        BY <1>1, <2>7, <3>2 DEF WInv, ProgramInv
      <4>2. Exact(Word) => ~IsOPINI(Word, before, n)
        BY <1>1, <3>2, <3>3, <4>1 DEF WInv, OpiniInv, ExactInv, NegativeIsRight
      <4> QED
        BY <3>2, <4>1, <4>2 DEF Refused
    <3> QED
      BY <2>1, <2>5, <3>1, <3>2, <3>4
  <2>10. AnswerInv'
    BY <1>1, <2>1 DEF WInv, WrapperTypeOK, AnswerInv, YesIsRight, NoIsRight
  <2>11. CountInv'
    <3>1. before \subseteq outputIndexes /\ Cardinality(outputIndexes \ before) <= calls * n
      BY <1>1, AddedSoFar
    <3>2. calls \in Nat /\ n \in Nat /\ outputIndexes \ before \in SUBSET Index
      BY MaxAllowedAssumption DEF WInv, CountInv, ProgramInv, OpiniInv, IInv, TypeOK
    <3>3. (calls + 1) * n = calls * n + n /\ calls * n \in Nat
      BY <3>2
    <3>4. Cardinality(outputIndexes \ before) + n <= (calls + 1) * n
      BY <3>1, <3>2, <3>3, IndexesCount
    <3> QED
      BY <1>1, <2>1, <2>5, <3>1, <3>2, <3>4 DEF CountInv
  <2>12. SimulatedInv'
    <3> SUFFICES ASSUME NEW t \in AskedTuples
                 PROVE  \/ t = probes'
                        \/ t = Word /\ probes' = Bits
                        \/ fn = "ValBit" /\ t \in ToSet(Tail(analyses))
                        \/ SimulatedWithin(t, outputIndexes)
      BY <1>1, <2>1, <2>5, <2>7 DEF SimulatedInv, SimulatedWithin, Simulates, AskedTuples, Word, Bits
    <3>1. CASE fn = "ValBit"
      <4>1. res
        BY <1>4, <3>1 DEF WInv, OpiniInv, IInv, TypeOK
      <4>2. CASE t \in ToSet(analyses)
        <5>1. PICK i \in DOMAIN analyses : t = analyses[i]
          BY <4>2 DEF ToSet
        <5>2. analyses \in Seq(AnalysisTuples) /\ analyses # <<>>
          BY <1>4 DEF WInv, ProgramInv
        <5> QED
          BY <2>5, <3>1, <5>1, <5>2, HeadOrTail
      <4>3. CASE t \notin ToSet(analyses)
        BY <1>1, <4>1, <4>3, SimulatedSoFar
      <4> QED
        BY <4>2, <4>3
    <3>2. CASE fn # "ValBit"
      <4>1. t = Word
        BY <2>7, <3>2 DEF AskedTuples, Word
      <4>2. analyses = <<Bits>>
        BY <1>1, <1>4, <2>7, <3>2 DEF WInv, StageInv, OneTuple
      <4>3. probes' = Bits
        BY <2>5, <4>2
      <4> QED
        BY <4>1, <4>3
    <3> QED
      BY <3>1, <3>2
  <2> QED
    BY <2>4, <2>6, <2>8, <2>9, <2>10, <2>11, <2>12 DEF WInv
<1> QED
  BY <1>3, <1>4

(* A step of opini is one of a call that has not returned.                 *)
LEMMA OpiniStepInv == WInv /\ OpiniStep => WInv'
<1> SUFFICES ASSUME WInv, Next, UNCHANGED wrapperVars PROVE WInv'
  BY DEF OpiniStep
<1> USE DEF wrapperVars
<1>1. pc # "returned"
  BY DEF Next, AnalyseMasked, AnalyseOccurring, Extend
<1>2. calling
  BY <1>1 DEF WInv, ProgramInv
<1>3. UNCHANGED <<probes, noFalsePositive, given, allowed>>
  BY DEF Next, AnalyseMasked, AnalyseOccurring, Found, Extend, callVars
<1>4. WrapperTypeOK'
  BY DEF WInv, WrapperTypeOK
<1>5. OpiniInv'
  BY <1>2, NextIInv, NextExactInv DEF WInv, OpiniInv
<1>6. ProgramInv'
  BY <1>2, <1>3 DEF WInv, ProgramInv
<1>7. StageInv'
  BY <1>3 DEF WInv, StageInv, OneTuple, Word, Bits, Refused
<1>8. AnswerInv'
  BY <1>2 DEF WInv, WrapperTypeOK, AnswerInv, YesIsRight, NoIsRight
<1>9. CountInv' /\ SimulatedInv'
  BY <1>3 DEF WInv, CountInv, SimulatedInv, SimulatedWithin, Simulates, AskedTuples, Word, Bits
<1> QED
  BY <1>4, <1>5, <1>6, <1>7, <1>8, <1>9 DEF WInv

(* The invariant holds of any program.                                     *)
THEOREM ProgramInvariance == WrapperSpec => []WInv
<1>1. WInv /\ [WrapperNext]_allVars => WInv'
  <2> SUFFICES ASSUME WInv, [WrapperNext]_allVars PROVE WInv'
    OBVIOUS
  <2>1. CASE UNCHANGED allVars
    <3> USE <2>1 DEF allVars, wrapperVars, vars, callVars
    <3>1. WrapperTypeOK'
      BY DEF WInv, WrapperTypeOK
    <3>2. OpiniInv'
      BY DEF WInv, OpiniInv, IInv, TypeOK, AllowanceInv, ExtendInv, PositiveIsRight, Simulates, ExactInv, LeastInv, NegativeIsRight, IsOPINI
    <3>3. ProgramInv'
      BY DEF WInv, ProgramInv
    <3>4. StageInv' /\ CountInv' /\ SimulatedInv'
      BY DEF WInv, StageInv, OneTuple, Word, Bits, Refused, CountInv, SimulatedInv, SimulatedWithin,
             Simulates, AskedTuples
    <3>5. AnswerInv'
      BY DEF WInv, AnswerInv, OneTuple, YesIsRight, NoIsRight, AskedTuples, IsOPINI, Simulates
    <3> QED
      BY <3>1, <3>2, <3>3, <3>4, <3>5 DEF WInv
  <2> QED
    BY <2>1, BuildInv, AskInv, ResumeInv, OpiniStepInv DEF WrapperNext
<1> QED
  BY <1>1, WrapperInitInv, PTL DEF WrapperSpec

-----------------------------------------------------------------------------
(* Only expressions that have been built are marked, and no function       *)
(* answers while it is still running.                                      *)
THEOREM WrapperTypeCorrect == WrapperSpec => []WrapperTypeOK
BY ProgramInvariance, PTL DEF WInv

(* Whichever functions a program calls, in whatever order and with         *)
(* whatever indexes the calls before have left, every single yes of opini  *)
(* is right about the indexes it was given; with an exact analysis so is   *)
(* every no.                                                               *)
THEOREM CallsOfOpiniCorrect ==
    WrapperSpec => [](TypeOK /\ PositiveIsRight /\ (calling => VerdictExact))
<1>1. WInv => TypeOK /\ PositiveIsRight /\ (calling => VerdictExact)
  BY ExactAnswer DEF WInv, OpiniInv, IInv
<1> QED
  BY <1>1, ProgramInvariance, PTL

(* Whatever a program builds and calls, a yes of checkOPINIVal,            *)
(* checkOPINIValBit, checkOPINITrans or checkSecurity means that every     *)
(* tuple asked about is simulated within the indexes handed back, of which *)
(* each call of opini has added at most maxShareOcc.                       *)
THEOREM YesCorrect == WrapperSpec => []YesIsRight
<1>1. WInv => YesIsRight
  BY DEF WInv, AnswerInv
<1> QED
  BY <1>1, ProgramInvariance, PTL

(* So a yes that took one call of opini, as one of a word analysis that    *)
(* does not fail, verifies the property that was asked for.                *)
THEOREM YesAtOnceCorrect == WrapperSpec => [](calls = 1 => YesVerifiesProperty)
<1>1. WInv /\ calls = 1 => YesVerifiesProperty
  <2> SUFFICES ASSUME WInv, calls = 1, answer, NEW t \in AskedTuples
               PROVE  IsOPINI(t, before, n)
    BY DEF YesVerifiesProperty
  <2>1. /\ before \subseteq Index /\ outputIndexes \subseteq Index
        /\ n \in Nat /\ Cardinality(outputIndexes \ before) <= calls * n
    BY MaxAllowedAssumption DEF WInv, AnswerInv, YesIsRight, ProgramInv, OpiniInv, IInv, TypeOK
  <2>2. PICK K \in SUBSET outputIndexes : before \subseteq K /\ Simulates(t, K)
    BY DEF WInv, AnswerInv, YesIsRight
  <2>3. Cardinality(K \ before) <= Cardinality(outputIndexes \ before)
    <3>1. K \ before \in SUBSET (outputIndexes \ before) /\ outputIndexes \ before \in SUBSET Index
      BY <2>1
    <3> QED
      BY <3>1, FewerIndexes
  <2>4. Cardinality(K \ before) <= n
    <3>1. Cardinality(K \ before) \in Nat /\ Cardinality(outputIndexes \ before) \in Nat
      <4>1. K \ before \in SUBSET Index /\ outputIndexes \ before \in SUBSET Index
        BY <2>1
      <4> QED
        BY <4>1, IndexesCount
    <3> QED
      BY <2>1, <2>3, <3>1
  <2> QED
    BY <2>1, <2>2, <2>4 DEF IsOPINI
<1> QED
  BY <1>1, ProgramInvariance, PTL

(* A no of these functions is right, too, when bit analyses are enabled    *)
(* and analyses are exact: no mark that an earlier call has left, on the   *)
(* expression or on one it was built of, and no index that an analysis has *)
(* added, makes a difference.                                              *)
THEOREM NoCorrect ==
    ASSUME ExactAnalyses
    PROVE  WrapperSpec => [](OneTuple => NoIsRight)
<1>1. WInv => (OneTuple => NoIsRight)
  BY ExactAnalyses DEF WInv, AnswerInv
<1> QED
  BY <1>1, ProgramInvariance, PTL
=============================================================================
