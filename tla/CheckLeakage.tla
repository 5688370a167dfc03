----------------------------- MODULE CheckLeakage -----------------------------
(***************************************************************************)
(* The functions checkOPINIVal, checkOPINIValBit and checkOPINITrans       *)
(* (src/src/check_leakage.cpp), which decide whether an expression is      *)
(* analysed as it is or decomposed in bits, call opini (the module Opini)  *)
(* for it, once or several times, and remember of an expression that its   *)
(* word analysis has failed.  A program builds expressions and calls them  *)
(* as it likes; or it verifies a gadget, and checkSecurity calls opini     *)
(* itself for a tuple of probes.  The functions for the other properties   *)
(* are the same macros around analyses of a single round.                  *)
(***************************************************************************)
EXTENDS Opini, SequencesExt

CONSTANTS
    Exp,                    \* expressions: sequences of bits
    HasWordOp(_),           \* of an expression
    SubExps(_),             \* the operands an expression is built of
    Function,               \* the functions called, among "Val", "ValBit" and "Trans"
    ProbeTuple,             \* the tuples of probes checkSecurity asks about
    BitExpEnable            \* BIT_EXP_ENABLE

ASSUME FunctionAssumption == Function \subseteq {"Val", "ValBit", "Trans"} /\ BitExpEnable \in BOOLEAN
ASSUME ExpAssumption == \A e \in Exp : e \in Seq(UNION {ToSet(x) : x \in Exp}) /\ e # <<>>

VARIABLES
    built,                  \* the expressions that have been built
    wordAnalysisHasFailed,  \* those marked wordAnalysisHasFailedOnSubExp
    fn, exps, n,            \* the call: the function, its expressions, maxShareOcc
    analyses,               \* calls of opini it has still to make
    calling,                \* whether the function is still running
    answer,                 \* what it returned
    before,                 \* history: the caller's outputIndexes at the call
    calls                   \* history: the calls of opini it has made

wrapperVars == <<built, wordAnalysisHasFailed, fn, exps, n, analyses, calling, answer, before, calls>>
allVars == <<wrapperVars, vars>>

(* An analysis of the bits of es, decomposed or not.                       *)
Analysis(es, bitDecompose) == [of |-> FlattenSeq(es), bits |-> bitDecompose]

(* Mutant: only the first expression of a transition is analysed.          *)
AnalysesOfFirst(f, es, marked) ==
    IF f = "ValBit" THEN [i \in DOMAIN es[1] |-> Analysis(<<<<es[1][i]>>>>, TRUE)]
    ELSE <<Analysis(<<es[1]>>, FALSE), Analysis(<<es[1]>>, TRUE)>>

(* The calls of opini that a function makes at most, in order: word first  *)
(* and only with a word operator, unless bit analyses are disabled; every  *)
(* bit for ValBit.                                                         *)
Analyses(f, es, marked) ==
    LET word == Analysis(es, FALSE)
        bits == IF BitExpEnable THEN <<Analysis(es, TRUE)>> ELSE <<>>
        hasWordOp == \E i \in DOMAIN es : HasWordOp(es[i])
        failed == \E i \in DOMAIN es : es[i] \in marked
    IN  CASE f = "ValBit" -> [i \in DOMAIN es[1] |-> Analysis(<<<<es[1][i]>>>>, TRUE)]
          [] f # "ValBit" /\ hasWordOp -> (IF failed THEN <<>> ELSE <<word>>) \o bits
          [] f # "ValBit" /\ ~hasWordOp -> IF BitExpEnable THEN bits ELSE <<word>>

(* The expressions of a call, and all that is analysed in any.             *)
Arguments == {<<e>> : e \in Exp} \cup {<<e, e2>> : e, e2 \in Exp}

AnalysisTuples ==
    UNION {ToSet(Analyses(f, es, marked)) : f \in Function, es \in Arguments, marked \in SUBSET Exp}

ASSUME AnalysesAssumption == Tuple # {} /\ AnalysisTuples \subseteq Tuple

(* Decomposing an expression does not change what it reveals.              *)
ASSUME DecomposedAssumption ==
    \A es \in Arguments : \A J \in SUBSET Index :
        Needed(Analysis(es, TRUE), J) = Needed(Analysis(es, FALSE), J)

(* Mutant: what an earlier call has left of its allowance.                 *)
CallOpiniWithRest(t, max, indexes) ==
    /\ probes' = t
    /\ outputIndexes' = indexes
    /\ given' = indexes
    /\ allowed' = max
    /\ additionalInputIndexes' = {}
    /\ res' = FALSE
    /\ pc' = "analyse"
    /\ UNCHANGED <<noFalsePositive, maxShareOcc>>

(* opini(t, max, outputIndexes, ...): outputIndexes as the last call left  *)
(* it, the allowance as a whole again.                                     *)
CallOpini(t, max, indexes) ==
    /\ probes' = t
    /\ outputIndexes' = indexes
    /\ given' = indexes
    /\ maxShareOcc' = max
    /\ allowed' = max
    /\ additionalInputIndexes' = {}
    /\ res' = FALSE
    /\ pc' = "analyse"
    /\ UNCHANGED noFalsePositive

NoCall ==
    /\ fn \in Function /\ n = 0 /\ calling = FALSE /\ before = {} /\ calls = 0
    /\ probes = CHOOSE t \in Tuple : TRUE
    /\ noFalsePositive = FALSE
    /\ outputIndexes = {} /\ given = {}
    /\ maxShareOcc = 0 /\ allowed = 0
    /\ additionalInputIndexes = {}
    /\ res = FALSE
    /\ pc = "returned"

(* checkSecurity has just called opini.                                    *)
DirectCall ==
    /\ Init
    /\ probes \in ProbeTuple
    /\ fn = "checkSecurity" /\ n = allowed /\ calling = TRUE /\ before = given /\ calls = 1

WrapperInit ==
    /\ NoCall \/ DirectCall
    /\ built = {e \in Exp : SubExps(e) = {}}
    /\ wordAnalysisHasFailed = {}
    /\ exps = <<>>
    /\ analyses = <<>>
    /\ answer = FALSE

(* Node::OpNode: the mark is handed on to what is built of a marked node.  *)
Build(e) ==
    /\ ~calling /\ fn \in Function
    /\ e \notin built /\ SubExps(e) \subseteq built
    /\ built' = built \cup {e}
    /\ wordAnalysisHasFailed' = IF SubExps(e) \cap wordAnalysisHasFailed # {}
                                THEN wordAnalysisHasFailed \cup {e} ELSE wordAnalysisHasFailed
    /\ UNCHANGED <<fn, exps, n, analyses, calling, answer, before, calls, vars>>

(* A call on built expressions: two for a transition.                      *)
Ask(f, es, max, indexes) ==
    LET todo == Analyses(f, es, wordAnalysisHasFailed)
    IN  /\ ~calling /\ fn \in Function
        /\ ToSet(es) \subseteq built
        /\ Len(es) = IF f = "Trans" THEN 2 ELSE 1
        /\ fn' = f /\ exps' = es /\ n' = max /\ before' = indexes
        /\ answer' = FALSE
        /\ calling' = (todo # <<>>)
        /\ IF todo = <<>>
           THEN analyses' = <<>> /\ calls' = 0 /\ UNCHANGED vars
           ELSE /\ analyses' = Tail(todo) /\ calls' = 1
                /\ CallOpini(Head(todo), max, indexes)
        /\ UNCHANGED <<built, wordAnalysisHasFailed>>

(* Mutant: the loop over the analyses is not left.                         *)
ResumeAll ==
    /\ calling /\ pc = "returned"
    /\ answer' = res
    /\ IF analyses = <<>>
       THEN calling' = FALSE /\ UNCHANGED <<analyses, calls, vars>>
       ELSE /\ analyses' = Tail(analyses) /\ calls' = calls + 1
            /\ CallOpini(Head(analyses), n, outputIndexes)
            /\ UNCHANGED calling
    /\ UNCHANGED <<built, wordAnalysisHasFailed, fn, exps, n, before>>

(* opini returns: the first yes of a Val or Trans, the first no of a       *)
(* ValBit decides; a no of the word analysis of a Val is remembered.       *)
Resume ==
    /\ calling /\ pc = "returned"
    /\ wordAnalysisHasFailed' =
          IF fn = "Val" /\ HasWordOp(exps[1]) /\ ~probes.bits /\ ~res
          THEN wordAnalysisHasFailed \cup {exps[1]} ELSE wordAnalysisHasFailed
    /\ IF analyses = <<>> \/ res = (fn # "ValBit")
       THEN answer' = res /\ calling' = FALSE /\ UNCHANGED <<analyses, calls, vars>>
       ELSE /\ analyses' = Tail(analyses) /\ calls' = calls + 1
            /\ CallOpini(Head(analyses), n, outputIndexes)
            /\ UNCHANGED <<answer, calling>>
    /\ UNCHANGED <<built, fn, exps, n, before>>

OpiniStep == Next /\ UNCHANGED wrapperVars

WrapperNext ==
    \/ \E e \in Exp : Build(e)
    \/ \E f \in Function, es \in Arguments, max \in 0 .. MaxAllowed, indexes \in SUBSET Index :
          Ask(f, es, max, indexes)
    \/ Resume
    \/ OpiniStep

WrapperSpec == WrapperInit /\ [][WrapperNext]_allVars

(* One thread runs: a call goes on until it returns.                       *)
FairWrapperSpec == WrapperSpec /\ WF_allVars(Resume \/ OpiniStep)

-----------------------------------------------------------------------------
(* What the call was about.                                                *)
AskedTuples ==
    IF fn = "ValBit" THEN {Analysis(<<<<b>>>>, TRUE) : b \in ToSet(exps[1])}
    ELSE IF fn = "checkSecurity" THEN {probes}
    ELSE {Analysis(exps, FALSE)}

WrapperTypeOK ==
    /\ built \subseteq Exp /\ wordAnalysisHasFailed \subseteq built
    /\ calling \in BOOLEAN /\ answer \in BOOLEAN
    /\ answer => ~calling

(* What a yes of a function is worth.  Every tuple it was asked about, any *)
(* bit of a ValBit among them, is simulated within the indexes it hands    *)
(* back, and it has added at most as many of them as it was allowed, once  *)
(* for each call of opini: the allowance is whole again when the bits are  *)
(* analysed after the word and at every bit, while outputIndexes stays as  *)
(* the call before has left it.                                            *)
YesIsRight ==
    answer =>
        /\ Cardinality(outputIndexes \ before) <= calls * n
        /\ \A t \in AskedTuples : \E K \in SUBSET outputIndexes :
              before \subseteq K /\ Simulates(t, K)

(* README.md:313, of these functions by README.md:315: they verify "the    *)
(* corresponding properties", for the maxShareOcc and the outputIndexes    *)
(* of the call.                                                            *)
YesVerifiesProperty ==
    answer => \A t \in AskedTuples : IsOPINI(t, before, n)

(* A function that answers no is right, too, when the word analysis is     *)
(* exact: whatever was asked before, and of whatever other expression.     *)
NoIsRight ==
    ~calling /\ ~answer /\ exps # <<>> => \E t \in AskedTuples : ~IsOPINI(t, before, n)

(* Every call returns: opini ends in each round or finds a new index, and  *)
(* no function asks for ever.                                              *)
CallsReturn == calling ~> ~calling
=============================================================================
