------------------------------- MODULE MCTuples -------------------------------
(***************************************************************************)
(* Tuples of one-bit expressions, or of sums of words: one kind of tuple   *)
(* in a run.                                                               *)
(***************************************************************************)
EXTENDS MCCheckProperty, MCSumProperty

VARIABLE ofWords        \* which kind

tupleVars == <<ofWords, vars, sumVars>>

NoBits ==
    /\ query = CHOOSE q \in Queries : TRUE
    /\ asked = <<Symb("m0")>>
    /\ roots = asked
    /\ masksTaken = {}
    /\ pc = "done"
    /\ verdict = Holds
    /\ additionalInputIndexes = {}
    /\ turns = 0

NoWords ==
    /\ sumsAsked = <<Symb("m0")>>
    /\ sumRoots = sumsAsked
    /\ exact = TRUE
    /\ taken = {}
    /\ answer = "yes"
    /\ involutive = TRUE

TuplesInit ==
    \/ ofWords = FALSE /\ Init /\ NoWords
    \/ ofWords = TRUE /\ SumInit /\ NoBits

TuplesNext ==
    \/ ~ofWords /\ Next /\ UNCHANGED <<ofWords, sumVars>>
    \/ ofWords /\ SumNext /\ UNCHANGED <<ofWords, vars>>

TuplesSpec == TuplesInit /\ [][TuplesNext]_tupleVars
=============================================================================
