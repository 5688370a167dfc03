-------------------------------- MODULE Opini --------------------------------
(***************************************************************************)
(* opini_internal (src/src/tps.cpp): output probing isolation of a tuple   *)
(* of probes.  Simulating the probes takes the input shares of some        *)
(* indexes; the outputs of the same indexes are then probed as well, which *)
(* may take more indexes, and so on until nothing is added, within an      *)
(* allowance of indexes.  The caller's outputIndexes grows along.          *)
(*                                                                         *)
(* The tuple is known by what the analysis (checkProperty, the module of   *)
(* that name) finds in it:                                                 *)
(*   Needed(t, J)     the indexes that t reveals together with the outputs *)
(*                    of the indexes J: isOPINIWithExev finds these;       *)
(*   Occurring(t, J)  the possible sets of the indexes that occur in it    *)
(*                    when no mask can be taken any more; which one        *)
(*                    depends on the masks that the analysis chose.        *)
(***************************************************************************)
EXTENDS Integers, FiniteSets

CONSTANTS
    Index,              \* the indexes of the shares
    Tuple,              \* the tuples of probes asked about
    Needed(_, _),
    Occurring(_, _),
    MaxAllowed          \* bound: maxShareOcc of a call

ASSUME IndexAssumption == IsFiniteSet(Index)
ASSUME MaxAllowedAssumption == MaxAllowed \in Nat

(* More probes never reveal less.                                          *)
ASSUME NeededAssumption ==
    \A t \in Tuple : \A K \in SUBSET Index : \A J \in SUBSET K :
        Needed(t, J) \subseteq Needed(t, K) /\ Needed(t, K) \subseteq Index

(* The analysis keeps the distribution, and so every index that is needed. *)
ASSUME OccurringAssumption ==
    \A t \in Tuple : \A J \in SUBSET Index : \A I \in Occurring(t, J) :
        Needed(t, J) \subseteq I /\ I \subseteq Index

VARIABLES
    probes,                     \* the tuple of the call
    noFalsePositive,
    outputIndexes,              \* the caller's set, passed by reference
    maxShareOcc,                \* pp.maxShareOcc: what is left of the allowance
    additionalInputIndexes,     \* filled by checkProperty
    pc,                         \* "analyse", "extend" or "returned"
    res,                        \* what checkProperty, and then the call, returned
    given, allowed              \* history: outputIndexes and maxShareOcc of the call

callVars == <<probes, noFalsePositive, given, allowed>>
vars == <<callVars, outputIndexes, maxShareOcc, additionalInputIndexes, pc, res>>

Init ==
    /\ probes \in Tuple
    /\ noFalsePositive \in BOOLEAN
    /\ outputIndexes \in SUBSET Index
    /\ given = outputIndexes
    /\ maxShareOcc \in 0 .. MaxAllowed
    /\ allowed = maxShareOcc
    /\ additionalInputIndexes = {}
    /\ res = FALSE
    /\ pc = "analyse"

Found(found, indexes) ==
    /\ res' = found
    /\ additionalInputIndexes' = indexes
    /\ pc' = IF found THEN "extend" ELSE "returned"
    /\ UNCHANGED <<callVars, outputIndexes, maxShareOcc>>

(* checkProperty ends with a mask that hides the whole tuple: nothing is   *)
(* needed, and nothing is added.                                           *)
AnalyseMasked ==
    /\ pc = "analyse"
    /\ Needed(probes, outputIndexes) = {}
    /\ Found(TRUE, {})

(* Mutant: counted against the allowance of the call, not what is left.    *)
AnalyseOccurringAnew ==
    /\ pc = "analyse"
    /\ \E occurring \in Occurring(probes, outputIndexes) :
          Found(Cardinality(occurring \ outputIndexes) <= allowed, occurring \ outputIndexes)

(* It ends when no mask can be taken: the indexes that still occur are few *)
(* enough; or they are too many and, with noFalsePositive, those that are  *)
(* needed are counted instead.                                             *)
AnalyseOccurring ==
    /\ pc = "analyse"
    /\ \E occurring \in Occurring(probes, outputIndexes) :
          LET internalSharesIndexes == occurring \ outputIndexes
              effective == Needed(probes, outputIndexes) \ outputIndexes
          IN  IF Cardinality(internalSharesIndexes) <= maxShareOcc
              THEN Found(TRUE, internalSharesIndexes)
              ELSE IF noFalsePositive
              THEN Found(Cardinality(effective) <= maxShareOcc, effective)
              ELSE Found(FALSE, {})

(* Mutant: the allowance is the same in every round.                       *)
ExtendForFree ==
    /\ pc = "extend"
    /\ IF additionalInputIndexes = {}
       THEN pc' = "returned" /\ UNCHANGED <<outputIndexes, maxShareOcc>>
       ELSE /\ outputIndexes' = outputIndexes \cup additionalInputIndexes
            /\ pc' = "analyse"
            /\ UNCHANGED maxShareOcc
    /\ additionalInputIndexes' = {}
    /\ UNCHANGED <<callVars, res>>

(* Mutant: the loop goes on when nothing was found.                        *)
ExtendForever ==
    /\ pc = "extend"
    /\ outputIndexes' = outputIndexes \cup additionalInputIndexes
    /\ maxShareOcc' = maxShareOcc - Cardinality(additionalInputIndexes)
    /\ additionalInputIndexes' = {}
    /\ pc' = "analyse"
    /\ UNCHANGED <<callVars, res>>

(* Mutant: the outputs of the new indexes are not analysed.                *)
ExtendOnce ==
    /\ pc = "extend"
    /\ outputIndexes' = outputIndexes \cup additionalInputIndexes
    /\ maxShareOcc' = maxShareOcc - Cardinality(additionalInputIndexes)
    /\ additionalInputIndexes' = {}
    /\ pc' = "returned"
    /\ UNCHANGED <<callVars, res>>

(* The rest of the loop's body: the outputs of the indexes found are       *)
(* probed too, out of the same allowance.                                  *)
Extend ==
    /\ pc = "extend"
    /\ IF additionalInputIndexes = {}
       THEN pc' = "returned" /\ UNCHANGED <<outputIndexes, maxShareOcc>>
       ELSE /\ outputIndexes' = outputIndexes \cup additionalInputIndexes
            /\ maxShareOcc' = maxShareOcc - Cardinality(additionalInputIndexes)
            /\ pc' = "analyse"
    /\ additionalInputIndexes' = {}
    /\ UNCHANGED <<callVars, res>>

Next == AnalyseMasked \/ AnalyseOccurring \/ Extend

Spec == Init /\ [][Next]_vars

-----------------------------------------------------------------------------
(* Output probing isolation: some set of indexes, with no more new ones    *)
(* than allowed, is enough for the probes and for the outputs of its own   *)
(* indexes.                                                                *)
Simulates(t, J) == Needed(t, J) \subseteq J

IsOPINI(t, J, n) ==
    \E K \in SUBSET Index :
        J \subseteq K /\ Simulates(t, K) /\ Cardinality(K \ J) <= n

TypeOK ==
    /\ probes \in Tuple
    /\ noFalsePositive \in BOOLEAN
    /\ given \subseteq outputIndexes
    /\ outputIndexes \subseteq Index
    /\ allowed \in 0 .. MaxAllowed
    /\ maxShareOcc \in 0 .. MaxAllowed
    /\ additionalInputIndexes \subseteq Index
    /\ pc \in {"analyse", "extend", "returned"}
    /\ res \in BOOLEAN

(* A positive verdict is right, whatever the analysis chose in each round: *)
(* the set that outputIndexes has become simulates the probes and its own  *)
(* outputs, and is within the allowance the call began with.               *)
PositiveIsRight ==
    pc = "returned" /\ res =>
        /\ Simulates(probes, outputIndexes)
        /\ Cardinality(outputIndexes \ given) <= allowed

(* With an analysis that finds no more indexes than are needed, the        *)
(* verdict is exact: no other choice of indexes would have done when this  *)
(* one fails.                                                              *)
Exact(t) == \A J \in SUBSET Index : Occurring(t, J) \subseteq {Needed(t, J)}

VerdictExact ==
    pc = "returned" /\ Exact(probes) => (res <=> IsOPINI(probes, given, allowed))
=============================================================================
