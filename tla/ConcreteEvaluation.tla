------------------------- MODULE ConcreteEvaluation -------------------------
(***************************************************************************)
(* What a tuple of probes reveals, found by enumerating the values of all  *)
(* inputs and masks (the functions isTPSWithExev, isNIWithExev, ... of     *)
(* src/src/concrev.cpp).  The symbols are one bit wide each.               *)
(***************************************************************************)
EXTENDS SymbolTable

CONSTANT
    Value(_, _, _)      \* Value(e, K, M): the value of e when exactly the inputs
                        \* in K and the masks in M are set

Observed(E, K, M) == {e \in E : Value(e, K, M)}

Distribution(E, K) ==
    [o \in {Observed(E, K, M) : M \in SUBSET Mask} |->
        Cardinality({M \in SUBSET Mask : Observed(E, K, M) = o})]

InputsIn(E) == (UNION {Symbols(e) : e \in E}) \cap (Secret \cup Share)

(* An input is effective when, in some context, the distribution of the    *)
(* observation depends on its value.                                       *)
Effective(E) ==
    {s \in InputsIn(E) :
        \E K \in SUBSET (InputsIn(E) \ {s}) :
            Distribution(E, K) # Distribution(E, K \cup {s})}

SharesOf(s) == {sh \in Share : OrigSecret(sh) = s}

IsTPSWithExev(E) == Effective(E) = {}

IsNIWithExev(E, maxShareOcc) ==
    \A s \in Secret : Cardinality(Effective(E) \cap SharesOf(s)) <= maxShareOcc

IsRNIWithExev(E, diff) ==
    \A s \in Secret :
        InputsIn(E) \cap SharesOf(s) # {}
            => Cardinality(Effective(E) \cap SharesOf(s)) + diff < NbShares

EffectiveIndexes(E) == {ShareNum(sh) : sh \in Effective(E)}

IsPINIWithExev(E, maxShareOcc, outputIndexes) ==
    Cardinality(EffectiveIndexes(E) \ outputIndexes) <= maxShareOcc
=============================================================================
