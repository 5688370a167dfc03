------------------------------ MODULE MCOptions ------------------------------
(***************************************************************************)
(* The same gadgets verified by two builds of the library: the default one *)
(* and one without REM_SINGLE_INPUT_PROBES, one build in a run.            *)
(***************************************************************************)
EXTENDS MCCheckSecurity

VARIABLE remProbesOpt   \* which build

NoRem == INSTANCE CheckSecurity WITH REM_SINGLE_INPUT_PROBES <- FALSE, Calls <- FullTuplesCalls

OptionsInit == remProbesOpt \in BOOLEAN /\ Init

OptionsNext ==
    \/ remProbesOpt /\ Next /\ UNCHANGED remProbesOpt
    \/ ~remProbesOpt /\ NoRem!Next /\ UNCHANGED remProbesOpt

OptionsSpec == OptionsInit /\ [][OptionsNext]_<<remProbesOpt, vars>>

(* The default build is right about NI, SNI and RNI, about PINI, and with  *)
(* glitches.                                                               *)
DefaultExact == remProbesOpt => VerdictExact
DefaultExactPINI == remProbesOpt => VerdictExactPINI
DefaultExactWithGlitches == remProbesOpt => VerdictExactWithGlitches

(* Where a build enumerates full tuples only, they make up for the smaller *)
(* ones: OPINI with the default one, every property about shares or        *)
(* indexes with the other.                                                 *)
FullTuplesExact ==
    IF remProbesOpt THEN VerdictExactFullTuples ELSE NoRem!VerdictExactFullTuples
=============================================================================
