--------------------------- MODULE CheckSecurity ---------------------------
(***************************************************************************)
(* checkSecurity (src/src/hw.cpp): the verification of a whole gadget at   *)
(* an order.  The call collects the gates reachable from the outputs,      *)
(* removes in several passes the probes it deems useless, enumerates the   *)
(* tuples of the probes that are left and asks for each tuple whether its  *)
(* joint observation has the property.  The gadget is reported secure when *)
(* no tuple leaks.                                                         *)
(*                                                                         *)
(* The question asked for one tuple is answered exactly, as the code does  *)
(* with noFalsePositive set: by enumerating the values of the masks        *)
(* (concrev.cpp).  Module CheckProperty is about the symbolic answer.      *)
(* OPINI is the exception: its answer may be no of a tuple that has the    *)
(* property, with noFalsePositive too.                                     *)
(***************************************************************************)
EXTENDS HWElements, ConcreteEvaluation

CONSTANTS
    SymbNode(_),        \* the node of a symbol
    MaskingMaskOcc(_),  \* the masks of an expression that mask an operand of it
    OtherMaskOcc(_),    \* the masks that occur in it in another way
    Calls(_, _),        \* Calls(nodes, n): the calls of checkSecurity for a gadget
                        \* of n elements on the inputs nodes; an output list
                        \* is a sequence of sequences of output shares
    REM_SINGLE_INPUT_PROBES,    \* compile-time options of config.hpp
    REM_REDUNDANT_PROBES

ASSUME OptionAssumption == REM_SINGLE_INPUT_PROBES \in BOOLEAN /\ REM_REDUNDANT_PROBES \in BOOLEAN

Call(Wire) ==
    [order : Nat \ {0}, withGlitches : BOOLEAN,
     secProp : {"TPS", "NI", "SNI", "RNI", "PINI", "OPINI"}, outputList : Seq(Seq(Wire))]

(* The wires named as outputs exist.                                       *)
ASSUME CallsAssumption ==
    \A nodes \in InputLists : \A n \in 0 .. MaxElements : Calls(nodes, n) \subseteq Call(1 .. n)

(* PINI and OPINI read, in every output, the wires at the indexes of the   *)
(* first one.                                                              *)
ASSUME OutputsAssumption ==
    \A nodes \in InputLists : \A n \in 0 .. MaxElements : \A c \in Calls(nodes, n) :
        c.secProp \in {"PINI", "OPINI"} =>
            /\ c.outputList # <<>>
            /\ \A i \in DOMAIN c.outputList : Len(c.outputList[i]) = Len(c.outputList[1])

(* The value of an expression depends on the symbols in it and on nothing  *)
(* else; the node of a symbol holds that symbol and has its value.         *)
ASSUME SupportAssumption ==
    \A e \in Exp : \A K \in SUBSET (Secret \cup Share), M \in SUBSET Mask :
        Value(e, K, M) <=> Value(e, K \cap Symbols(e), M \cap Symbols(e))

ASSUME SymbNodeAssumption ==
    \A sh \in Share :
        /\ Symbols(SymbNode(sh)) = {sh}
        /\ \A K \in SUBSET (Secret \cup Share), M \in SUBSET Mask : Value(SymbNode(sh), K, M) <=> sh \in K

(* A share comes into a gadget on an input wire of its own, and            *)
(* simplification invents no symbol.                                       *)
ASSUME InputSharesAssumption ==
    \A nodes \in InputLists : \A i \in DOMAIN nodes : \A sh \in Symbols(nodes[i]) \cap Share :
        nodes[i] = SymbNode(sh)

ASSUME OpNodeAssumption ==
    \A op \in Ops : \A e, e2 \in Exp :
        LET n == OpNode(op, IF op = "BNOT" THEN <<e>> ELSE <<e, e2>>)
        IN  n \in Exp => Symbols(n) \subseteq Symbols(e) \cup Symbols(e2)

VARIABLES
    pc,             \* the next step of checkSecurity, "build" outside of it
    call,           \* the arguments of the call
    reachable,      \* the gates found from the outputs (a local set; the
                    \* code goes on to remove gates from that same set)
    gatesToVerify,  \* the gates still to be probed
    pending,        \* removeIncludedProbes: gates the outer loop has not visited
    toRemove,       \* removeIncludedProbes: gates to erase when the loop ends
    leakingHwe      \* the tuples that do not have the property

vars == <<hwElements, pc, call, reachable, gatesToVerify, pending, toRemove, leakingHwe>>

NoCall == [order |-> 0]

-----------------------------------------------------------------------------
(* The call and the passes that remove probes.                             *)

Outputs(outputList) == UNION {{outputList[i][j] : j \in DOMAIN outputList[i]} : i \in DOMAIN outputList}

OutputGates == Outputs(call.outputList)

ShareOcc(e) == Symbols(e) \cap Share
MaskOcc(e) == Symbols(e) \cap Mask

(* secPropValidity: TPS reasons about explicit secrets, every other        *)
(* property about shares.                                                  *)
Valid(secProp, gates) ==
    \A g \in gates :
        Symbols(hwElements[g].symbExp) \cap (IF secProp = "TPS" THEN Share ELSE Secret) = {}

(* allInputSharesAreAccessible: a gadget that leaves out some shares of a  *)
(* secret is reported incomplete on stderr, and verified all the same.     *)
AllInputSharesAreAccessible(gates) ==
    LET shares == {sh \in Share : \E g \in gates : /\ hwElements[g].op = "INPUT"
                                                  /\ hwElements[g].symbExp = SymbNode(sh)}
    IN  \A sh \in shares : Cardinality(shares \cap SharesOf(OrigSecret(sh))) = NbShares

(* OPINI reads the wire of every output at the index of any input share.   *)
CheckSecurity ==
    /\ pc = "build"
    /\ \E nodes \in InputLists : \E c \in Calls(nodes, Len(hwElements)) :
         /\ AllInputsBuilt(nodes)
         /\ c.secProp = "OPINI" => \A i \in DOMAIN c.outputList : Len(c.outputList[i]) = NbShares
         /\ call' = c
         /\ reachable' = Reachable(Outputs(c.outputList))
         /\ pc' = IF ~Valid(c.secProp, reachable') THEN "exit"
                  ELSE IF c.withGlitches /\ REM_SINGLE_INPUT_PROBES THEN "includedProbes"
                  ELSE "inputSharesProbes"
    /\ gatesToVerify' = reachable'
    /\ pending' = reachable'
    /\ toRemove' = {}
    /\ leakingHwe' = {}
    /\ UNCHANGED hwElements

(* Mutant: the test of the passes written for PINI and OPINI, SNI forgotten. *)
KeptAsOutputPINIOnly(g) ==
    /\ call.secProp \in {"PINI", "OPINI"}
    /\ g \in OutputGates

(* Every pass keeps the output wires when the property counts them apart.  *)
KeptAsOutput(g) ==
    /\ call.secProp \in {"SNI", "PINI", "OPINI"}
    /\ g \in OutputGates

(* Mutant: compares with the gates already condemned too, so that two gates *)
(* with one and the same leakage remove each other.                        *)
VisitIncludedProbeMutual(gate) ==
    /\ pc = "includedProbes"
    /\ pending' = pending \ {gate}
    /\ toRemove' =
         IF /\ \E g \in gatesToVerify \ {gate} :
                   hwElements[gate].leakageOut \subseteq hwElements[g].leakageOut
            /\ ~KeptAsOutput(gate)
         THEN toRemove \cup {gate} ELSE toRemove
    /\ UNCHANGED <<hwElements, pc, call, reachable, gatesToVerify, leakingHwe>>

(* removeIncludedProbes, one iteration of its outer loop: the set of gates *)
(* is ordered by address, so the gates come in an order nobody chose.      *)
VisitIncludedProbe(gate) ==
    /\ pc = "includedProbes"
    /\ pending' = pending \ {gate}
    /\ toRemove' =
         IF /\ \E g \in (gatesToVerify \ {gate}) \ toRemove :
                   hwElements[gate].leakageOut \subseteq hwElements[g].leakageOut
            /\ ~KeptAsOutput(gate)
         THEN toRemove \cup {gate} ELSE toRemove
    /\ UNCHANGED <<hwElements, pc, call, reachable, gatesToVerify, leakingHwe>>

EraseIncludedProbes ==
    /\ pc = "includedProbes"
    /\ pending = {}
    /\ gatesToVerify' = gatesToVerify \ toRemove
    /\ toRemove' = {}
    /\ pc' = "inputSharesProbes"
    /\ UNCHANGED <<hwElements, call, reachable, pending, leakingHwe>>

(* The passes that look at the expression of a single gate.                *)
IsInputShare(e) == \E sh \in Share : e = SymbNode(sh)

(* Mutant: sorts the shares by secret, as the Ai.Bj pass does.             *)
IsAiBiBySecret(e) ==
    /\ MaskOcc(e) = {}
    /\ \A sh, sh2 \in ShareOcc(e) : OrigSecret(sh) = OrigSecret(sh2)

IsAiBi(e) ==
    /\ MaskOcc(e) = {}
    /\ \A sh, sh2 \in ShareOcc(e) : ShareNum(sh) = ShareNum(sh2)

(* Mutant: tells the shares apart by index instead of by secret.           *)
IsAiBjByIndex(e) ==
    /\ MaskOcc(e) = {}
    /\ \A sh, sh2 \in ShareOcc(e) : ShareNum(sh) = ShareNum(sh2) => sh = sh2

IsAiBj(e) ==
    /\ MaskOcc(e) = {}
    /\ \A sh, sh2 \in ShareOcc(e) : OrigSecret(sh) = OrigSecret(sh2) => sh = sh2

ErasePass(here, next, secProps, Useless(_)) ==
    /\ pc = here
    /\ gatesToVerify' =
         IF REM_SINGLE_INPUT_PROBES /\ call.secProp \in secProps
         THEN {g \in gatesToVerify : ~Useless(hwElements[g].symbExp) \/ KeptAsOutput(g)}
         ELSE gatesToVerify
    /\ pc' = next
    /\ UNCHANGED <<hwElements, call, reachable, pending, toRemove, leakingHwe>>

(* Mutant: the option is not asked, though it decides on smaller tuples.   *)
RemoveInputSharesProbesUnasked ==
    /\ pc = "inputSharesProbes"
    /\ gatesToVerify' = IF call.secProp = "TPS" THEN gatesToVerify
                        ELSE {g \in gatesToVerify :
                                 ~IsInputShare(hwElements[g].symbExp) \/ KeptAsOutput(g)}
    /\ pc' = "aiBiProbes"
    /\ UNCHANGED <<hwElements, call, reachable, pending, toRemove, leakingHwe>>

RemoveInputSharesProbes ==
    ErasePass("inputSharesProbes", "aiBiProbes", {"NI", "RNI", "SNI", "PINI"}, IsInputShare)

(* Mutant: the pass is run for TPS as well.                                *)
RemoveAiBiProbesAlways ==
    ErasePass("aiBiProbes", "aiBjProbes", {"TPS", "NI", "RNI", "SNI", "PINI"}, IsAiBi)

RemoveAiBiProbes ==
    ErasePass("aiBiProbes", "aiBjProbes", {"NI", "RNI", "SNI", "PINI"}, IsAiBi)

RemoveAiBjProbes ==
    ErasePass("aiBjProbes", "redundantProbes", {"NI", "RNI", "SNI"}, IsAiBj)

(* removeRedundantProbes compares the masks and the shares of two gates.   *)
IsMask(e) == \E m \in Mask : e = SymbNode(m)

Redundant(g, others) ==
    LET eg == hwElements[g].symbExp
    IN  /\ ~KeptAsOutput(g)
        /\ OtherMaskOcc(eg) = {} \/ IsMask(eg)
        /\ \E h \in others \ {g} :
             LET eh == hwElements[h].symbExp
             IN  /\ OtherMaskOcc(eh) = {}
                 /\ \/ MaskingMaskOcc(eg) = MaskingMaskOcc(eh) /\ ShareOcc(eg) \subseteq ShareOcc(eh)
                    \/ \E m \in Mask : eg = SymbNode(m) /\ MaskingMaskOcc(eh) = {m}

RemoveRedundantProbes ==
    /\ pc = "redundantProbes"
    /\ LET withdrawn[n \in 0 .. Len(hwElements)] ==     \* by increasing number
             IF n = 0 THEN {}
             ELSE IF n \in gatesToVerify /\ Redundant(n, gatesToVerify \ withdrawn[n - 1])
             THEN withdrawn[n - 1] \cup {n}
             ELSE withdrawn[n - 1]
       IN  gatesToVerify' =
             IF REM_REDUNDANT_PROBES /\ call.secProp # "TPS"
             THEN {g \in gatesToVerify : g \notin withdrawn[Len(hwElements)]}
             ELSE gatesToVerify
    /\ pc' = "tuples"
    /\ UNCHANGED <<hwElements, call, reachable, pending, toRemove, leakingHwe>>

-----------------------------------------------------------------------------
(* The tuples and their verdicts.  A tuple names the output indexes whose  *)
(* wires it probes (PINI only) and the gates it probes besides.            *)

(* Mutant: full tuples only.                                               *)
FullTuplesOnly == FALSE

DoPartialTuples ==
    \/ REM_SINGLE_INPUT_PROBES /\ call.secProp \in {"NI", "RNI", "SNI", "PINI"}
    \/ REM_REDUNDANT_PROBES /\ call.secProp # "TPS"

(* Mutant: one probe too many, nbTaken compared before it is raised.       *)
TupleEnumOneMore(gates) ==
    {[outputIndexes |-> {}, probes |-> T] :
        T \in {T \in SUBSET gates :
                  \/ Cardinality(T) = call.order + 1
                  \/ DoPartialTuples /\ Cardinality(T) \in 1 .. call.order}}

TupleEnum(gates) ==
    {[outputIndexes |-> {}, probes |-> T] :
        T \in {T \in SUBSET gates :
                  \/ Cardinality(T) = call.order
                  \/ DoPartialTuples /\ Cardinality(T) \in 1 .. call.order}}

NbOutputShares == Len(call.outputList[1])

TupleEnumPINI(internalGates) ==
    {t \in [outputIndexes : SUBSET (0 .. NbOutputShares - 1), probes : SUBSET internalGates] :
        LET nbInternal == Cardinality(t.probes)
            toTake == call.order - Cardinality(t.outputIndexes)
        IN  \/ nbInternal = toTake
            \/ DoPartialTuples /\ nbInternal > 0 /\ nbInternal < toTake}

OutputWires(indexes) ==
    {call.outputList[i][n + 1] : i \in DOMAIN call.outputList, n \in indexes}

Probed(t) == t.probes \cup OutputWires(t.outputIndexes)

LeakExps(gates) ==
    IF call.withGlitches THEN UNION {hwElements[g].leakageOut : g \in gates}
                         ELSE {hwElements[g].symbExp : g \in gates}

(* Output probing isolation of the probes E: some set of indexes, with no  *)
(* more than maxShareOcc besides outputIndexes, simulates them together    *)
(* with its own outputs.                                                   *)
WithOutputs(E, indexes) == E \cup LeakExps(OutputWires(indexes))

IsOPINI(E, maxShareOcc, outputIndexes) ==
    \E needed \in SUBSET (0 .. NbShares - 1) :
        /\ outputIndexes \subseteq needed
        /\ EffectiveIndexes(WithOutputs(E, needed)) \subseteq needed
        /\ Cardinality(needed \ outputIndexes) <= maxShareOcc

(* opini_internal always answers no when this fails (Opini); it may when   *)
(* it does not.  Each round takes indexes that occur when no mask can be   *)
(* taken any more, all those needed among them, if they fit in what is     *)
(* left of maxShareOcc, and goes on with their outputs; noFalsePositive or *)
(* not, what it took and need not have is gone.                            *)
OccurringIndexes(E) == {ShareNum(sh) : sh \in UNION {ShareOcc(e) : e \in E}}

MayFailOPINI(E, maxShareOcc, outputIndexes) ==
    LET left(J) == maxShareOcc - Cardinality(J \ outputIndexes)
        fails[J \in SUBSET (0 .. NbShares - 1)] ==
            LET effective == EffectiveIndexes(WithOutputs(E, J)) \ J
            IN  \/ Cardinality(effective) > left(J)
                \/ \E found \in SUBSET (OccurringIndexes(WithOutputs(E, J)) \ J) :
                       /\ effective \subseteq found /\ found # {}
                       /\ Cardinality(found) <= left(J)
                       /\ fails[J \cup found]
    IN  fails[outputIndexes]

HasProperty(t) ==
    LET E == LeakExps(Probed(t))
        size == Cardinality(t.probes)
    IN  CASE call.secProp = "TPS"  -> IsTPSWithExev(E)
          [] call.secProp = "NI"   -> IsNIWithExev(E, size)
          [] call.secProp = "SNI"  -> IsNIWithExev(E, size - Cardinality(t.probes \cap OutputGates))
          [] call.secProp = "RNI"  -> IsRNIWithExev(E, call.order - size)
          [] call.secProp = "PINI" -> IsPINIWithExev(E, size, t.outputIndexes)
          [] call.secProp = "OPINI" -> IsOPINI(E, size, t.outputIndexes)

MayFail(t) ==
    /\ call.secProp = "OPINI"
    /\ MayFailOPINI(LeakExps(Probed(t)), Cardinality(t.probes), t.outputIndexes)

TuplesToVerify ==
    IF call.secProp \in {"PINI", "OPINI"} THEN TupleEnumPINI(gatesToVerify \ OutputGates)
                                          ELSE TupleEnum(gatesToVerify)

VerifyTuples ==
    /\ pc = "tuples"
    /\ LET leaking == {t \in TuplesToVerify : ~HasProperty(t)}
       IN  \E refused \in SUBSET {t \in TuplesToVerify \ leaking : MayFail(t)} :
              leakingHwe' = leaking \cup refused
    /\ pc' = "done"
    /\ UNCHANGED <<hwElements, call, reachable, gatesToVerify, pending, toRemove>>

(* verifMSICleanup: the program forgets its circuit and starts afresh.     *)
Cleanup ==
    /\ pc = "done"
    /\ hwElements' = <<>>
    /\ pc' = "build"
    /\ call' = NoCall
    /\ reachable' = {}
    /\ gatesToVerify' = {}
    /\ pending' = {}
    /\ toRemove' = {}
    /\ leakingHwe' = {}

Build ==
    /\ pc = "build"
    /\ BuildInput \/ BuildGate
    /\ UNCHANGED <<pc, call, reachable, gatesToVerify, pending, toRemove, leakingHwe>>

Init ==
    /\ hwElements = <<>>
    /\ pc = "build"
    /\ call = NoCall
    /\ reachable = {}
    /\ gatesToVerify = {}
    /\ pending = {}
    /\ toRemove = {}
    /\ leakingHwe = {}

Next ==
    \/ Build
    \/ CheckSecurity
    \/ \E gate \in pending : VisitIncludedProbe(gate)
    \/ EraseIncludedProbes
    \/ RemoveInputSharesProbes
    \/ RemoveAiBiProbes
    \/ RemoveAiBjProbes
    \/ RemoveRedundantProbes
    \/ VerifyTuples
    \/ Cleanup

Spec == Init /\ [][Next]_vars

-----------------------------------------------------------------------------
(* What the verdict promises: every set of at most order probes, on any    *)
(* reachable gates, has the property.                                      *)

AllTuples ==
    IF call.secProp \in {"PINI", "OPINI"}
    THEN {t \in [outputIndexes : SUBSET (0 .. NbOutputShares - 1),
                 probes : SUBSET (reachable \ OutputGates)] :
              Cardinality(t.outputIndexes) + Cardinality(t.probes) <= call.order}
    ELSE {[outputIndexes |-> {}, probes |-> T] :
              T \in {T \in SUBSET reachable : Cardinality(T) <= call.order}}

Secure == \A t \in AllTuples : HasProperty(t)

(* A no for OPINI promises nothing.                                        *)
VerdictRight ==
    /\ leakingHwe = {} => Secure
    /\ call.secProp # "OPINI" => (Secure => leakingHwe = {})

(* Type invariant: the state of the call keeps its shape, the passes only  *)
(* ever take gates away from the reachable ones, and what is reported of   *)
(* them is a set of at most order probes (the assertion at hw.cpp:746).    *)
TypeOK ==
    /\ hwElements \in Seq(HWElement)
    /\ pc \in {"build", "includedProbes", "inputSharesProbes", "aiBiProbes",
               "aiBjProbes", "redundantProbes", "tuples", "done", "exit"}
    /\ call \in Call(Nat) \cup {NoCall}
    /\ reachable \subseteq Elements
    /\ gatesToVerify \subseteq reachable
    /\ pending \subseteq reachable
    /\ toRemove \subseteq reachable
    /\ \A t \in leakingHwe : t \in AllTuples

(* removeIncludedProbes may drop a probe only for another one that sees as *)
(* much and is still there when all is done: whatever the order in which   *)
(* the gates came, chains and ties of inclusion included, the observation  *)
(* of every reachable gate stays inside that of a gate left to verify.     *)
IncludedProbesCovered ==
    pc = "inputSharesProbes" =>
        \A g \in reachable : \E h \in gatesToVerify :
            hwElements[g].leakageOut \subseteq hwElements[h].leakageOut

(* For the properties that bound the shares of each secret, the verdict is *)
(* the right one when glitches are left out: the probes removed and the    *)
(* partial tuples enumerated instead add up to "some set of at most order  *)
(* probes leaks", exactly.  RNI makes sense below NbShares only.           *)
VerdictExact ==
    (/\ pc = "done"
     /\ ~call.withGlitches
     /\ call.secProp \in {"NI", "SNI", "RNI"}
     /\ call.secProp = "RNI" => call.order < NbShares)
        => (leakingHwe = {} <=> Secure)

(* The same for PINI, which never enumerates fewer than order output       *)
(* indexes alone: those smaller sets are covered only because two larger   *)
(* ones differ, when there are more output shares than the order.          *)
VerdictExactPINI ==
    (/\ pc = "done"
     /\ ~call.withGlitches
     /\ call.secProp = "PINI"
     /\ call.order < NbOutputShares)
        => (leakingHwe = {} <=> Secure)

(* The same for TPS, which enumerates full tuples only: the circuit must   *)
(* have that many gates.                                                   *)
VerdictExactTPS ==
    (/\ pc = "done"
     /\ ~call.withGlitches
     /\ call.secProp = "TPS"
     /\ Cardinality(reachable) >= call.order)
        => (leakingHwe = {} <=> Secure)

(* Without the passes, full tuples only are enumerated, for OPINI in any   *)
(* case, and they are enough.  For NI, SNI and RNI, when every input share *)
(* is a probe of its own: a smaller set that reveals too much is completed *)
(* with inputs.  For PINI and OPINI, when the outputs have more shares     *)
(* than the order: it is completed with output indexes.  For OPINI a yes   *)
(* is right, although opini takes indexes round by round.                  *)
VerdictExactFullTuples ==
    (/\ pc = "done"
     /\ ~call.withGlitches
     /\ ~DoPartialTuples
     /\ \/ /\ call.secProp \in {"NI", "SNI", "RNI"}
           /\ call.order < NbShares
           /\ AllInputSharesAreAccessible(reachable)
        \/ /\ call.secProp \in {"PINI", "OPINI"}
           /\ call.order < NbOutputShares)
        => VerdictRight

(* No gate's expression lost, in simplification, a symbol that a probe on  *)
(* the gate observes.                                                      *)
NothingCancelled ==
    \A g \in reachable :
        UNION {Symbols(e) : e \in hwElements[g].leakageOut} = Symbols(hwElements[g].symbExp)

(* With glitches the verdict is right for gadgets in which nothing         *)
(* cancels: there the passes that look at the expression of a gate judge   *)
(* its whole observation.  For OPINI only a yes is.                        *)
VerdictExactWithGlitches ==
    (/\ pc = "done"
     /\ call.withGlitches
     /\ call.secProp # "TPS"
     /\ call.secProp = "RNI" => call.order < NbShares
     /\ call.secProp \in {"PINI", "OPINI"} => call.order < NbOutputShares
     /\ NothingCancelled)
        => VerdictRight

(* README.md:307: "For a security order equal to `n`, all tuples of size   *)
(* `n` must verify the security property", of a gadget reported secure.    *)
AllTuplesOfSizeOrderVerify ==
    pc = "done" /\ leakingHwe = {} =>
        \A t \in AllTuples : Cardinality(t.probes) = call.order => HasProperty(t)
=============================================================================
