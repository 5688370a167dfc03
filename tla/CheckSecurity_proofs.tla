------------------------ MODULE CheckSecurity_proofs ------------------------
(***************************************************************************)
(* checkSecurity, proved for every circuit, every expression algebra and   *)
(* every order: its inductive invariant, and that its verdict is exact.    *)
(* It reports no tuple exactly when every set of at most order probes has  *)
(* the property, although it removes probes and does not enumerate all     *)
(* sets; for OPINI, only when it has.  A tuple that is not verified is compared  *)
(* with one that is: what it shows more is counted against the probes it   *)
(* has more.                                                               *)
(***************************************************************************)
EXTENDS CheckSecurity, Observation_proofs

-----------------------------------------------------------------------------
(* The parts of the invariant.                                             *)

Passes == {"inputSharesProbes", "aiBiProbes", "aiBjProbes", "redundantProbes", "tuples", "done"}

(* A call is under way with arguments it was given.                        *)
CallInv ==
    /\ Len(hwElements) <= MaxElements
    /\ pc # "build" => call \in Call(Nat)
    /\ pc = "includedProbes" => call.withGlitches

(* What a gate shows that holds a share comes from the wire of that share: *)
(* the wire is in every set of gates that holds the gate and is closed     *)
(* under inputs.                                                           *)
IsInputOf(h, sh) == hwElements[h].op = "INPUT" /\ hwElements[h].symbExp = SymbNode(sh)

WiredInv ==
    /\ \A g \in Elements : InputsOf(g) \subseteq Elements
    /\ \A g \in Elements : \A sh \in ShareOcc(hwElements[g].symbExp) :
          \A S \in SUBSET Elements : g \in S /\ Closed(S) => \E h \in S : IsInputOf(h, sh)

(* A call goes on with a valid property, with output lists of one length,  *)
(* and with the input wires of all the shares it meets.                    *)
WiresExist ==
    /\ NbOutputShares \in Nat
    /\ \A i \in DOMAIN call.outputList : DOMAIN call.outputList[i] = 1 .. NbOutputShares
    /\ \A i \in DOMAIN call.outputList, n \in 0 .. NbOutputShares - 1 : call.outputList[i][n + 1] \in reachable

ValidInv ==
    pc \notin {"build", "exit"} =>
        /\ Valid(call.secProp, reachable)
        /\ call.secProp \in {"PINI", "OPINI"} => WiresExist
        /\ call.secProp = "OPINI" => NbOutputShares = NbShares
        /\ \A g \in reachable : \A sh \in ShareOcc(hwElements[g].symbExp) : \E h \in reachable : IsInputOf(h, sh)

(* removeIncludedProbes keeps, at any time, a cover of what it drops, and  *)
(* drops no output wire that the property counts apart.                    *)
CoverInv ==
    /\ pc = "includedProbes" =>
         /\ gatesToVerify = reachable
         /\ toRemove \cap pending = {}
         /\ \A g \in toRemove : ~KeptAsOutput(g)
         /\ \A g \in toRemove : \E h \in reachable \ toRemove :
                hwElements[g].leakageOut \subseteq hwElements[h].leakageOut
    /\ IncludedProbesCovered

(* What a probe observes, and the symbols it observes.                     *)
Seen(g) == LeakExps({g})

SeenSymbols(g) == UNION {Symbols(e) : e \in Seen(g)}

(* A probe that no mask protects and that shows at most one share of each  *)
(* secret, or shares of one index only.                                    *)
OneShare(g) ==
    /\ SeenSymbols(g) \cap Mask = {}
    /\ \A x, y \in SeenSymbols(g) \cap Share : OrigSecret(x) = OrigSecret(y) => x = y

OneIndex(g) ==
    /\ SeenSymbols(g) \cap Mask = {}
    /\ \A x, y \in SeenSymbols(g) \cap Share : ShareNum(x) = ShareNum(y)

Useless(g) ==
    \/ call.secProp \in {"NI", "SNI", "RNI"} /\ OneShare(g)
    \/ call.secProp = "PINI" /\ OneIndex(g)

(* A gate is taken away because it is useless, or because a gate that is   *)
(* left shows as much.                                                     *)
Dispensable(g) ==
    /\ ~KeptAsOutput(g)
    /\ Useless(g) \/ \E h \in gatesToVerify : Seen(g) \subseteq Seen(h)

(* The passes judge a gate by its expression: where nothing cancels, this  *)
(* is all it shows.                                                        *)
Judged == call.withGlitches => NothingCancelled

RemovedInv ==
    pc \in Passes =>
        /\ call.secProp # "TPS" /\ ~REM_REDUNDANT_PROBES /\ Judged =>
              \A g \in reachable \ gatesToVerify : Dispensable(g)
        /\ ~call.withGlitches /\ (call.secProp = "TPS" \/ ~DoPartialTuples) =>
              gatesToVerify = reachable

(* The tuples of the gates left that do not have the property are          *)
(* reported, and for OPINI perhaps others.                                 *)
LeaksFound ==
    /\ \A t \in TuplesToVerify : t \in leakingHwe \/ HasProperty(t)
    /\ call.secProp # "OPINI" => \A t \in leakingHwe : ~HasProperty(t)

FoundInv == pc = "done" => LeaksFound

IInv == TypeOK /\ CallInv /\ WiredInv /\ ValidInv /\ CoverInv /\ RemovedInv /\ FoundInv

-----------------------------------------------------------------------------
(* Building the circuit.                                                   *)

(* A circuit is finite, and so is every set of its gates.                  *)
LEMMA ElementsFinite ==
    ASSUME hwElements \in Seq(HWElement)
    PROVE  /\ IsFiniteSet(Elements)
           /\ Elements = 1 .. Len(hwElements)
           /\ \A g \in Elements : hwElements[g] \in HWElement
<1>1. Elements = 1 .. Len(hwElements) /\ Len(hwElements) \in Nat
  BY DEF Elements
<1>2. IsFiniteSet(1 .. Len(hwElements))
  BY <1>1, FS_Interval
<1>3. QED
  BY <1>1, <1>2 DEF Elements

(* A new element is wired to earlier ones, and a share it shows is either  *)
(* its own input or shown by one of them.                                  *)
Fits(e) ==
    /\ e \in HWElement
    /\ \A i \in DOMAIN e.inputs : e.inputs[i] \in Elements
    /\ \A sh \in ShareOcc(e.symbExp) :
          \/ e.op = "INPUT" /\ e.symbExp = SymbNode(sh)
          \/ \E i \in DOMAIN e.inputs : sh \in ShareOcc(hwElements[e.inputs[i]].symbExp)

(* A new element of this kind leaves every gate wired as it was.           *)
LEMMA AllocateKeepsWires ==
    ASSUME hwElements \in Seq(HWElement), Len(hwElements) <= MaxElements, WiredInv,
           NEW e, Fits(e), Allocate(e)
    PROVE  /\ hwElements' \in Seq(HWElement)
           /\ Len(hwElements') <= MaxElements
           /\ Elements \subseteq Elements'
           /\ WiredInv'
<1>0. PICK n : n = Len(hwElements) + 1
  OBVIOUS
<1>1. /\ hwElements' = Append(hwElements, e)
      /\ e \in HWElement
      /\ Len(hwElements) \in Nat
  BY DEF Allocate, Fits
<1>2. /\ hwElements' \in Seq(HWElement)
      /\ Len(hwElements') <= MaxElements
      /\ Elements = 1 .. Len(hwElements)
      /\ Elements' = Elements \cup {n}
      /\ n \notin Elements
      /\ hwElements'[n] = e
      /\ \A g \in Elements : hwElements'[g] = hwElements[g]
  BY <1>0, <1>1, MaxElementsAssumption DEF Allocate, Elements
<1>3. /\ \A g \in Elements : InputsOf(g)' = InputsOf(g) /\ InputsOf(g) \subseteq Elements
      /\ InputsOf(n)' = {e.inputs[i] : i \in DOMAIN e.inputs}
      /\ InputsOf(n)' \subseteq Elements
  BY <1>2 DEF InputsOf, WiredInv, Fits
<1>4. ASSUME NEW g \in Elements, NEW sh \in ShareOcc(hwElements[g].symbExp),
             NEW S \in SUBSET Elements', g \in S, Closed(S)'
      PROVE  \E h \in S : IsInputOf(h, sh)'
  <2> DEFINE T == S \cap Elements
  <2>1. T \in SUBSET Elements /\ g \in T
    BY <1>4
  <2>2. Closed(T)
    BY <1>2, <1>3, <1>4 DEF Closed
  <2>3. PICK h \in T : IsInputOf(h, sh)
    BY <2>1, <2>2 DEF WiredInv
  <2>4. QED
    BY <1>2, <2>3 DEF IsInputOf
<1>5. ASSUME NEW sh \in ShareOcc(e.symbExp), NEW S \in SUBSET Elements', n \in S, Closed(S)'
      PROVE  \E h \in S : IsInputOf(h, sh)'
  <2>1. CASE e.op = "INPUT" /\ e.symbExp = SymbNode(sh)
    BY <1>2, <1>5, <2>1 DEF IsInputOf
  <2>2. CASE \E i \in DOMAIN e.inputs : sh \in ShareOcc(hwElements[e.inputs[i]].symbExp)
    <3>1. PICK i \in DOMAIN e.inputs : sh \in ShareOcc(hwElements[e.inputs[i]].symbExp)
      BY <2>2
    <3>2. e.inputs[i] \in Elements /\ e.inputs[i] \in S
      BY <1>3, <1>5 DEF Closed
    <3>3. QED
      BY <1>4, <1>5, <3>1, <3>2
  <2>3. QED
    BY <2>1, <2>2 DEF Fits
<1>6. WiredInv'
  <2>1. \A g \in Elements' : InputsOf(g)' \subseteq Elements'
    BY <1>2, <1>3
  <2>2. ASSUME NEW g \in Elements', NEW sh \in ShareOcc(hwElements'[g].symbExp),
               NEW S \in SUBSET Elements', g \in S, Closed(S)'
        PROVE  \E h \in S : IsInputOf(h, sh)'
    BY <1>2, <1>4, <1>5, <2>2
  <2>3. QED
    BY <2>1, <2>2 DEF WiredInv
<1>7. QED
  BY <1>2, <1>6

(* Every call that describes the gadget (inputGate, xorGate, andGate,      *)
(* notGate, Register) allocates an element that fits.                      *)
LEMMA BuildFits ==
    ASSUME hwElements \in Seq(HWElement), BuildInput \/ BuildGate
    PROVE  \E e : Fits(e) /\ Allocate(e)
<1>0. /\ Elements \subseteq Nat \ {0}
      /\ \A g \in Elements : hwElements[g].symbExp \in Exp /\ hwElements[g].leakageOut \in SUBSET Exp
  BY ElementsFinite DEF HWElement
<1>1. CASE BuildInput
  <2>0. PICK nodes \in InputLists :
            Len(hwElements) < Len(nodes) /\ InputGate(nodes[Len(hwElements) + 1])
    BY <1>1 DEF BuildInput
  <2> DEFINE n == nodes[Len(hwElements) + 1]
  <2>1. n \in Exp /\ Len(hwElements) + 1 \in DOMAIN nodes
    BY <2>0, InputsAssumption
  <2>2. \A sh \in ShareOcc(n) : n = SymbNode(sh)
    BY <2>1, InputSharesAssumption DEF ShareOcc
  <2> DEFINE e == [nature |-> "GATE", op |-> "INPUT", inputs |-> <<>>,
                   symbExp |-> n, leakageOut |-> {n}]
  <2>3. Allocate(e)
    BY <2>0 DEF InputGate
  <2> HIDE DEF n
  <2>4. Fits(e)
    BY <2>1, <2>2 DEF Fits, HWElement
  <2> HIDE DEF e
  <2>5. QED
    BY <2>3, <2>4
<1>2. CASE \E op \in Ops : \E ins \in Operands(op) : Gate(op, ins)
  <2>0. PICK op \in Ops : \E ins \in Operands(op) : Gate(op, ins)
    BY <1>2
  <2>1. PICK ins \in Operands(op) : Gate(op, ins)
    BY <2>0
  <2> DEFINE n == OpNode(op, [i \in DOMAIN ins |-> hwElements[ins[i]].symbExp])
             L == UNION {hwElements[ins[i]].leakageOut : i \in DOMAIN ins}
             e == [nature |-> "GATE", op |-> op, inputs |-> ins, symbExp |-> n, leakageOut |-> L]
  <2>2. n \in Exp /\ Allocate(e)
    BY <2>1 DEF Gate
  <2>3. /\ ins \in Seq(Nat \ {0})
        /\ \A i \in DOMAIN ins : ins[i] \in Elements
        /\ \A sh \in ShareOcc(n) : \E i \in DOMAIN ins : sh \in ShareOcc(hwElements[ins[i]].symbExp)
    <3>2. CASE op = "BNOT"
      <4>1. PICK i \in Elements : ins = <<i>>
        BY <3>2 DEF Operands
      <4>2. n = OpNode(op, <<hwElements[i].symbExp>>)
        BY <4>1
      <4>3. Symbols(n) \subseteq Symbols(hwElements[i].symbExp)
        BY <1>0, <2>2, <3>2, <4>2, OpNodeAssumption
      <4> HIDE DEF n
      <4>4. QED
        BY <1>0, <4>1, <4>3 DEF ShareOcc
    <3>3. CASE op # "BNOT"
      <4>1. PICK i \in Elements, j \in Elements : ins = <<i, j>>
        BY <3>3 DEF Operands
      <4>2. n = OpNode(op, <<hwElements[i].symbExp, hwElements[j].symbExp>>)
        BY <4>1
      <4>3. Symbols(n) \subseteq Symbols(hwElements[i].symbExp) \cup Symbols(hwElements[j].symbExp)
        BY <1>0, <2>2, <3>3, <4>2, OpNodeAssumption
      <4> HIDE DEF n
      <4>4. QED
        BY <1>0, <4>1, <4>3 DEF ShareOcc
    <3>4. QED
      BY <3>2, <3>3
  <2>4. L \in SUBSET Exp
    BY <1>0, <2>3
  <2> HIDE DEF n, L
  <2>5. Fits(e)
    BY <2>2, <2>3, <2>4 DEF Fits, HWElement
  <2> HIDE DEF e
  <2>6. QED
    BY <2>2, <2>5
<1>3. CASE \E g \in Elements : Register(g)
  <2>1. PICK g \in Elements : Register(g)
    BY <1>3
  <2> DEFINE e == [nature |-> "REGISTER", op |-> "NOP", inputs |-> <<g>>,
                   symbExp |-> hwElements[g].symbExp, leakageOut |-> {hwElements[g].symbExp}]
  <2>2. g \in Nat \ {0} /\ hwElements[g].symbExp \in Exp
    BY <1>0
  <2>3. Fits(e)
    BY <2>2 DEF Fits, HWElement
  <2>4. Allocate(e)
    BY <2>1 DEF Register
  <2> HIDE DEF e
  <2>5. QED
    BY <2>3, <2>4
<1>4. QED
  BY <1>1, <1>2, <1>3 DEF BuildGate

(* The invariant holds when the program starts.                            *)
LEMMA InitInv == Init => IInv
<1> SUFFICES ASSUME Init PROVE IInv
  OBVIOUS
<1>1. TypeOK
  BY DEF Init, TypeOK
<1>2. CallInv
  BY MaxElementsAssumption DEF Init, CallInv
<1>3. WiredInv
  BY DEF Init, WiredInv, Elements
<1>4. QED
  BY <1>1, <1>2, <1>3 DEF Init, IInv, ValidInv, CoverInv, IncludedProbesCovered, RemovedInv, FoundInv, Passes

(* The sets of probes depend on the call and on the reachable gates.       *)
LEMMA SameSets == UNCHANGED <<call, reachable>> => AllTuples' = AllTuples
<1> SUFFICES ASSUME UNCHANGED <<call, reachable>> PROVE AllTuples' = AllTuples
  OBVIOUS
<1>1. OutputGates' = OutputGates /\ NbOutputShares' = NbOutputShares
  BY DEF OutputGates, NbOutputShares
<1>2. QED
  BY <1>1 DEF AllTuples

(* Adding an element keeps the invariant: nothing is under verification    *)
(* then.                                                                   *)
LEMMA BuildInv == IInv /\ Build => IInv'
<1> SUFFICES ASSUME IInv, Build PROVE IInv'
  OBVIOUS
<1>1. PICK e : Fits(e) /\ Allocate(e)
  BY BuildFits DEF IInv, TypeOK, Build
<1>2. /\ hwElements' \in Seq(HWElement)
      /\ Len(hwElements') <= MaxElements
      /\ Elements \subseteq Elements'
      /\ WiredInv'
  BY <1>1, AllocateKeepsWires DEF IInv, TypeOK, CallInv
<1>3. TypeOK'
  BY <1>2, SameSets DEF IInv, TypeOK, Build
<1>4. CallInv'
  BY <1>2 DEF IInv, CallInv, Build
<1>5. ValidInv' /\ CoverInv' /\ RemovedInv' /\ FoundInv'
  BY DEF Build, ValidInv, CoverInv, IncludedProbesCovered, RemovedInv, FoundInv, Passes
<1>6. QED
  BY <1>2, <1>3, <1>4, <1>5 DEF IInv

-----------------------------------------------------------------------------
(* The call.                                                               *)

(* The beginning of checkSecurity, called with the arguments c.            *)
Calling(c) ==
    /\ c.secProp = "OPINI" => \A i \in DOMAIN c.outputList : Len(c.outputList[i]) = NbShares
    /\ call' = c
    /\ reachable' = Reachable(Outputs(c.outputList))
    /\ gatesToVerify' = reachable'
    /\ pending' = reachable'
    /\ pc' = IF ~Valid(c.secProp, reachable') THEN "exit"
             ELSE IF c.withGlitches /\ REM_SINGLE_INPUT_PROBES THEN "includedProbes"
             ELSE "inputSharesProbes"

(* The gates found from the outputs hold the outputs and their own inputs. *)
LEMMA ReachableClosed ==
    ASSUME WiredInv, NEW outs
    PROVE  /\ Reachable(outs) \in SUBSET Elements
           /\ outs \cap Elements \subseteq Reachable(outs)
           /\ Closed(Reachable(outs))
<1>1. Reachable(outs) \in SUBSET Elements /\ outs \cap Elements \subseteq Reachable(outs)
  BY DEF Reachable
<1>2. ASSUME NEW g \in Reachable(outs), NEW h \in InputsOf(g) PROVE h \in Reachable(outs)
  <2>1. h \in Elements
    BY <1>1, <1>2 DEF WiredInv
  <2>2. ASSUME NEW S \in SUBSET Elements, outs \subseteq S, Closed(S) PROVE h \in S
    BY <1>2, <2>2 DEF Reachable, Closed
  <2>3. QED
    BY <2>1, <2>2 DEF Reachable
<1>3. QED
  BY <1>1, <1>2 DEF Closed

(* It establishes the parts of the invariant that are about a call.        *)
LEMMA CallStepInv == IInv /\ CheckSecurity => IInv'
<1> SUFFICES ASSUME IInv, CheckSecurity PROVE IInv'
  OBVIOUS
<1>0. PICK nodes \in InputLists : \E c \in Calls(nodes, Len(hwElements)) : Calling(c)
  BY DEF CheckSecurity, Calling
<1>1. PICK c \in Calls(nodes, Len(hwElements)) : Calling(c)
  BY <1>0
<1> USE DEF Calling
<1>2. toRemove' = {} /\ leakingHwe' = {} /\ hwElements' = hwElements
  BY DEF CheckSecurity
<1>3. Len(hwElements) \in 0 .. MaxElements /\ Elements = 1 .. Len(hwElements)
  BY MaxElementsAssumption, ElementsFinite DEF IInv, CallInv, TypeOK
<1>4. c \in Call(1 .. Len(hwElements))
  BY <1>1, <1>3, CallsAssumption
<1>5. call' \in Call(Nat)
  <2>1. 1 .. Len(hwElements) \subseteq Nat
    BY <1>3
  <2>2. c.outputList \in Seq(Seq(Nat))
    <3>1. \A q \in Seq(1 .. Len(hwElements)) : q \in Seq(Nat)
      BY <2>1
    <3>2. c.outputList \in Seq(Seq(1 .. Len(hwElements)))
      BY <1>4 DEF Call
    <3>3. QED
      BY <3>1, <3>2
  <2>3. QED
    BY <1>1, <1>4, <2>2 DEF Call
<1>6. reachable' \subseteq Elements
  BY <1>1 DEF Reachable
<1>7. TypeOK'
  BY <1>1, <1>2, <1>5, <1>6 DEF IInv, TypeOK, Elements
<1>8. CallInv' /\ WiredInv'
  BY <1>1, <1>2, <1>5 DEF IInv, CallInv, WiredInv, Elements, InputsOf, Closed, IsInputOf
<1>9. ValidInv'
  <2> DEFINE lists == c.outputList
  <2>1. ASSUME c.secProp \in {"PINI", "OPINI"}
        PROVE  /\ WiresExist'
               /\ c.secProp = "OPINI" => NbOutputShares' = NbShares
    <3>1. /\ lists \in Seq(Seq(Elements)) /\ lists # <<>>
          /\ \A i \in DOMAIN lists : Len(lists[i]) = Len(lists[1])
      BY <1>1, <1>3, <1>4, <2>1, OutputsAssumption DEF Call
    <3>2. 1 \in DOMAIN lists /\ \A i \in DOMAIN lists : lists[i] \in Seq(Elements)
      BY <3>1
    <3>3. c.secProp = "OPINI" => Len(lists[1]) = NbShares
      BY <1>1, <3>2
    <3>4. call'.outputList = lists /\ reachable' = Reachable(Outputs(lists))
      BY <1>1
    <3> HIDE DEF lists
    <3>5. Len(lists[1]) \in Nat
      BY <3>2
    <3>6. \A i \in DOMAIN lists, n \in 0 .. Len(lists[1]) - 1 : lists[i][n + 1] \in Reachable(Outputs(lists))
      <4> TAKE i \in DOMAIN lists, n \in 0 .. Len(lists[1]) - 1
      <4>1. n + 1 \in DOMAIN lists[i] /\ lists[i] \in Seq(Elements)
        BY <3>1, <3>2, <3>5
      <4>2. lists[i][n + 1] \in Elements /\ lists[i][n + 1] \in Outputs(lists)
        BY <4>1 DEF Outputs
      <4>3. QED
        BY <4>2, ReachableClosed DEF IInv
    <3>7. NbOutputShares' = Len(lists[1])
      BY <3>4 DEF NbOutputShares
    <3>8. \A i \in DOMAIN lists : DOMAIN lists[i] = 1 .. Len(lists[1])
      BY <3>1, <3>2
    <3>9. QED
      BY <3>3, <3>4, <3>5, <3>6, <3>7, <3>8 DEF WiresExist
  <2>2. pc' \notin {"build", "exit"} => Valid(call.secProp, reachable)'
    BY <1>1, <1>2 DEF Valid
  <2>3. ASSUME NEW g \in reachable', NEW sh \in ShareOcc(hwElements[g].symbExp)
        PROVE  \E h \in reachable' : IsInputOf(h, sh)
    <3>1. reachable' \in SUBSET Elements /\ Closed(reachable')
      BY <1>1, ReachableClosed DEF IInv
    <3>2. QED
      BY <2>3, <3>1 DEF IInv, WiredInv
  <2>4. \A g \in reachable' : \A sh \in ShareOcc(hwElements'[g].symbExp) :
            \E h \in reachable' : IsInputOf(h, sh)'
    BY <1>2, <2>3 DEF IsInputOf
  <2>5. call'.secProp = c.secProp
    BY <1>1
  <2> HIDE DEF Calling
  <2>6. QED
    BY <2>1, <2>2, <2>4, <2>5 DEF ValidInv
<1>10. RemovedInv' /\ FoundInv'
  BY <1>1 DEF RemovedInv, FoundInv
<1>11. CoverInv'
  BY <1>1, <1>2 DEF CoverInv, IncludedProbesCovered
<1>12. QED
  BY <1>7, <1>8, <1>9, <1>10, <1>11 DEF IInv

-----------------------------------------------------------------------------
(* The steps that keep the circuit and the call.                           *)

(* What is said of a gate or of a tuple depends on them alone.             *)
LEMMA SameAnswers ==
    ASSUME UNCHANGED <<hwElements, call>>
    PROVE  /\ \A g : Seen(g)' = Seen(g)
           /\ \A g : KeptAsOutput(g)' <=> KeptAsOutput(g)
           /\ \A g : Useless(g)' <=> Useless(g)
           /\ \A t : HasProperty(t)' <=> HasProperty(t)
           /\ DoPartialTuples' <=> DoPartialTuples
<1>1. OutputGates' = OutputGates
  BY DEF OutputGates
<1>2. \A g : Seen(g)' = Seen(g)
  BY DEF Seen, LeakExps
<1>3. \A g : Useless(g)' <=> Useless(g)
  BY <1>2 DEF Useless, OneShare, OneIndex, SeenSymbols
<1>4. \A g : KeptAsOutput(g)' <=> KeptAsOutput(g)
  BY <1>1 DEF KeptAsOutput
<1>5. ASSUME NEW t PROVE HasProperty(t)' <=> HasProperty(t)
  <2>1. LeakExps(Probed(t))' = LeakExps(Probed(t))
    BY DEF LeakExps, Probed, OutputWires
  <2>2. \A E, n, O : IsOPINI(E, n, O)' <=> IsOPINI(E, n, O)
    BY DEF IsOPINI, WithOutputs, LeakExps, OutputWires
  <2>3. QED
    BY <1>1, <2>1, <2>2 DEF HasProperty
<1>6. QED
  BY <1>2, <1>3, <1>4, <1>5 DEF DoPartialTuples

(* The tuples to verify depend on the call and on the gates left.          *)
LEMMA SameTuples ==
    ASSUME UNCHANGED <<hwElements, call, gatesToVerify>>
    PROVE  TuplesToVerify' = TuplesToVerify
<1>1. OutputGates' = OutputGates /\ NbOutputShares' = NbOutputShares
  BY DEF OutputGates, NbOutputShares
<1>2. TupleEnum(gatesToVerify)' = TupleEnum(gatesToVerify)
  BY DEF TupleEnum, DoPartialTuples
<1>3. TupleEnumPINI(gatesToVerify \ OutputGates)' = TupleEnumPINI(gatesToVerify \ OutputGates)
  BY <1>1 DEF TupleEnumPINI, DoPartialTuples
<1>4. QED
  BY <1>2, <1>3 DEF TuplesToVerify

(* The parts of the invariant that are about the circuit and the call.     *)
LEMMA SameCall ==
    ASSUME IInv, UNCHANGED <<hwElements, call, reachable>>,
           pc \notin {"build", "exit"}, pc' \notin {"build", "exit"},
           pc' = "includedProbes" => pc = "includedProbes"
    PROVE  CallInv' /\ WiredInv' /\ ValidInv' /\ (Judged' <=> Judged)
<1>1. CallInv'
  BY DEF IInv, CallInv
<1>2. WiredInv'
  BY DEF IInv, WiredInv, Elements, InputsOf, Closed, IsInputOf
<1>3. ValidInv'
  BY DEF IInv, ValidInv, Valid, WiresExist, NbOutputShares, IsInputOf
<1>4. Judged' <=> Judged
  BY DEF Judged, NothingCancelled
<1>5. QED
  BY <1>1, <1>2, <1>3, <1>4

(* One turn of the outer loop of removeIncludedProbes: a gate is condemned *)
(* only for one that is not.                                               *)
LEMMA VisitInv == ASSUME IInv, NEW gate \in pending, VisitIncludedProbe(gate) PROVE IInv'
<1> USE DEF VisitIncludedProbe
<1>1. TypeOK'
  BY SameSets DEF IInv, TypeOK, Elements
<1>2. CallInv' /\ WiredInv' /\ ValidInv'
  BY SameCall
<1>3. RemovedInv' /\ FoundInv'
  BY DEF RemovedInv, FoundInv, Passes
<1>4. CoverInv'
  <2>1. /\ gatesToVerify = reachable
        /\ toRemove \cap pending = {}
        /\ \A g \in toRemove : ~KeptAsOutput(g)
        /\ \A g \in toRemove : \E h \in reachable \ toRemove :
              hwElements[g].leakageOut \subseteq hwElements[h].leakageOut
    BY DEF IInv, CoverInv
  <2>2. toRemove' \cap pending' = {}
    BY <2>1
  <2>3. \A g \in toRemove' : \E h \in reachable' \ toRemove' :
           hwElements'[g].leakageOut \subseteq hwElements'[h].leakageOut
    <3>1. CASE toRemove' = toRemove
      BY <2>1, <3>1
    <3>2. CASE toRemove' = toRemove \cup {gate} /\ toRemove' # toRemove
      <4>1. PICK k \in (reachable \ {gate}) \ toRemove :
                hwElements[gate].leakageOut \subseteq hwElements[k].leakageOut
        BY <2>1, <3>2
      <4>2. k \in reachable' \ toRemove'
        BY <3>2, <4>1
      <4>3. SUFFICES ASSUME NEW g \in toRemove'
                     PROVE  \E h \in reachable' \ toRemove' :
                                hwElements'[g].leakageOut \subseteq hwElements'[h].leakageOut
        OBVIOUS
      <4>4. CASE g = gate
        BY <4>1, <4>2, <4>4
      <4>5. CASE g \in toRemove
        <5>1. PICK h \in reachable \ toRemove :
                  hwElements[g].leakageOut \subseteq hwElements[h].leakageOut
          BY <2>1, <4>5
        <5>2. CASE h = gate
          BY <4>1, <4>2, <5>1, <5>2
        <5>3. CASE h # gate
          BY <3>2, <5>1, <5>3
        <5>4. QED
          BY <5>2, <5>3
      <4>6. QED
        BY <3>2, <4>4, <4>5
    <3>3. QED
      BY <3>1, <3>2
  <2>4. \A g \in toRemove' : ~KeptAsOutput(g)
    BY <2>1
  <2>5. \A g \in toRemove' : ~KeptAsOutput(g)'
    BY <2>4, SameAnswers
  <2>6. IncludedProbesCovered'
    BY DEF IncludedProbesCovered
  <2>7. QED
    BY <2>1, <2>2, <2>3, <2>5, <2>6 DEF CoverInv
<1>5. QED
  BY <1>1, <1>2, <1>3, <1>4 DEF IInv

(* The end of removeIncludedProbes: what the condemned gates observe is    *)
(* still observed.                                                         *)
LEMMA EraseInv == IInv /\ EraseIncludedProbes => IInv'
<1> SUFFICES ASSUME IInv, EraseIncludedProbes PROVE IInv'
  OBVIOUS
<1> USE DEF EraseIncludedProbes
<1>1. TypeOK'
  BY SameSets DEF IInv, TypeOK, Elements
<1>2. CallInv' /\ WiredInv' /\ ValidInv'
  BY SameCall
<1>3. call'.withGlitches
  BY DEF IInv, CallInv
<1>4. /\ gatesToVerify = reachable
      /\ \A g \in toRemove : ~KeptAsOutput(g)
      /\ \A g \in toRemove : \E h \in reachable \ toRemove :
            hwElements[g].leakageOut \subseteq hwElements[h].leakageOut
  BY DEF IInv, CoverInv
<1>5. \A g : Seen(g) = hwElements[g].leakageOut
  BY <1>3 DEF Seen, LeakExps
<1>6. \A g \in reachable \ gatesToVerify' :
          ~KeptAsOutput(g) /\ \E h \in gatesToVerify' : Seen(g) \subseteq Seen(h)
  <2> TAKE g \in reachable \ gatesToVerify'
  <2>1. g \in toRemove
    BY <1>4
  <2>2. PICK h \in reachable \ toRemove : hwElements[g].leakageOut \subseteq hwElements[h].leakageOut
    BY <1>4, <2>1
  <2>3. QED
    BY <1>4, <1>5, <2>1, <2>2
<1>7. RemovedInv'
  <2>1. \A g \in reachable' \ gatesToVerify' : Dispensable(g)'
    BY <1>6, SameAnswers DEF Dispensable
  <2>2. QED
    BY <1>3, <2>1 DEF RemovedInv
<1>8. FoundInv'
  BY DEF FoundInv
<1>9. CoverInv'
  BY <1>4 DEF CoverInv, IncludedProbesCovered
<1>10. QED
  BY <1>1, <1>2, <1>7, <1>8, <1>9 DEF IInv

(* A gate taken away by one of the passes that look at a single gate is    *)
(* useless when its expression holds the symbols it shows.                 *)
LEMMA PassErasesUseless ==
    ASSUME RemoveInputSharesProbes \/ RemoveAiBiProbes \/ RemoveAiBjProbes,
           NEW g \in gatesToVerify \ gatesToVerify',
           SeenSymbols(g) = Symbols(hwElements[g].symbExp)
    PROVE  Useless(g) /\ ~KeptAsOutput(g)
<1> DEFINE e == hwElements[g].symbExp
<1>1. ~KeptAsOutput(g)
  BY DEF RemoveInputSharesProbes, RemoveAiBiProbes, RemoveAiBjProbes, ErasePass
<1>2. /\ IsInputShare(e) \/ IsAiBi(e) \/ IsAiBj(e)
      /\ call.secProp \in {"NI", "RNI", "SNI", "PINI"}
      /\ call.secProp = "PINI" => IsInputShare(e) \/ IsAiBi(e)
  BY DEF RemoveInputSharesProbes, RemoveAiBiProbes, RemoveAiBjProbes, ErasePass
<1>3. CASE IsInputShare(e)
  <2>1. PICK sh \in Share : Symbols(e) = {sh}
    BY <1>3, SymbNodeAssumption DEF IsInputShare
  <2>2. QED
    BY <1>1, <1>2, <2>1, InputsAreNotMasks DEF Useless, OneShare, OneIndex
<1>4. CASE IsAiBi(e)
  BY <1>1, <1>2, <1>4, ShareNumAssumption DEF IsAiBi, Useless, OneShare, OneIndex, MaskOcc, ShareOcc
<1>5. CASE IsAiBj(e) /\ ~IsInputShare(e) /\ ~IsAiBi(e)
  BY <1>1, <1>2, <1>5 DEF IsAiBj, Useless, OneShare, MaskOcc, ShareOcc
<1>6. QED
  BY <1>2, <1>3, <1>4, <1>5

(* A gate that shows less than a useless one is useless.                   *)
LEMMA LessIsUseless ==
    ASSUME NEW g, NEW h, Seen(g) \subseteq Seen(h), Useless(h)
    PROVE  Useless(g)
<1>1. SeenSymbols(g) \subseteq SeenSymbols(h)
  BY DEF SeenSymbols
<1>2. QED
  BY <1>1 DEF Useless, OneShare, OneIndex

(* The three passes in one.                                                *)
LEMMA PassInv ==
    ASSUME IInv, RemoveInputSharesProbes \/ RemoveAiBiProbes \/ RemoveAiBjProbes
    PROVE  IInv'
<1>1. /\ UNCHANGED <<hwElements, call, reachable, pending, toRemove, leakingHwe>>
      /\ pc \in Passes /\ pc \notin {"build", "exit", "done"}
      /\ pc' \in {"aiBiProbes", "aiBjProbes", "redundantProbes"}
      /\ gatesToVerify' \subseteq gatesToVerify
      /\ gatesToVerify' # gatesToVerify =>
            REM_SINGLE_INPUT_PROBES /\ call.secProp \in {"NI", "RNI", "SNI", "PINI"}
  BY DEF RemoveInputSharesProbes, RemoveAiBiProbes, RemoveAiBjProbes, ErasePass, Passes
<1>2. TypeOK'
  BY <1>1, SameSets DEF IInv, TypeOK, Elements
<1>3. CallInv' /\ WiredInv' /\ ValidInv' /\ (Judged' <=> Judged)
  BY <1>1, SameCall
<1>4. /\ \A g : Seen(g)' = Seen(g)
      /\ \A g : KeptAsOutput(g)' <=> KeptAsOutput(g)
      /\ \A g : Useless(g)' <=> Useless(g)
      /\ DoPartialTuples' <=> DoPartialTuples
  BY <1>1, SameAnswers
<1>5. ASSUME Judged, call.secProp # "TPS", ~REM_REDUNDANT_PROBES
      PROVE  \A g \in reachable \ gatesToVerify' : Dispensable(g)'
  <2>1. \A g \in reachable : SeenSymbols(g) = Symbols(hwElements[g].symbExp)
    BY <1>5 DEF Judged, NothingCancelled, SeenSymbols, Seen, LeakExps
  <2>2. \A g \in gatesToVerify \ gatesToVerify' : Useless(g) /\ ~KeptAsOutput(g)
    BY <2>1, PassErasesUseless DEF IInv, TypeOK
  <2>3. \A g \in reachable \ gatesToVerify : Dispensable(g)
    BY <1>1, <1>5 DEF IInv, RemovedInv
  <2>4. ASSUME NEW g \in reachable \ gatesToVerify'
        PROVE  /\ ~KeptAsOutput(g)
               /\ Useless(g) \/ \E h \in gatesToVerify' : Seen(g) \subseteq Seen(h)
    <3>1. CASE g \in gatesToVerify
      BY <2>2, <2>4, <3>1
    <3>2. CASE g \notin gatesToVerify /\ ~Useless(g)
      <4>1. PICK h \in gatesToVerify : Seen(g) \subseteq Seen(h)
        BY <2>3, <2>4, <3>2 DEF Dispensable
      <4>2. h \in gatesToVerify'
        BY <2>2, <3>2, <4>1, LessIsUseless
      <4>3. QED
        BY <2>3, <2>4, <3>2, <4>1, <4>2 DEF Dispensable
    <3>3. CASE g \notin gatesToVerify /\ Useless(g)
      BY <2>3, <2>4, <3>3 DEF Dispensable
    <3>4. QED
      BY <3>1, <3>2, <3>3
  <2>5. QED
    BY <1>4, <2>4 DEF Dispensable
<1>6. RemovedInv'
  <2>1. ~call.withGlitches /\ (call.secProp = "TPS" \/ ~DoPartialTuples) => gatesToVerify' = reachable
    BY <1>1 DEF IInv, RemovedInv, DoPartialTuples
  <2>2. QED
    BY <1>1, <1>3, <1>4, <1>5, <2>1 DEF RemovedInv
<1>7. FoundInv' /\ CoverInv'
  BY <1>1 DEF FoundInv, CoverInv, IncludedProbesCovered
<1>8. QED
  BY <1>2, <1>3, <1>6, <1>7 DEF IInv

(* removeRedundantProbes only takes gates away.                            *)
LEMMA RedundantInv == IInv /\ RemoveRedundantProbes => IInv'
<1> SUFFICES ASSUME IInv, RemoveRedundantProbes PROVE IInv'
  OBVIOUS
<1>1. /\ UNCHANGED <<hwElements, call, reachable, pending, toRemove, leakingHwe>>
      /\ pc = "redundantProbes" /\ pc' = "tuples"
      /\ gatesToVerify' \subseteq gatesToVerify
      /\ ~REM_REDUNDANT_PROBES \/ call.secProp = "TPS" => gatesToVerify' = gatesToVerify
  BY DEF RemoveRedundantProbes
<1>2. TypeOK'
  BY <1>1, SameSets DEF IInv, TypeOK, Elements
<1>3. CallInv' /\ WiredInv' /\ ValidInv' /\ (Judged' <=> Judged)
  BY <1>1, SameCall
<1>4. RemovedInv'
  <2>1. ASSUME gatesToVerify' = gatesToVerify PROVE \A g : Dispensable(g)' <=> Dispensable(g)
    BY <1>1, <2>1, SameAnswers DEF Dispensable
  <2>2. DoPartialTuples' <=> DoPartialTuples
    BY <1>1, SameAnswers
  <2>3. ~DoPartialTuples => ~REM_REDUNDANT_PROBES \/ call.secProp = "TPS"
    BY DEF DoPartialTuples
  <2>4. QED
    BY <1>1, <1>3, <2>1, <2>2, <2>3 DEF IInv, RemovedInv, Passes
<1>5. FoundInv' /\ CoverInv'
  BY <1>1 DEF FoundInv, CoverInv, IncludedProbesCovered
<1>6. QED
  BY <1>2, <1>3, <1>4, <1>5 DEF IInv

(* The tuples of the gates left are sets of at most order probes.          *)
LEMMA TuplesOfAll ==
    ASSUME IInv, pc = "tuples"
    PROVE  TuplesToVerify \subseteq AllTuples
<1>1. call.order \in Nat /\ IsFiniteSet(reachable) /\ gatesToVerify \subseteq reachable
  BY ElementsFinite, FS_Subset DEF IInv, TypeOK, CallInv, Call
<1>2. \A T \in SUBSET reachable : IsFiniteSet(T) /\ Cardinality(T) \in Nat
  BY <1>1, FS_Subset, FS_CardinalityType
<1>3. CASE call.secProp \notin {"PINI", "OPINI"}
  BY <1>1, <1>2, <1>3 DEF TuplesToVerify, AllTuples, TupleEnum
<1>4. CASE call.secProp \in {"PINI", "OPINI"}
  <2> SUFFICES ASSUME NEW t \in TupleEnumPINI(gatesToVerify \ OutputGates) PROVE t \in AllTuples
    BY <1>4 DEF TuplesToVerify
  <2>1. /\ t \in [outputIndexes : SUBSET (0 .. NbOutputShares - 1), probes : SUBSET (reachable \ OutputGates)]
        /\ \/ Cardinality(t.probes) = call.order - Cardinality(t.outputIndexes)
           \/ Cardinality(t.probes) < call.order - Cardinality(t.outputIndexes)
    BY <1>1 DEF TupleEnumPINI
  <2>2. Cardinality(t.outputIndexes) \in Nat
    <3>1. NbOutputShares \in Nat
      BY <1>4 DEF IInv, ValidInv, WiresExist
    <3>2. IsFiniteSet(0 .. NbOutputShares - 1)
      BY <3>1, FS_Interval
    <3>3. QED
      BY <2>1, <3>2, FS_Subset, FS_CardinalityType
  <2>3. Cardinality(t.probes) \in Nat
    BY <1>2, <2>1
  <2>4. Cardinality(t.outputIndexes) + Cardinality(t.probes) <= call.order
    BY <1>1, <2>1, <2>2, <2>3
  <2>5. QED
    BY <1>4, <2>1, <2>4 DEF AllTuples
<1>5. QED
  BY <1>3, <1>4

(* The enumeration records the tuples of the gates left that do not have   *)
(* the property; the last steps change nothing that counts.                *)
LEMMA VerifyTuplesInv == IInv /\ VerifyTuples => IInv'
<1> SUFFICES ASSUME IInv, VerifyTuples PROVE IInv'
  OBVIOUS
<1>1. /\ UNCHANGED <<hwElements, call, reachable, gatesToVerify, pending, toRemove>>
      /\ pc = "tuples" /\ pc' = "done"
      /\ leakingHwe' \subseteq TuplesToVerify
      /\ \A t \in TuplesToVerify : t \in leakingHwe' \/ HasProperty(t)
      /\ call.secProp # "OPINI" => \A t \in leakingHwe' : ~HasProperty(t)
  BY DEF VerifyTuples, MayFail
<1>2. TypeOK'
  <2>1. \A t \in leakingHwe' : t \in AllTuples'
    BY <1>1, TuplesOfAll, SameSets
  <2>2. QED
    BY <1>1, <2>1 DEF IInv, TypeOK, Elements
<1>3. CallInv' /\ WiredInv' /\ ValidInv' /\ (Judged' <=> Judged)
  BY <1>1, SameCall
<1>4. RemovedInv'
  <2>1. \A g : Dispensable(g)' <=> Dispensable(g)
    BY <1>1, SameAnswers DEF Dispensable
  <2>2. DoPartialTuples' <=> DoPartialTuples
    BY <1>1, SameAnswers
  <2>3. QED
    BY <1>1, <1>3, <2>1, <2>2 DEF IInv, RemovedInv, Passes
<1>5. FoundInv'
  <2>1. TuplesToVerify' = TuplesToVerify
    BY <1>1, SameTuples
  <2>2. \A t : HasProperty(t)' <=> HasProperty(t)
    BY <1>1, SameAnswers
  <2>3. QED
    BY <1>1, <2>1, <2>2 DEF FoundInv, LeaksFound
<1>6. CoverInv'
  BY <1>1 DEF CoverInv, IncludedProbesCovered
<1>7. QED
  BY <1>2, <1>3, <1>4, <1>5, <1>6 DEF IInv

(* verifMSICleanup leads back to the initial state.                        *)
LEMMA CleanupInv == Cleanup => IInv'
<1> SUFFICES ASSUME Cleanup PROVE IInv'
  OBVIOUS
<1>1. TypeOK'
  BY DEF Cleanup, TypeOK
<1>2. CallInv'
  BY MaxElementsAssumption DEF Cleanup, CallInv
<1>3. WiredInv'
  BY DEF Cleanup, WiredInv, Elements
<1>4. QED
  BY <1>1, <1>2, <1>3
     DEF Cleanup, IInv, ValidInv, CoverInv, IncludedProbesCovered, RemovedInv, FoundInv, Passes

(* The invariant is about the variables of the module only.                *)
LEMMA StutterInv == IInv /\ UNCHANGED vars => IInv'
<1> SUFFICES ASSUME IInv, UNCHANGED vars PROVE IInv'
  OBVIOUS
<1> USE DEF vars
<1>1. TypeOK'
  BY SameSets DEF IInv, TypeOK, Elements
<1>2. CallInv' /\ WiredInv'
  BY DEF IInv, CallInv, WiredInv, Elements, InputsOf, Closed, IsInputOf
<1>3. ValidInv'
  BY DEF IInv, ValidInv, Valid, WiresExist, NbOutputShares, IsInputOf
<1>4. RemovedInv'
  <2>1. \A g : Dispensable(g)' <=> Dispensable(g)
    BY SameAnswers DEF Dispensable
  <2>2. DoPartialTuples' <=> DoPartialTuples
    BY SameAnswers
  <2>3. Judged' <=> Judged
    BY DEF Judged, NothingCancelled
  <2>4. QED
    BY <2>1, <2>2, <2>3 DEF IInv, RemovedInv
<1>5. FoundInv'
  <2>1. TuplesToVerify' = TuplesToVerify
    BY SameTuples
  <2>2. \A t : HasProperty(t)' <=> HasProperty(t)
    BY SameAnswers
  <2>3. QED
    BY <2>1, <2>2 DEF IInv, FoundInv, LeaksFound
<1>6. CoverInv'
  <2>1. \A g : KeptAsOutput(g)' <=> KeptAsOutput(g)
    BY SameAnswers
  <2>2. QED
    BY <2>1 DEF IInv, CoverInv, IncludedProbesCovered
<1>7. QED
  BY <1>1, <1>2, <1>3, <1>4, <1>5, <1>6 DEF IInv

-----------------------------------------------------------------------------
(* The theorems.                                                           *)

(* The inductive invariant holds in every reachable state of               *)
(* checkSecurity.                                                          *)
THEOREM Invariance == Spec => []IInv
<1>1. Init => IInv
  BY InitInv
<1>2. IInv /\ [Next]_vars => IInv'
  <2> SUFFICES ASSUME IInv, [Next]_vars PROVE IInv'
    OBVIOUS
  <2>1. CASE Build
    BY <2>1, BuildInv
  <2>2. CASE CheckSecurity
    BY <2>2, CallStepInv
  <2>3. CASE \E gate \in pending : VisitIncludedProbe(gate)
    BY <2>3, VisitInv
  <2>4. CASE EraseIncludedProbes
    BY <2>4, EraseInv
  <2>5. CASE RemoveInputSharesProbes \/ RemoveAiBiProbes \/ RemoveAiBjProbes
    BY <2>5, PassInv
  <2>6. CASE RemoveRedundantProbes
    BY <2>6, RedundantInv
  <2>7. CASE VerifyTuples
    BY <2>7, VerifyTuplesInv
  <2>8. CASE Cleanup
    BY <2>8, CleanupInv
  <2>9. CASE UNCHANGED vars
    BY <2>9, StutterInv
  <2>10. QED
    BY <2>1, <2>2, <2>3, <2>4, <2>5, <2>6, <2>7, <2>8, <2>9 DEF Next
<1>3. QED
  BY <1>1, <1>2, PTL DEF Spec

(* The state of a verification keeps its shape.                            *)
THEOREM TypeCorrect == Spec => []TypeOK
<1>1. IInv => TypeOK
  BY DEF IInv
<1>2. QED
  BY <1>1, Invariance, PTL

(* Whatever the order in which removeIncludedProbes meets the gates, what  *)
(* it leaves observes all that the reachable gates observe.                *)
THEOREM IncludedProbesSafe == Spec => []IncludedProbesCovered
<1>1. IInv => IncludedProbesCovered
  BY DEF IInv, CoverInv
<1>2. QED
  BY <1>1, Invariance, PTL

-----------------------------------------------------------------------------
(* The tuples of probes, and what they show.                               *)

Tuple(O, T) == [outputIndexes |-> O, probes |-> T]

-----------------------------------------------------------------------------
(* Expressions without masks reveal the symbols they hold and nothing      *)
(* more, whatever they are observed with.                                  *)

(* The value of an expression without masks does not change with an input  *)
(* that does not occur in it, nor with the masks.                          *)
LEMMA UnmaskedValue ==
    ASSUME NEW e \in Exp, MaskOcc(e) = {},
           NEW K \in SUBSET (Secret \cup Share), NEW s \in Secret \cup Share, s \notin Symbols(e),
           NEW M \in SUBSET Mask
    PROVE  /\ Value(e, K, M) <=> Value(e, K, {})
           /\ Value(e, K \cup {s}, M) <=> Value(e, K, {})
<1>1. (K \cup {s}) \cap Symbols(e) = K \cap Symbols(e)
  OBVIOUS
<1>2. M \cap Symbols(e) = {} /\ {} \cap Symbols(e) = {}
  BY DEF MaskOcc
<1>3. K \cup {s} \in SUBSET (Secret \cup Share)
  OBVIOUS
<1>4. Value(e, K, M) <=> Value(e, K \cap Symbols(e), {})
  BY <1>2, SupportAssumption DEF MaskOcc
<1>5. Value(e, K, {}) <=> Value(e, K \cap Symbols(e), {})
  BY <1>2, SupportAssumption DEF MaskOcc
<1>6. Value(e, K \cup {s}, M) <=> Value(e, (K \cup {s}) \cap Symbols(e), M \cap Symbols(e))
  BY <1>3, SupportAssumption
<1>7. QED
  BY <1>1, <1>2, <1>4, <1>5, <1>6

(* With an input that does not occur in R, the distribution of E and R     *)
(* together is that of E alone, relabelled.                                *)
LEMMA DistributionWithUnmasked ==
    ASSUME NEW E \in SUBSET Exp, NEW R \in SUBSET Exp, \A r \in R : MaskOcc(r) = {},
           NEW s \in Secret \cup Share, \A r \in R : s \notin Symbols(r),
           NEW K \in SUBSET (Secret \cup Share),
           Distribution(E, K) = Distribution(E, K \cup {s})
    PROVE  Distribution(E \cup R, K) = Distribution(E \cup R, K \cup {s})
<1> DEFINE RO == Observed(R, K, {})
<1> DEFINE L == K \cup {s}
<1>1. \A M \in SUBSET Mask : Observed(R, K, M) = RO /\ Observed(R, L, M) = RO
  <2> SUFFICES ASSUME NEW M \in SUBSET Mask
               PROVE  Observed(R, K, M) = RO /\ Observed(R, L, M) = RO
    OBVIOUS
  <2>1. \A r \in R : (Value(r, K, M) <=> Value(r, K, {})) /\ (Value(r, L, M) <=> Value(r, K, {}))
    BY UnmaskedValue
  <2>2. QED
    BY <2>1 DEF Observed
<1>2. \A J, M : Observed(E \cup R, J, M) = Observed(E, J, M) \cup Observed(R, J, M)
  BY DEF Observed
<1>2a. \A J, M : Observed(E \cup R, J, M) \cap E = Observed(E, J, M)
  BY DEF Observed
<1>2b. \A M \in SUBSET Mask : /\ Observed(E \cup R, K, M) = Observed(E, K, M) \cup RO
                              /\ Observed(E \cup R, L, M) = Observed(E, L, M) \cup RO
  BY <1>1, <1>2
<1>2c. Distribution(E, K) = Distribution(E, L)
  OBVIOUS
<1> HIDE DEF RO, L
<1>2d. ASSUME NEW P \in SUBSET Mask, NEW Q \in SUBSET Mask
       PROVE  Observed(E \cup R, K, P) = Observed(E \cup R, K, Q) <=> Observed(E, K, P) = Observed(E, K, Q)
  <2>1. ASSUME Observed(E \cup R, K, P) = Observed(E \cup R, K, Q) PROVE Observed(E, K, P) = Observed(E, K, Q)
    BY <1>2a, <2>1
  <2>2. ASSUME Observed(E, K, P) = Observed(E, K, Q) PROVE Observed(E \cup R, K, P) = Observed(E \cup R, K, Q)
    BY <1>2b, <2>2
  <2>3. QED
    BY <2>1, <2>2
<1>2e. ASSUME NEW P \in SUBSET Mask, NEW Q \in SUBSET Mask
       PROVE  Observed(E \cup R, L, P) = Observed(E \cup R, L, Q) <=> Observed(E, L, P) = Observed(E, L, Q)
  <2>1. ASSUME Observed(E \cup R, L, P) = Observed(E \cup R, L, Q) PROVE Observed(E, L, P) = Observed(E, L, Q)
    BY <1>2a, <2>1
  <2>2. ASSUME Observed(E, L, P) = Observed(E, L, Q) PROVE Observed(E \cup R, L, P) = Observed(E \cup R, L, Q)
    BY <1>2b, <2>2
  <2>3. QED
    BY <2>1, <2>2
<1> DEFINE Count(F, J, o) == Cardinality({M \in SUBSET Mask : Observed(F, J, M) = o})
<1>3. ASSUME NEW M \in SUBSET Mask, NEW N \in SUBSET Mask, Observed(E, K, M) = Observed(E, L, N)
      PROVE  /\ Observed(E \cup R, K, M) = Observed(E \cup R, L, N)
             /\ Count(E \cup R, K, Observed(E \cup R, K, M)) = Count(E \cup R, L, Observed(E \cup R, K, M))
  <2>1. Observed(E \cup R, K, M) = Observed(E \cup R, L, N)
    BY <1>2b, <1>3
  <2> DEFINE o == Observed(E, K, M)
  <2>2. o \in DOMAIN Distribution(E, K) /\ o \in DOMAIN Distribution(E, L)
    BY <1>3 DEF Distribution
  <2>3. Distribution(E, K)[o] = Distribution(E, L)[o]
    BY <1>2c
  <2>4. Distribution(E, K)[o] = Count(E, K, o) /\ Distribution(E, L)[o] = Count(E, L, o)
    BY <1>3 DEF Distribution
  <2>5. {P \in SUBSET Mask : Observed(E \cup R, K, P) = Observed(E \cup R, K, M)}
            = {P \in SUBSET Mask : Observed(E, K, P) = o}
    BY <1>2d
  <2>6. {P \in SUBSET Mask : Observed(E \cup R, L, P) = Observed(E \cup R, K, M)}
            = {P \in SUBSET Mask : Observed(E, L, P) = o}
    BY <1>2e, <1>3, <2>1
  <2>7. QED
    BY <2>1, <2>3, <2>4, <2>5, <2>6
<1>4. \A M \in SUBSET Mask : \E N \in SUBSET Mask : Observed(E, K, M) = Observed(E, L, N)
  <2>1. DOMAIN Distribution(E, K) = DOMAIN Distribution(E, L)
    BY <1>2c
  <2>2. QED
    BY <2>1 DEF Distribution
<1>5. \A N \in SUBSET Mask : \E M \in SUBSET Mask : Observed(E, K, M) = Observed(E, L, N)
  <2>1. DOMAIN Distribution(E, K) = DOMAIN Distribution(E, L)
    BY <1>2c
  <2>2. QED
    BY <2>1 DEF Distribution
<1> DEFINE DK == {Observed(E \cup R, K, M) : M \in SUBSET Mask}
           DL == {Observed(E \cup R, L, M) : M \in SUBSET Mask}
<1> HIDE DEF Count
<1>6. DK = DL
  <2>1. ASSUME NEW M \in SUBSET Mask PROVE Observed(E \cup R, K, M) \in DL
    <3>1. PICK N \in SUBSET Mask : Observed(E, K, M) = Observed(E, L, N)
      BY <1>4
    <3>2. QED
      BY <1>3, <3>1
  <2>2. ASSUME NEW N \in SUBSET Mask PROVE Observed(E \cup R, L, N) \in DK
    <3>1. PICK M \in SUBSET Mask : Observed(E, K, M) = Observed(E, L, N)
      BY <1>5
    <3>2. QED
      BY <1>3, <3>1
  <2>3. QED
    BY <2>1, <2>2
<1>7. \A o \in DK : Count(E \cup R, K, o) = Count(E \cup R, L, o)
  <2>1. ASSUME NEW M \in SUBSET Mask
        PROVE  Count(E \cup R, K, Observed(E \cup R, K, M)) = Count(E \cup R, L, Observed(E \cup R, K, M))
    BY <1>3, <1>4
  <2>2. QED
    BY <2>1
<1>8. Distribution(E \cup R, K) = [o \in DK |-> Count(E \cup R, K, o)]
  BY DEF Distribution, Count
<1>9. Distribution(E \cup R, L) = [o \in DL |-> Count(E \cup R, L, o)]
  BY DEF Distribution, Count
<1>10. QED
  BY <1>6, <1>7, <1>8, <1>9 DEF L

(* Expressions without masks add at most the shares that occur in them to  *)
(* what is effective.                                                      *)
LEMMA EffectiveWithUnmasked ==
    ASSUME NEW E \in SUBSET Exp, NEW R \in SUBSET Exp, \A r \in R : MaskOcc(r) = {}
    PROVE  Effective(E \cup R) \subseteq Effective(E) \cup UNION {Symbols(r) : r \in R}
<1> SUFFICES ASSUME NEW s \in Effective(E \cup R), \A r \in R : s \notin Symbols(r)
             PROVE  s \in Effective(E)
  OBVIOUS
<1>1. s \in Secret \cup Share /\ s \in InputsIn(E)
  BY DEF Effective, InputsIn
<1>2. PICK K \in SUBSET ((Secret \cup Share) \ {s}) :
            Distribution(E \cup R, K) # Distribution(E \cup R, K \cup {s})
  BY DEF Effective, InputsIn
<1>3. Distribution(E, K) # Distribution(E, K \cup {s})
  <2>1. K \in SUBSET (Secret \cup Share)
    OBVIOUS
  <2>2. ASSUME Distribution(E, K) = Distribution(E, K \cup {s}) PROVE FALSE
    <3>0. s \in Secret \cup Share
      BY <1>1
    <3>1. Distribution(E \cup R, K) = Distribution(E \cup R, K \cup {s})
      BY <3>0, <2>1, <2>2, DistributionWithUnmasked DEF MaskOcc
    <3>2. QED
      BY <1>2, <3>1
  <2>3. QED
    BY <2>2
<1>0. \A e \in E : Supported(e)
  BY SupportAssumption DEF Supported
<1> DEFINE J == K \cap InputsIn(E)
<1>4. Distribution(E, K) = Distribution(E, J)
  BY <1>0, DistributionOfInputs
<1>5. Distribution(E, K \cup {s}) = Distribution(E, J \cup {s})
  <2>1. (K \cup {s}) \cap InputsIn(E) = J \cup {s} /\ K \cup {s} \in SUBSET (Secret \cup Share)
    BY <1>1
  <2>2. QED
    BY <1>0, <2>1, DistributionOfInputs
<1>6. J \in SUBSET (InputsIn(E) \ {s})
  OBVIOUS
<1> HIDE DEF J
<1>7. QED
  BY <1>1, <1>3, <1>4, <1>5, <1>6 DEF Effective

(* A share that is observed as it is is revealed.                          *)
LEMMA InputRevealsShare ==
    ASSUME NEW E, NEW sh \in Share, SymbNode(sh) \in E
    PROVE  sh \in Effective(E)
<1> DEFINE e == SymbNode(sh)
<1>1. /\ Symbols(e) = {sh}
      /\ \A M \in SUBSET Mask : ~Value(e, {}, M) /\ Value(e, {sh}, M)
  BY SymbNodeAssumption
<1> HIDE DEF e
<1>2. \A M \in SUBSET Mask : Observed({e}, {}, M) = {} /\ Observed({e}, {sh}, M) = {e}
  BY <1>1 DEF Observed
<1>3. DOMAIN Distribution({e}, {}) = {Observed({e}, {}, M) : M \in SUBSET Mask}
  BY DEF Distribution
<1>4. DOMAIN Distribution({e}, {sh}) = {Observed({e}, {sh}, M) : M \in SUBSET Mask}
  BY DEF Distribution
<1>5. {} \in DOMAIN Distribution({e}, {}) /\ {} \notin DOMAIN Distribution({e}, {sh})
  BY <1>2, <1>3, <1>4
<1>6. Distribution({e}, {}) # Distribution({e}, {} \cup {sh})
  <2>1. {} \cup {sh} = {sh}
    OBVIOUS
  <2>2. QED
    BY <1>5, <2>1
<1>7. InputsIn({e}) = {sh}
  BY <1>1 DEF InputsIn
<1>8. sh \in Effective({e})
  BY <1>6, <1>7 DEF Effective
<1>9. {e} \subseteq E
  BY DEF e
<1>10. QED
  BY <1>8, <1>9, MoreRevealsMore

-----------------------------------------------------------------------------
(* What is observed on the gates of a finished verification.               *)

(* A set of probes observes what each one does.                            *)
LEMMA SeenTogether ==
    /\ \A W : LeakExps(W) = UNION {Seen(g) : g \in W}
    /\ \A V, W : LeakExps(V \cup W) = LeakExps(V) \cup LeakExps(W)
    /\ \A V, W : V \subseteq W => LeakExps(V) \subseteq LeakExps(W)
<1>1. \A W : LeakExps(W) = UNION {Seen(g) : g \in W}
  <2> TAKE W
  <2>1. CASE call.withGlitches
    <3>1. \A g : Seen(g) = hwElements[g].leakageOut
      BY <2>1 DEF Seen, LeakExps
    <3>2. QED
      BY <2>1, <3>1 DEF LeakExps
  <2>2. CASE ~call.withGlitches
    <3>1. \A g : Seen(g) = {hwElements[g].symbExp}
      BY <2>2 DEF Seen, LeakExps
    <3>2. QED
      BY <2>2, <3>1 DEF LeakExps
  <2>3. QED
    BY <2>1, <2>2
<1>2. QED
  BY <1>1

(* The gates verified are some of the reachable ones, and these show       *)
(* shares, no secret.                                                      *)
Verified ==
    /\ call.order \in Nat \ {0}
    /\ IsFiniteSet(reachable)
    /\ gatesToVerify \subseteq reachable
    /\ LeaksFound /\ \A t \in leakingHwe : t \in AllTuples
    /\ \A g \in reachable : Seen(g) \subseteq Exp
    /\ call.secProp # "TPS" /\ Judged => \A g \in reachable : SeenSymbols(g) \cap Secret = {}
    /\ call.secProp # "TPS" /\ ~REM_REDUNDANT_PROBES /\ Judged =>
          \A g \in reachable \ gatesToVerify : Dispensable(g)
    /\ ~call.withGlitches /\ (call.secProp = "TPS" \/ ~DoPartialTuples) => gatesToVerify = reachable
    /\ ~call.withGlitches =>
          \A g \in reachable : \A sh \in SeenSymbols(g) \cap Share : \E h \in reachable : IsInputOf(h, sh)

(* A call that has ended has verified the tuples of the gates left.        *)
LEMMA VerificationDone == IInv /\ pc = "done" => Verified
<1> SUFFICES ASSUME IInv, pc = "done" PROVE Verified
  OBVIOUS
<1>1. /\ call \in Call(Nat)
      /\ hwElements \in Seq(HWElement)
      /\ reachable \subseteq Elements /\ gatesToVerify \subseteq reachable
      /\ Valid(call.secProp, reachable)
  BY DEF IInv, TypeOK, CallInv, ValidInv
<1>2. call.order \in Nat \ {0}
  BY <1>1 DEF Call
<1>3. IsFiniteSet(reachable) /\ \A g \in reachable : hwElements[g] \in HWElement
  BY <1>1, ElementsFinite, FS_Subset
<1>4. \A g \in reachable : Seen(g) \subseteq Exp
  BY <1>3 DEF Seen, LeakExps, HWElement
<1>5. ASSUME call.secProp # "TPS", Judged, NEW g \in reachable PROVE SeenSymbols(g) \cap Secret = {}
  <2>1. SeenSymbols(g) = Symbols(hwElements[g].symbExp)
    BY <1>5 DEF Judged, NothingCancelled, SeenSymbols, Seen, LeakExps
  <2>2. QED
    BY <1>1, <1>5, <2>1 DEF Valid
<1>6. LeaksFound /\ \A t \in leakingHwe : t \in AllTuples
  BY DEF IInv, TypeOK, FoundInv
<1>7. /\ call.secProp # "TPS" /\ ~REM_REDUNDANT_PROBES /\ Judged =>
            \A g \in reachable \ gatesToVerify : Dispensable(g)
      /\ ~call.withGlitches /\ (call.secProp = "TPS" \/ ~DoPartialTuples) => gatesToVerify = reachable
  BY DEF IInv, RemovedInv, Passes
<1>8. ASSUME ~call.withGlitches, NEW g \in reachable, NEW sh \in SeenSymbols(g) \cap Share
      PROVE  \E h \in reachable : IsInputOf(h, sh)
  <2>1. SeenSymbols(g) = Symbols(hwElements[g].symbExp)
    BY <1>8 DEF SeenSymbols, Seen, LeakExps
  <2>2. QED
    BY <2>1 DEF IInv, ValidInv, ShareOcc
<1>9. QED
  BY <1>1, <1>2, <1>3, <1>4, <1>5, <1>6, <1>7, <1>8 DEF Verified

(* A tuple that is reported leaks, but for OPINI: a gadget of which one is *)
(* reported is not secure.                                                 *)
LEMMA LeaksAreReal ==
    ASSUME Verified, call.secProp # "OPINI", Secure
    PROVE  leakingHwe = {}
BY DEF Verified, LeaksFound, Secure

-----------------------------------------------------------------------------
(* NI, SNI and RNI.                                                        *)

(* The shares of a secret a set of probes reveals, the probes that count,  *)
(* and how many shares more than those may be revealed.                    *)
Revealed(T, s) == Effective(LeakExps(T)) \cap SharesOf(s)

Counted(T) == IF call.secProp = "SNI" THEN T \ OutputGates ELSE T

Slack == IF call.secProp = "RNI" THEN NbShares - 1 - call.order ELSE 0

BoundsShares ==
    /\ call.secProp \in {"NI", "SNI", "RNI"}
    /\ call.secProp = "RNI" => call.order < NbShares

(* The shares revealed are finitely many.                                  *)
LEMMA RevealedFinite ==
    \A E, s : /\ IsFiniteSet(SharesOf(s)) /\ IsFiniteSet(Effective(E) \cap SharesOf(s))
              /\ Cardinality(Effective(E) \cap SharesOf(s)) \in Nat
<1>1. \A s : SharesOf(s) \subseteq Share
  BY DEF SharesOf
<1>2. \A E, s : Effective(E) \cap SharesOf(s) \subseteq Share
  BY <1>1
<1>3. \A A : A \subseteq Share => IsFiniteSet(A) /\ Cardinality(A) \in Nat
  BY SymbolsAssumption, FS_Subset, FS_CardinalityType
<1>4. QED
  BY <1>1, <1>2, <1>3

(* A tuple has the property when no secret has more shares revealed than   *)
(* there are probes that count.                                            *)
LEMMA AnswerForShares ==
    ASSUME BoundsShares, call.order \in Nat, NEW T, IsFiniteSet(T)
    PROVE  HasProperty(Tuple({}, T))
             <=> \A s \in Secret : Cardinality(Revealed(T, s)) <= Cardinality(Counted(T)) + Slack
<1>1. LeakExps(Probed(Tuple({}, T))) = LeakExps(T)
  <2>1. OutputWires({}) = {}
    BY DEF OutputWires
  <2>2. Probed(Tuple({}, T)) = T
    BY <2>1 DEF Probed, Tuple
  <2>3. QED
    BY <2>2
<1>2. Tuple({}, T).probes = T /\ Tuple({}, T).outputIndexes = {}
  BY DEF Tuple
<1>3. /\ Cardinality(T) \in Nat /\ Cardinality(T \ OutputGates) \in Nat
      /\ Cardinality(T) - Cardinality(T \cap OutputGates) = Cardinality(T \ OutputGates)
  BY Split
<1>4. CASE call.secProp = "NI"
  BY <1>1, <1>2, <1>3, <1>4 DEF HasProperty, IsNIWithExev, Revealed, Counted, Slack
<1>5. CASE call.secProp = "SNI"
  <2> DEFINE c == Cardinality(T \ OutputGates)
  <2>1. HasProperty(Tuple({}, T)) <=> IsNIWithExev(LeakExps(T), c)
    BY <1>1, <1>2, <1>3, <1>5 DEF HasProperty
  <2>2. Cardinality(Counted(T)) + Slack = c
    BY <1>3, <1>5 DEF Counted, Slack
  <2> HIDE DEF c
  <2>3. QED
    BY <2>1, <2>2 DEF IsNIWithExev, Revealed
<1>6. CASE call.secProp = "RNI"
  <2> DEFINE E == LeakExps(T)
  <2>1. HasProperty(Tuple({}, T)) <=> IsRNIWithExev(E, call.order - Cardinality(T))
    BY <1>1, <1>2, <1>6 DEF HasProperty
  <2>2. /\ call.order \in Nat /\ NbShares \in Nat /\ call.order < NbShares
        /\ Slack = NbShares - 1 - call.order /\ Counted(T) = T
    BY <1>6, NbSharesAssumption DEF BoundsShares, Slack, Counted
  <2> HIDE DEF E
  <2>3. ASSUME NEW s \in Secret
        PROVE  (InputsIn(E) \cap SharesOf(s) # {}
                    => Cardinality(Effective(E) \cap SharesOf(s)) + (call.order - Cardinality(T)) < NbShares)
                 <=> Cardinality(Effective(E) \cap SharesOf(s)) <= Cardinality(T) + (NbShares - 1 - call.order)
    <3>1. Cardinality(Effective(E) \cap SharesOf(s)) \in Nat
      BY RevealedFinite
    <3>2. InputsIn(E) \cap SharesOf(s) = {} => Cardinality(Effective(E) \cap SharesOf(s)) = 0
      <4>1. Effective(E) \subseteq InputsIn(E)
        BY DEF Effective
      <4>2. InputsIn(E) \cap SharesOf(s) = {} => Effective(E) \cap SharesOf(s) = {}
        BY <4>1
      <4>3. QED
        BY <4>2, FS_EmptySet
    <3>3. PICK c \in Nat : c = Cardinality(Effective(E) \cap SharesOf(s))
      BY <3>1
    <3>4. QED
      BY <1>3, <2>2, <3>2, <3>3
  <2>4. QED
    BY <2>1, <2>2, <2>3 DEF IsRNIWithExev, Revealed, E
<1>7. QED
  BY <1>4, <1>5, <1>6 DEF BoundsShares

(* Probes with one share of each secret add one share of a secret each to  *)
(* what is revealed without them.                                          *)
LEMMA AddOneShareEach ==
    ASSUME NEW E \in SUBSET Exp, NEW U, IsFiniteSet(U), \A g \in U : Seen(g) \subseteq Exp /\ OneShare(g), NEW s
    PROVE  Cardinality(Effective(E \cup LeakExps(U)) \cap SharesOf(s))
               <= Cardinality(Effective(E) \cap SharesOf(s)) + Cardinality(U)
<1> DEFINE R == LeakExps(U)
           A == Effective(E \cup R) \cap SharesOf(s)
           B == Effective(E) \cap SharesOf(s)
           X == A \ B
           F == [g \in U |-> SeenSymbols(g) \cap SharesOf(s)]
<1>1. /\ IsFiniteSet(A) /\ IsFiniteSet(B) /\ IsFiniteSet(X) /\ IsFiniteSet(SharesOf(s))
  BY RevealedFinite, FS_Difference
<1>2. R = UNION {Seen(g) : g \in U}
  BY SeenTogether
<1>3. Effective(E \cup R) \subseteq Effective(E) \cup UNION {Symbols(r) : r \in R}
  <2>1. R \in SUBSET Exp /\ \A r \in R : MaskOcc(r) = {}
    BY <1>2 DEF OneShare, SeenSymbols, MaskOcc
  <2> HIDE DEF R
  <2>2. QED
    BY <2>1, EffectiveWithUnmasked
<1>4. X \subseteq SharesOf(s) /\ \A x \in X : \E g \in U : x \in F[g]
  <2> SUFFICES ASSUME NEW x \in X PROVE x \in SharesOf(s) /\ \E g \in U : x \in F[g]
    OBVIOUS
  <2>1. PICK r \in R : x \in Symbols(r)
    BY <1>3
  <2>2. PICK g \in U : r \in Seen(g)
    BY <1>2, <2>1
  <2>3. x \in SeenSymbols(g) \cap SharesOf(s)
    BY <2>1, <2>2 DEF SeenSymbols
  <2>4. QED
    BY <2>3
<1>5. F \in [U -> SUBSET SharesOf(s)] /\ \A g \in U : \A x, y \in F[g] : x = y
  BY DEF OneShare, SharesOf
<1>6. Cardinality(X) <= Cardinality(U)
  <2> HIDE DEF X, F
  <2>1. QED
    BY <1>1, <1>4, <1>5, OneShareEach
<1>7. A \subseteq B \cup X
  OBVIOUS
<1> HIDE DEF X, A, B
<1>8. /\ Cardinality(B \cup X) <= Cardinality(B) + Cardinality(X)
      /\ Cardinality(A) <= Cardinality(B \cup X)
      /\ Cardinality(A) \in Nat /\ Cardinality(B \cup X) \in Nat /\ Cardinality(B) \in Nat /\ Cardinality(X) \in Nat
  BY <1>1, <1>7, UnionFits, PartFits
<1>9. Cardinality(U) \in Nat
  BY FS_CardinalityType
<1>10. Cardinality(A) <= Cardinality(B) + Cardinality(U)
  BY <1>6, <1>8, <1>9
<1>11. QED
  BY <1>10 DEF A, B

(* The dispensable probes of a set are useless, or shown by other probes   *)
(* that are verified, no more of them: of a set of probes the useless ones *)
(* are left out and the others replaced.                                   *)
LEMMA LeftForShares ==
    ASSUME Verified, BoundsShares, \A g \in reachable \ gatesToVerify : Dispensable(g),
           NEW T \in SUBSET reachable
    PROVE  \E K \in SUBSET gatesToVerify, U \in SUBSET T :
              /\ \A g \in U : OneShare(g)
              /\ LeakExps(T) \subseteq LeakExps(K) \cup LeakExps(U)
              /\ Cardinality(K) <= Cardinality(T)
              /\ Cardinality(Counted(K)) + Cardinality(U) <= Cardinality(Counted(T))
<1> DEFINE Left == T \cap gatesToVerify
           U == {g \in T \ gatesToVerify : Useless(g)}
           V == (T \ gatesToVerify) \ U
           h == [g \in V |-> CHOOSE k \in gatesToVerify : Seen(g) \subseteq Seen(k)]
           H == {h[g] : g \in V}
           K == Left \cup H
           D == IF call.secProp = "SNI" THEN OutputGates ELSE {}
<1>1. /\ gatesToVerify \subseteq reachable /\ IsFiniteSet(T)
      /\ IsFiniteSet(Left) /\ IsFiniteSet(U) /\ IsFiniteSet(V)
  BY FS_Subset DEF Verified
<1>2. \A g \in V : \E k \in gatesToVerify : Seen(g) \subseteq Seen(k)
  BY DEF Dispensable
<1>3. \A g \in V : h[g] \in gatesToVerify /\ Seen(g) \subseteq Seen(h[g])
  BY <1>2
<1>4. \A g \in U : OneShare(g)
  BY DEF Useless, BoundsShares
<1>5. (U \cup V) \cap D = {}
  BY DEF Dispensable, KeptAsOutput
<1>6. \A W : Counted(W) = W \ D
  BY DEF Counted
<1>7. T = Left \cup U \cup V /\ Left \cap (U \cup V) = {} /\ U \cap V = {} /\ Left \subseteq T
  OBVIOUS
<1> HIDE DEF h, Left, U, V, D
<1>8. K \in SUBSET gatesToVerify
  BY <1>3 DEF Left
<1>9. LeakExps(T) \subseteq LeakExps(K) \cup LeakExps(U)
  <2>1. \A g \in T : Seen(g) \subseteq LeakExps(K) \cup LeakExps(U)
    BY <1>3, <1>7, SeenTogether
  <2>2. QED
    BY <2>1, SeenTogether
<1>10. IsFiniteSet(H) /\ Cardinality(H) \in Nat /\ Cardinality(V) \in Nat /\ Cardinality(H) <= Cardinality(V)
  BY <1>1, ImageFits
<1>11. /\ Cardinality(U) \in Nat
       /\ IsFiniteSet(U \cup V)
       /\ Cardinality(U \cup V) = Cardinality(U) + Cardinality(V)
  BY <1>1, <1>7, UnionFits
<1> HIDE DEF H
<1>12. ASSUME NEW L, L = Left \/ L = Left \ D
       PROVE  Cardinality(L \cup H) + Cardinality(U) <= Cardinality(L \cup (U \cup V))
  <2>1. IsFiniteSet(L) /\ L \cap (U \cup V) = {}
    <3>1. L \subseteq Left
      BY <1>12
    <3>2. QED
      BY <1>1, <1>7, <3>1, PartFits
  <2>2. /\ Cardinality(L) \in Nat
        /\ Cardinality(L \cup H) \in Nat /\ Cardinality(L \cup H) <= Cardinality(L) + Cardinality(H)
    BY <2>1, <1>10, UnionFits
  <2>3. Cardinality(L \cup (U \cup V)) = Cardinality(L) + (Cardinality(U) + Cardinality(V))
    BY <2>1, <1>11, UnionFits
  <2>4. QED
    BY <1>10, <1>11, <2>2, <2>3
<1>13. Cardinality(K) <= Cardinality(T)
  <2>1. T = Left \cup (U \cup V)
    BY <1>7
  <2>2. Cardinality(K) + Cardinality(U) <= Cardinality(T)
    BY <1>12, <2>1
  <2>3. Cardinality(K) \in Nat /\ Cardinality(T) \in Nat
    BY <1>1, <1>10, UnionFits, FS_CardinalityType
  <2> HIDE DEF K
  <2>4. QED
    BY <1>11, <2>2, <2>3
<1>14. Cardinality(Counted(K)) + Cardinality(U) <= Cardinality(Counted(T))
  <2> DEFINE L == Left \ D
  <2>1. Counted(T) = L \cup (U \cup V)
    BY <1>5, <1>6, <1>7
  <2>2. Counted(K) \subseteq L \cup H
    BY <1>6
  <2>3. Cardinality(L \cup H) + Cardinality(U) <= Cardinality(Counted(T))
    BY <1>12, <2>1
  <2>4. IsFiniteSet(L \cup H)
    BY <1>1, <1>10, FS_Difference, FS_Union
  <2>5. Cardinality(Counted(K)) \in Nat /\ Cardinality(L \cup H) \in Nat
        /\ Cardinality(Counted(K)) <= Cardinality(L \cup H)
    BY <2>2, <2>4, PartFits
  <2>6. Cardinality(Counted(T)) \in Nat
    BY <1>1, <1>6, FS_Difference, FS_CardinalityType
  <2> HIDE DEF K, L
  <2>7. QED
    BY <1>11, <2>3, <2>5, <2>6
<1>15. U \in SUBSET T
  BY <1>7
<1> HIDE DEF K
<1>16. QED
  BY <1>4, <1>8, <1>9, <1>13, <1>14, <1>15

(* The tuples verified are those of at least one probe when tuples of all  *)
(* sizes are, and there is always something to show.                       *)
LEMMA PartialTuplesOfShares ==
    ASSUME Verified, BoundsShares, DoPartialTuples, leakingHwe = {},
           NEW K \in SUBSET gatesToVerify, Cardinality(K) <= call.order
    PROVE  \A s \in Secret : Cardinality(Revealed(K, s)) <= Cardinality(Counted(K)) + Slack
<1>1. /\ IsFiniteSet(K) /\ Cardinality(K) \in Nat /\ call.order \in Nat
      /\ IsFiniteSet(Counted(K)) /\ Cardinality(Counted(K)) \in Nat
  <2>1. IsFiniteSet(K) /\ call.order \in Nat
    BY FS_Subset DEF Verified
  <2>2. IsFiniteSet(Counted(K))
    BY <2>1, FS_Difference DEF Counted
  <2>3. QED
    BY <2>1, <2>2, FS_CardinalityType
<1>2. Slack \in Nat
  BY <1>1, NbSharesAssumption DEF BoundsShares, Slack
<1>3. CASE K = {}
  <2> SUFFICES ASSUME NEW s \in Secret PROVE Cardinality(Revealed(K, s)) <= Cardinality(Counted(K)) + Slack
    OBVIOUS
  <2>1. LeakExps({}) = {}
    BY SeenTogether
  <2>2. Revealed(K, s) = {}
    BY <1>3, <2>1, NothingObserved DEF Revealed
  <2>3. Cardinality(Revealed(K, s)) = 0
    BY <2>2, FS_EmptySet
  <2>4. QED
    BY <1>1, <1>2, <2>3
<1>4. CASE K # {}
  <2>1. Cardinality(K) \in 1 .. call.order
    BY <1>1, <1>4, FS_EmptySet
  <2>2. Tuple({}, K) \in TuplesToVerify
    BY <2>1 DEF TuplesToVerify, BoundsShares, TupleEnum, Tuple
  <2>3. HasProperty(Tuple({}, K))
    BY <2>2 DEF Verified, LeaksFound
  <2>4. QED
    BY <1>1, <2>3, AnswerForShares
<1>5. QED
  BY <1>3, <1>4

(* The verdict for the properties that bound the shares of each secret.    *)
LEMMA VerdictForShares ==
    ASSUME Verified, BoundsShares, DoPartialTuples, \A g \in reachable \ gatesToVerify : Dispensable(g)
    PROVE  leakingHwe = {} <=> Secure
<1>1. Secure => leakingHwe = {}
  BY LeaksAreReal DEF BoundsShares
<1>2. ASSUME leakingHwe = {} PROVE Secure
  <2>1. AllTuples = {Tuple({}, T) : T \in {T \in SUBSET reachable : Cardinality(T) <= call.order}}
    BY DEF AllTuples, BoundsShares, Tuple
  <2> SUFFICES ASSUME NEW T \in SUBSET reachable, Cardinality(T) <= call.order
               PROVE  HasProperty(Tuple({}, T))
    BY <2>1 DEF Secure
  <2>2. IsFiniteSet(T) /\ Cardinality(T) \in Nat /\ call.order \in Nat
    BY FS_Subset, FS_CardinalityType DEF Verified
  <2> SUFFICES ASSUME NEW s \in Secret PROVE Cardinality(Revealed(T, s)) <= Cardinality(Counted(T)) + Slack
    BY <2>2, AnswerForShares
  <2>3. PICK K \in SUBSET gatesToVerify, U \in SUBSET T :
              /\ \A g \in U : OneShare(g)
              /\ LeakExps(T) \subseteq LeakExps(K) \cup LeakExps(U)
              /\ Cardinality(K) <= Cardinality(T)
              /\ Cardinality(Counted(K)) + Cardinality(U) <= Cardinality(Counted(T))
    BY LeftForShares
  <2>4. IsFiniteSet(K) /\ IsFiniteSet(U) /\ Cardinality(K) \in Nat /\ Cardinality(U) \in Nat
    BY <2>2, FS_Subset, FS_CardinalityType DEF Verified
  <2>5. Cardinality(Revealed(K, s)) <= Cardinality(Counted(K)) + Slack
    BY <1>2, <2>2, <2>3, <2>4, PartialTuplesOfShares
  <2>6. Cardinality(Effective(LeakExps(K) \cup LeakExps(U)) \cap SharesOf(s))
            <= Cardinality(Revealed(K, s)) + Cardinality(U)
    <3>1. LeakExps(K) \in SUBSET Exp /\ \A g \in U : Seen(g) \subseteq Exp
      BY SeenTogether DEF Verified
    <3>2. QED
      BY <2>3, <2>4, <3>1, AddOneShareEach DEF Revealed
  <2>7. Cardinality(Revealed(T, s)) <= Cardinality(Effective(LeakExps(K) \cup LeakExps(U)) \cap SharesOf(s))
    <3>1. Effective(LeakExps(T)) \subseteq Effective(LeakExps(K) \cup LeakExps(U))
      BY <2>3, MoreRevealsMore
    <3>2. Revealed(T, s) \subseteq Effective(LeakExps(K) \cup LeakExps(U)) \cap SharesOf(s)
      BY <3>1 DEF Revealed
    <3>3. QED
      BY <3>2, RevealedFinite, PartFits
  <2>8. /\ Cardinality(Revealed(T, s)) \in Nat /\ Cardinality(Revealed(K, s)) \in Nat
        /\ Cardinality(Effective(LeakExps(K) \cup LeakExps(U)) \cap SharesOf(s)) \in Nat
    BY RevealedFinite DEF Revealed
  <2>9. Cardinality(Counted(T)) \in Nat /\ Cardinality(Counted(K)) \in Nat /\ Slack \in Int
    <3>1. IsFiniteSet(Counted(T)) /\ IsFiniteSet(Counted(K))
      BY <2>2, <2>4, FS_Difference DEF Counted
    <3>2. Slack \in Int
      BY <2>2, NbSharesAssumption DEF Slack
    <3>3. QED
      BY <3>1, <3>2, FS_CardinalityType
  <2>10. QED
    BY <2>3, <2>4, <2>5, <2>6, <2>7, <2>8, <2>9
<1>3. QED
  BY <1>1, <1>2

(* Full tuples only: a set of probes that reveals too many shares of a     *)
(* secret is completed with the wires of shares it does not reveal.  The   *)
(* wires of the shares of s, when they are all there:                      *)
InputWires(G, s) ==
    /\ \A sh \in SharesOf(s) : G[sh] \in reachable /\ IsInputOf(G[sh], sh)
    /\ Cardinality(SharesOf(s)) = NbShares

(* Every share of a secret has an input wire of its own.                   *)
LEMMA WiresOfShares ==
    ASSUME Verified, ~call.withGlitches, AllInputSharesAreAccessible(reachable),
           NEW T \in SUBSET reachable, NEW s, Revealed(T, s) # {}
    PROVE  \E G : InputWires(G, s)
<1> DEFINE shares == {sh \in Share : \E g \in reachable : IsInputOf(g, sh)}
           G == [sh \in Share |-> CHOOSE g \in reachable : IsInputOf(g, sh)]
<1>1. PICK sh \in Share : sh \in Effective(LeakExps(T)) /\ OrigSecret(sh) = s
  BY DEF Revealed, SharesOf
<1>2. PICK g \in T : sh \in SeenSymbols(g)
  BY <1>1, SeenTogether DEF Effective, InputsIn, SeenSymbols
<1>3. sh \in shares
  BY <1>1, <1>2 DEF Verified
<1>4. Cardinality(shares \cap SharesOf(s)) = NbShares
  BY <1>1, <1>3 DEF AllInputSharesAreAccessible, IsInputOf
<1>5. shares \cap SharesOf(s) = SharesOf(s)
  <2> DEFINE num == [x \in SharesOf(s) |-> ShareNum(x)]
  <2>1. /\ num \in [SharesOf(s) -> 0 .. NbShares - 1]
        /\ \A x, y \in SharesOf(s) : num[x] = num[y] => x = y
    BY ShareNumAssumption DEF SharesOf
  <2> HIDE DEF num
  <2>2. num \in Injection(SharesOf(s), 0 .. NbShares - 1)
    BY <2>1, Fun_IsInj
  <2>3. IsFiniteSet(0 .. NbShares - 1) /\ Cardinality(0 .. NbShares - 1) = NbShares
    BY NbSharesAssumption, FS_Interval
  <2>4. IsFiniteSet(SharesOf(s)) /\ Cardinality(SharesOf(s)) <= NbShares
    BY <2>2, <2>3, FS_Injection
  <2> HIDE DEF shares
  <2>5. Cardinality(SharesOf(s)) = Cardinality(shares \cap SharesOf(s))
    <3>1. Cardinality(shares \cap SharesOf(s)) <= Cardinality(SharesOf(s)) /\ Cardinality(SharesOf(s)) \in Nat
      BY <2>4, PartFits
    <3>2. QED
      BY <1>4, <2>4, <3>1, NbSharesAssumption
  <2>6. QED
    BY <2>4, <2>5, FS_Subset
<1>6. \A x \in SharesOf(s) : G[x] \in reachable /\ IsInputOf(G[x], x)
  <2>1. \A x \in SharesOf(s) : x \in Share /\ \E g2 \in reachable : IsInputOf(g2, x)
    BY <1>5
  <2>2. QED
    BY <2>1
<1> HIDE DEF G, shares
<1>7. InputWires(G, s)
  BY <1>4, <1>5, <1>6 DEF InputWires
<1>8. QED
  BY <1>7

(* A leaking set of fewer probes is completed, to order probes that leak   *)
(* as well, with the inputs of shares of the same secret that it does not  *)
(* reveal.                                                                 *)
LEMMA CompletedWithInputs ==
    ASSUME Verified, ~call.withGlitches, BoundsShares, call.order < NbShares,
           NEW T \in SUBSET reachable, Cardinality(T) <= call.order,
           NEW s, NEW G, InputWires(G, s),
           Cardinality(Counted(T)) + Slack < Cardinality(Revealed(T, s))
    PROVE  \E B \in SUBSET reachable :
              /\ Cardinality(B) = call.order
              /\ Cardinality(Counted(B)) + Slack < Cardinality(Revealed(B, s))
<1> DEFINE R == Revealed(T, s)
           M == SharesOf(s) \ R
           n == call.order - Cardinality(T)
           Wires(C) == {G[sh] : sh \in C}
<1>1. /\ IsFiniteSet(reachable) /\ IsFiniteSet(T) /\ Cardinality(T) \in Nat /\ call.order \in Nat
      /\ n \in Nat /\ Cardinality(T) + n = call.order /\ NbShares \in Nat
      /\ Slack = 0 \/ Slack = NbShares - 1 - call.order
  BY FS_Subset, FS_CardinalityType, NbSharesAssumption DEF Verified, Slack
<1> HIDE DEF n
<1>2. /\ IsFiniteSet(SharesOf(s)) /\ IsFiniteSet(R) /\ IsFiniteSet(M)
      /\ R \subseteq SharesOf(s)
      /\ Cardinality(R) \in Nat /\ Cardinality(M) \in Nat
      /\ Cardinality(SharesOf(s)) = NbShares
      /\ NbShares = Cardinality(R) + Cardinality(M)
  <2>1. IsFiniteSet(SharesOf(s)) /\ R \subseteq SharesOf(s) /\ Cardinality(SharesOf(s)) = NbShares
    BY RevealedFinite DEF InputWires, Revealed
  <2>2. SharesOf(s) \cap R = R
    BY <2>1
  <2> HIDE DEF R
  <2>3. QED
    BY <2>1, <2>2, Split
<1>3. ASSUME NEW sh \in SharesOf(s)
      PROVE  /\ G[sh] \in reachable
             /\ \A W : G[sh] \in W => sh \in Revealed(W, s)
             /\ \A sh2 \in SharesOf(s) : G[sh] = G[sh2] => sh = sh2
  <2>1. sh \in Share /\ \A sh2 \in SharesOf(s) : sh2 \in Share
    BY DEF SharesOf
  <2>2. G[sh] \in reachable /\ \A x \in SharesOf(s) : hwElements[G[x]].symbExp = SymbNode(x)
    BY DEF InputWires, IsInputOf
  <2>3. \A W : G[sh] \in W => SymbNode(sh) \in LeakExps(W)
    BY <2>2 DEF LeakExps
  <2>4. \A W : G[sh] \in W => sh \in Effective(LeakExps(W))
    BY <2>1, <2>3, InputRevealsShare
  <2>5. \A sh2 \in SharesOf(s) : G[sh] = G[sh2] => sh = sh2
    <3> SUFFICES ASSUME NEW sh2 \in SharesOf(s), G[sh] = G[sh2] PROVE sh = sh2
      OBVIOUS
    <3>1. SymbNode(sh) = SymbNode(sh2)
      BY <2>2
    <3>2. {sh} = {sh2}
      <4>1. Symbols(SymbNode(sh)) = {sh} /\ Symbols(SymbNode(sh2)) = {sh2}
        BY <2>1, SymbNodeAssumption
      <4>2. QED
        BY <3>1, <4>1
    <3>3. QED
      BY <3>2
  <2>6. QED
    BY <2>2, <2>4, <2>5 DEF Revealed
<1>4. ASSUME NEW C \in SUBSET M
      PROVE  /\ Wires(C) \subseteq reachable
             /\ IsFiniteSet(C) /\ Cardinality(C) \in Nat
             /\ IsFiniteSet(Wires(C)) /\ Cardinality(Wires(C)) = Cardinality(C)
             /\ T \cap Wires(C) = {}
             /\ IsFiniteSet(T \cup Wires(C))
             /\ Cardinality(T \cup Wires(C)) = Cardinality(T) + Cardinality(C)
             /\ R \cup C \subseteq Revealed(T \cup Wires(C), s)
  <2>1. Wires(C) \subseteq reachable /\ T \cap Wires(C) = {}
    BY <1>2, <1>3
  <2>2. IsFiniteSet(C) /\ Cardinality(C) \in Nat
    BY <1>2, PartFits
  <2>3. \A x, y \in C : G[x] = G[y] => x = y
    BY <1>3
  <2>4. IsFiniteSet(Wires(C)) /\ Cardinality(Wires(C)) = Cardinality(C)
    BY <2>2, <2>3, ImageFits
  <2>5. LeakExps(T) \subseteq LeakExps(T \cup Wires(C))
    BY SeenTogether
  <2>6. R \subseteq Revealed(T \cup Wires(C), s)
    BY <2>5, MoreRevealsMore DEF Revealed
  <2>7. C \subseteq Revealed(T \cup Wires(C), s)
    BY <1>3
  <2> HIDE DEF Wires
  <2>8. QED
    BY <1>1, <2>1, <2>2, <2>4, <2>6, <2>7, UnionFits
<1> HIDE DEF M, Wires
<1>5. R \subseteq SharesOf(s) /\ SharesOf(s) = R \cup M
  BY <1>2 DEF M
<1>6. CASE n <= Cardinality(M)
  <2>1. PICK C \in SUBSET M : Cardinality(C) = n
    <3>1. Cardinality({}) = 0 /\ {} \in SUBSET M
      BY FS_EmptySet
    <3>2. /\ IsFiniteSet(M) /\ {} \in SUBSET M /\ n \in Nat
          /\ Cardinality({}) <= n /\ n <= Cardinality(M)
      BY <1>1, <1>2, <1>6, <3>1
    <3>3. QED
      BY <3>2, Fill
  <2> DEFINE B == T \cup Wires(C)
  <2>2. B \in SUBSET reachable /\ Cardinality(B) = call.order
    BY <1>1, <1>4, <2>1
  <2>3. Cardinality(R) + n <= Cardinality(Revealed(B, s))
    <3>1. C \cap R = {} /\ IsFiniteSet(C)
      BY <1>4 DEF M
    <3>2. Cardinality(R \cup C) = Cardinality(R) + n
      BY <1>2, <2>1, <3>1, UnionFits
    <3>3. R \cup C \subseteq Revealed(B, s) /\ IsFiniteSet(Revealed(B, s))
      BY <1>4, RevealedFinite DEF Revealed
    <3> HIDE DEF B, R
    <3>4. Cardinality(R \cup C) <= Cardinality(Revealed(B, s))
      BY <3>3, PartFits
    <3>5. QED
      BY <3>2, <3>4
  <2>4. /\ Cardinality(Counted(B)) <= Cardinality(Counted(T)) + n
        /\ Cardinality(Counted(B)) \in Nat /\ Cardinality(Counted(T)) \in Nat
    <3>1. IsFiniteSet(Counted(T)) /\ IsFiniteSet(Wires(C)) /\ Cardinality(Wires(C)) = n
      BY <1>1, <1>4, <2>1, FS_Difference DEF Counted
    <3>2. Counted(B) \subseteq Counted(T) \cup Wires(C)
      BY DEF Counted
    <3> HIDE DEF B
    <3>3. /\ IsFiniteSet(Counted(T) \cup Wires(C))
          /\ Cardinality(Counted(T) \cup Wires(C)) \in Nat
          /\ Cardinality(Counted(T)) \in Nat
          /\ Cardinality(Counted(T) \cup Wires(C)) <= Cardinality(Counted(T)) + n
      BY <3>1, UnionFits
    <3>4. QED
      BY <1>1, <3>2, <3>3, PartFits
  <2>5. Cardinality(Revealed(B, s)) \in Nat
    BY RevealedFinite DEF Revealed
  <2> HIDE DEF B
  <2>6. Cardinality(Counted(B)) + Slack < Cardinality(Revealed(B, s))
    BY <1>1, <1>2, <2>3, <2>4, <2>5
  <2>7. QED
    BY <2>2, <2>6
<1>7. CASE Cardinality(M) < n
  <2> DEFINE A == T \cup Wires(M)
  <2>1. /\ A \in SUBSET reachable
        /\ Cardinality(A) \in Nat /\ Cardinality(A) <= call.order
        /\ SharesOf(s) \subseteq Revealed(A, s)
    <3>1. /\ Wires(M) \subseteq reachable
          /\ Cardinality(A) = Cardinality(T) + Cardinality(M)
          /\ R \cup M \subseteq Revealed(A, s)
      BY <1>4
    <3>2. A \in SUBSET reachable /\ SharesOf(s) \subseteq Revealed(A, s)
      BY <1>5, <3>1
    <3> HIDE DEF A
    <3>3. Cardinality(A) \in Nat /\ Cardinality(A) <= call.order
      BY <1>1, <1>2, <1>7, <3>1
    <3>4. QED
      BY <3>2, <3>3
  <2>2. call.order <= Cardinality(reachable)
    <3> DEFINE All == {G[sh] : sh \in SharesOf(s)}
    <3>1. Cardinality(All) = NbShares
      BY <1>2, <1>3, ImageFits
    <3>2. All \subseteq reachable
      BY <1>3
    <3> HIDE DEF All
    <3>3. NbShares <= Cardinality(reachable) /\ Cardinality(reachable) \in Nat
      BY <1>1, <3>1, <3>2, PartFits
    <3>4. QED
      BY <1>1, <3>3
  <2> HIDE DEF A
  <2>3. PICK B \in SUBSET reachable : A \subseteq B /\ Cardinality(B) = call.order
    BY <1>1, <2>1, <2>2, Fill
  <2>4. NbShares <= Cardinality(Revealed(B, s)) /\ Cardinality(Revealed(B, s)) \in Nat
    <3>1. Revealed(A, s) \subseteq Revealed(B, s)
      BY <2>3, SeenTogether, MoreRevealsMore DEF Revealed
    <3>2. SharesOf(s) \subseteq Revealed(B, s) /\ IsFiniteSet(Revealed(B, s))
      BY <2>1, <3>1, RevealedFinite DEF Revealed
    <3>3. QED
      BY <1>2, <3>2, PartFits
  <2>5. Cardinality(Counted(B)) <= call.order /\ Cardinality(Counted(B)) \in Nat
    <3>1. IsFiniteSet(B) /\ Counted(B) \subseteq B
      BY <1>1, FS_Subset DEF Counted
    <3>2. QED
      BY <2>3, <3>1, PartFits
  <2>6. Cardinality(Counted(B)) + Slack < Cardinality(Revealed(B, s))
    BY <1>1, <2>4, <2>5
  <2>7. QED
    BY <2>3, <2>6
<1>8. QED
  BY <1>1, <1>2, <1>6, <1>7

(* The tuples of exactly order probes decide for the smaller ones.         *)
LEMMA VerdictForSharesFull ==
    ASSUME Verified, BoundsShares, ~DoPartialTuples, ~call.withGlitches, call.order < NbShares,
           AllInputSharesAreAccessible(reachable)
    PROVE  leakingHwe = {} <=> Secure
<1>1. /\ gatesToVerify = reachable
      /\ TuplesToVerify = {Tuple({}, T) : T \in {T \in SUBSET reachable : Cardinality(T) = call.order}}
      /\ AllTuples = {Tuple({}, T) : T \in {T \in SUBSET reachable : Cardinality(T) <= call.order}}
      /\ LeaksFound
      /\ call.order \in Nat
  BY DEF Verified, BoundsShares, TuplesToVerify, TupleEnum, AllTuples, Tuple
<1>2. Secure => leakingHwe = {}
  BY LeaksAreReal DEF BoundsShares
<1>3. ASSUME leakingHwe = {} PROVE Secure
  <2> SUFFICES ASSUME NEW T \in SUBSET reachable, Cardinality(T) <= call.order
               PROVE  HasProperty(Tuple({}, T))
    BY <1>1 DEF Secure
  <2>1. \A B \in SUBSET reachable : IsFiniteSet(B)
    BY FS_Subset DEF Verified
  <2> SUFFICES ASSUME NEW s \in Secret, ~(Cardinality(Revealed(T, s)) <= Cardinality(Counted(T)) + Slack)
               PROVE  FALSE
    BY <1>1, <2>1, AnswerForShares
  <2>2. /\ Cardinality(Revealed(T, s)) \in Nat
        /\ Cardinality(Counted(T)) \in Nat
        /\ Slack \in Nat
    <3>1. IsFiniteSet(Counted(T))
      BY <2>1, FS_Difference DEF Counted
    <3>2. Slack \in Nat
      BY <1>1, NbSharesAssumption DEF Slack
    <3>3. QED
      BY <3>1, <3>2, RevealedFinite, FS_CardinalityType DEF Revealed
  <2>3. Cardinality(Counted(T)) + Slack < Cardinality(Revealed(T, s))
    BY <2>2
  <2>4. Revealed(T, s) # {}
    BY <2>2, <2>3, FS_EmptySet
  <2>5. PICK G : InputWires(G, s)
    BY <2>4, WiresOfShares
  <2>6. PICK B \in SUBSET reachable :
              /\ Cardinality(B) = call.order
              /\ Cardinality(Counted(B)) + Slack < Cardinality(Revealed(B, s))
    BY <2>3, <2>5, CompletedWithInputs
  <2>7. HasProperty(Tuple({}, B))
    BY <1>1, <1>3, <2>6 DEF LeaksFound
  <2>8. Cardinality(Revealed(B, s)) <= Cardinality(Counted(B)) + Slack
    BY <1>1, <2>1, <2>7, AnswerForShares
  <2>9. Cardinality(Revealed(B, s)) \in Nat /\ Cardinality(Counted(B)) \in Nat
    <3>1. IsFiniteSet(Counted(B))
      BY <2>1, FS_Difference DEF Counted
    <3>2. QED
      BY <3>1, RevealedFinite, FS_CardinalityType DEF Revealed
  <2>10. QED
    BY <2>2, <2>6, <2>8, <2>9
<1>4. QED
  BY <1>2, <1>3

-----------------------------------------------------------------------------
(* TPS.                                                                    *)

(* Tuples of exactly order gates cover the smaller ones, because observing *)
(* more never reveals less.                                                *)
LEMMA VerdictForSecrets ==
    ASSUME Verified, call.secProp = "TPS", ~call.withGlitches, Cardinality(reachable) >= call.order
    PROVE  leakingHwe = {} <=> Secure
<1>1. /\ gatesToVerify = reachable
      /\ TuplesToVerify = {Tuple({}, T) : T \in {T \in SUBSET reachable : Cardinality(T) = call.order}}
      /\ AllTuples = {Tuple({}, T) : T \in {T \in SUBSET reachable : Cardinality(T) <= call.order}}
      /\ LeaksFound
      /\ call.order \in Nat /\ IsFiniteSet(reachable)
  BY DEF Verified, TuplesToVerify, TupleEnum, DoPartialTuples, AllTuples, Tuple
<1>2. \A T : HasProperty(Tuple({}, T)) <=> Effective(LeakExps(T)) = {}
  <2> TAKE T
  <2>1. OutputWires({}) = {}
    BY DEF OutputWires
  <2>2. Probed(Tuple({}, T)) = T
    BY <2>1 DEF Probed, Tuple
  <2>3. QED
    BY <1>1, <2>2 DEF HasProperty, IsTPSWithExev
<1>3. Secure => leakingHwe = {}
  BY LeaksAreReal
<1>4. ASSUME leakingHwe = {} PROVE Secure
  <2> SUFFICES ASSUME NEW T \in SUBSET reachable, Cardinality(T) <= call.order
               PROVE  HasProperty(Tuple({}, T))
    BY <1>1 DEF Secure
  <2>1. call.order <= Cardinality(reachable)
    BY <1>1, FS_CardinalityType
  <2>2. PICK B \in SUBSET reachable : T \subseteq B /\ Cardinality(B) = call.order
    BY <1>1, <2>1, Fill
  <2>3. HasProperty(Tuple({}, B))
    BY <1>1, <1>4, <2>2 DEF LeaksFound
  <2>4. LeakExps(T) \subseteq LeakExps(B)
    BY <2>2, SeenTogether
  <2>5. QED
    BY <1>2, <2>3, <2>4, MoreRevealsMore
<1>5. QED
  BY <1>3, <1>4

-----------------------------------------------------------------------------
(* PINI and OPINI.                                                         *)

Positions == 0 .. NbOutputShares - 1

BoundsIndexes ==
    /\ call.secProp \in {"PINI", "OPINI"}
    /\ call.order < NbOutputShares
    /\ WiresExist
    /\ call.secProp = "OPINI" => NbOutputShares = NbShares
    /\ Judged

Indexes == (0 .. NbShares - 1) \cup Positions

(* The probes T and the outputs at O, and for OPINI those at n too, can be *)
(* simulated with the shares of the indexes n.                             *)
Simulated(n, O, T) ==
    LET outputs == IF call.secProp = "OPINI" THEN n ELSE O
    IN  /\ O \subseteq n
        /\ EffectiveIndexes(LeakExps(T \cup OutputWires(outputs))) \subseteq n

Isolated(O, T) == \E n \in SUBSET Indexes : Simulated(n, O, T) /\ Cardinality(n \ O) <= Cardinality(T)

(* Finitely many indexes, all of them of shares.                           *)
LEMMA IndexesFit ==
    ASSUME Verified, BoundsIndexes
    PROVE  /\ IsFiniteSet(Indexes)
           /\ NbOutputShares \in Nat /\ Cardinality(Positions) = NbOutputShares
           /\ call.secProp = "OPINI" => Indexes = Positions
           /\ \A O \in SUBSET Positions : OutputWires(O) \subseteq reachable
           /\ \A g \in OutputGates : \E i \in Positions : g \in OutputWires({i})
           /\ \A W \in SUBSET reachable : Effective(LeakExps(W)) \subseteq Share
           /\ \A W \in SUBSET reachable : EffectiveIndexes(LeakExps(W)) \subseteq Indexes
<1>1. NbOutputShares \in Nat /\ NbShares \in Nat
  BY NbSharesAssumption DEF BoundsIndexes, WiresExist
<1>2. IsFiniteSet(Indexes) /\ Cardinality(Positions) = NbOutputShares
  <2>1. NbOutputShares - 1 \in Int /\ NbShares - 1 \in Int
    BY <1>1
  <2>2. /\ IsFiniteSet(0 .. NbShares - 1) /\ IsFiniteSet(Positions)
        /\ Cardinality(Positions) = NbOutputShares
    BY <1>1, <2>1, FS_Interval DEF Positions
  <2>3. QED
    BY <2>2, FS_Union DEF Indexes
<1>3. call.secProp = "OPINI" => Indexes = Positions
  BY DEF Indexes, Positions, BoundsIndexes
<1>4. \A O \in SUBSET Positions : OutputWires(O) \subseteq reachable
  BY DEF BoundsIndexes, WiresExist, OutputWires, Positions
<1>5. ASSUME NEW g \in OutputGates PROVE \E i \in Positions : g \in OutputWires({i})
  <2>1. PICK k \in DOMAIN call.outputList : \E j \in DOMAIN call.outputList[k] : g = call.outputList[k][j]
    BY DEF OutputGates, Outputs
  <2>2. PICK j \in DOMAIN call.outputList[k] : g = call.outputList[k][j]
    BY <2>1
  <2>3. j \in 1 .. NbOutputShares
    BY <2>2 DEF BoundsIndexes, WiresExist
  <2>4. j - 1 \in Positions /\ (j - 1) + 1 = j
    BY <1>1, <2>3 DEF Positions
  <2>5. g \in OutputWires({j - 1})
    BY <2>2, <2>4 DEF OutputWires
  <2>6. QED
    BY <2>4, <2>5
<1>6. ASSUME NEW W \in SUBSET reachable PROVE Effective(LeakExps(W)) \subseteq Share
  <2>1. \A e \in LeakExps(W) : Symbols(e) \cap Secret = {}
    BY SeenTogether DEF Verified, BoundsIndexes, SeenSymbols
  <2>2. InputsIn(LeakExps(W)) \subseteq Share
    BY <2>1 DEF InputsIn
  <2>3. QED
    BY <2>2 DEF Effective
<1>7. \A W \in SUBSET reachable : EffectiveIndexes(LeakExps(W)) \subseteq Indexes
  BY <1>6, ShareNumAssumption DEF EffectiveIndexes, Indexes
<1>8. QED
  BY <1>1, <1>2, <1>3, <1>4, <1>5, <1>6, <1>7

(* A tuple has the property when some set of indexes, with no more new     *)
(* ones than there are internal probes, simulates it.                      *)
LEMMA AnswerForIndexes ==
    ASSUME Verified, BoundsIndexes, NEW O \in SUBSET Positions, NEW T \in SUBSET reachable
    PROVE  HasProperty(Tuple(O, T)) <=> Isolated(O, T)
<1>1. /\ Tuple(O, T).probes = T /\ Tuple(O, T).outputIndexes = O
      /\ Probed(Tuple(O, T)) = T \cup OutputWires(O)
  BY DEF Tuple, Probed
<1>2. IsFiniteSet(T) /\ Cardinality(T) \in Nat
  BY FS_Subset, FS_CardinalityType DEF Verified
<1>3. CASE call.secProp = "PINI"
  <2> DEFINE X == EffectiveIndexes(LeakExps(T \cup OutputWires(O)))
  <2>1. HasProperty(Tuple(O, T)) <=> Cardinality(X \ O) <= Cardinality(T)
    BY <1>1, <1>3 DEF HasProperty, IsPINIWithExev
  <2>2. \A n : Simulated(n, O, T) <=> O \subseteq n /\ X \subseteq n
    BY <1>3 DEF Simulated
  <2>3. X \subseteq Indexes /\ O \subseteq Indexes /\ IsFiniteSet(Indexes)
    <3>1. T \cup OutputWires(O) \in SUBSET reachable
      BY IndexesFit
    <3>2. QED
      BY <3>1, IndexesFit DEF Indexes
  <2> HIDE DEF X
  <2>4. ASSUME Cardinality(X \ O) <= Cardinality(T) PROVE Isolated(O, T)
    <3>1. (O \cup X) \ O = X \ O /\ O \cup X \in SUBSET Indexes /\ Simulated(O \cup X, O, T)
      BY <2>2, <2>3
    <3>2. QED
      BY <2>4, <3>1 DEF Isolated
  <2>5. ASSUME Isolated(O, T) PROVE Cardinality(X \ O) <= Cardinality(T)
    <3>1. PICK n \in SUBSET Indexes : Simulated(n, O, T) /\ Cardinality(n \ O) <= Cardinality(T)
      BY <2>5 DEF Isolated
    <3>2. X \ O \subseteq n \ O /\ n \ O \subseteq Indexes
      BY <2>2, <3>1
    <3>3. IsFiniteSet(n \ O)
      BY <2>3, <3>2, FS_Subset
    <3>4. /\ Cardinality(X \ O) <= Cardinality(n \ O)
          /\ Cardinality(X \ O) \in Nat /\ Cardinality(n \ O) \in Nat
      BY <3>2, <3>3, PartFits
    <3>5. QED
      BY <1>2, <3>1, <3>4
  <2>6. QED
    BY <2>1, <2>4, <2>5
<1>4. CASE call.secProp = "OPINI"
  <2> DEFINE E == LeakExps(T \cup OutputWires(O))
  <2>1. HasProperty(Tuple(O, T)) <=> IsOPINI(E, Cardinality(T), O)
    BY <1>1, <1>4 DEF HasProperty
  <2>2. ASSUME NEW n, O \subseteq n
        PROVE  E \cup LeakExps(OutputWires(n)) = LeakExps(T \cup OutputWires(n))
    <3>1. OutputWires(O) \subseteq OutputWires(n)
      BY <2>2 DEF OutputWires
    <3>2. (T \cup OutputWires(O)) \cup OutputWires(n) = T \cup OutputWires(n)
      BY <3>1
    <3>3. E \cup LeakExps(OutputWires(n)) = LeakExps((T \cup OutputWires(O)) \cup OutputWires(n))
      BY SeenTogether
    <3>4. QED
      BY <3>2, <3>3
  <2> HIDE DEF E
  <2>3. Indexes = 0 .. NbShares - 1
    BY <1>4 DEF Indexes, Positions, BoundsIndexes
  <2>4. \A n : /\ O \subseteq n
               /\ EffectiveIndexes(E \cup LeakExps(OutputWires(n))) \subseteq n
               <=> Simulated(n, O, T)
    BY <1>4, <2>2 DEF Simulated
  <2>5. QED
    <3>1. IsOPINI(E, Cardinality(T), O) <=>
              \E n \in SUBSET Indexes : /\ O \subseteq n
                                        /\ EffectiveIndexes(E \cup LeakExps(OutputWires(n))) \subseteq n
                                        /\ Cardinality(n \ O) <= Cardinality(T)
      BY <2>3 DEF IsOPINI, WithOutputs
    <3>2. QED
      BY <2>1, <2>4, <3>1 DEF Isolated
<1>5. QED
  BY <1>3, <1>4 DEF BoundsIndexes

(* A set O of positions can be filled up to m positions in such a way that *)
(* more than t indexes of X outside of O leave as many outside of what is  *)
(* filled: the positions outside of X come first, and when they run out    *)
(* the positions that are left are themselves more than t.                 *)
Decides(P, O, X, t) ==
    \A Y : /\ IsFiniteSet(Y) /\ X \subseteq Y /\ P \subseteq Y
           /\ Cardinality(Y \ P) <= t
           => Cardinality(X \ O) <= t

(* A set of output positions of which too few are taken is filled up with  *)
(* positions that nothing needs.                                           *)
LEMMA FillPositions ==
    ASSUME NEW S, IsFiniteSet(S), NEW O \in SUBSET S, NEW X, IsFiniteSet(X),
           NEW m \in Nat, NEW t \in Nat, Cardinality(O) <= m, m + t < Cardinality(S)
    PROVE  \E P \in SUBSET S : O \subseteq P /\ Cardinality(P) = m /\ Decides(P, O, X, t)
<1> DEFINE A == O \cup (S \ X)
<1>1. Cardinality(S) \in Nat /\ Cardinality(O) \in Nat /\ m <= Cardinality(S)
  <2>1. Cardinality(S) \in Nat /\ Cardinality(O) \in Nat
    BY PartFits
  <2>2. QED
    BY <2>1
<1>2. A \in SUBSET S /\ IsFiniteSet(A) /\ Cardinality(A) \in Nat
  BY <1>1, PartFits
<1>3. CASE m <= Cardinality(A)
  <2>1. PICK P \in SUBSET A : O \subseteq P /\ Cardinality(P) = m
    <3>1. /\ IsFiniteSet(A) /\ O \in SUBSET A /\ m \in Nat
          /\ Cardinality(O) <= m /\ m <= Cardinality(A)
      BY <1>2, <1>3
    <3> HIDE DEF A
    <3>2. QED
      BY <3>1, Fill
  <2>2. X \ O \subseteq X \ P
    BY <2>1
  <2>3. ASSUME NEW Y, IsFiniteSet(Y), X \subseteq Y, Cardinality(Y \ P) <= t
        PROVE  Cardinality(X \ O) <= t
    <3>1. X \ O \subseteq Y \ P /\ IsFiniteSet(Y \ P)
      BY <2>2, <2>3, FS_Difference
    <3>2. /\ Cardinality(X \ O) <= Cardinality(Y \ P)
          /\ Cardinality(X \ O) \in Nat /\ Cardinality(Y \ P) \in Nat
      BY <3>1, PartFits
    <3>3. QED
      BY <2>3, <3>2
  <2>4. P \in SUBSET S
    BY <1>2, <2>1
  <2>5. QED
    BY <2>1, <2>3, <2>4 DEF Decides
<1>4. CASE Cardinality(A) < m
  <2>1. PICK P \in SUBSET S : A \subseteq P /\ Cardinality(P) = m
    <3>1. Cardinality(A) <= m /\ m <= Cardinality(S)
      <4> HIDE DEF A
      <4>1. QED
        BY <1>1, <1>2, <1>4
    <3>2. /\ IsFiniteSet(S) /\ A \in SUBSET S /\ m \in Nat
          /\ Cardinality(A) <= m /\ m <= Cardinality(S)
      BY <1>1, <1>2, <3>1
    <3> HIDE DEF A
    <3>3. QED
      BY <3>2, Fill
  <2>2. Cardinality(S \ P) = Cardinality(S) - m
    <3>1. S \cap P = P
      OBVIOUS
    <3>2. Cardinality(S \cap P) = m
      BY <2>1, <3>1
    <3>3. Cardinality(S) = Cardinality(S \cap P) + Cardinality(S \ P) /\ Cardinality(S \ P) \in Nat
      BY Split
    <3>4. QED
      BY <1>1, <3>2, <3>3
  <2>3. ASSUME NEW Y, IsFiniteSet(Y), X \subseteq Y, Cardinality(Y \ P) <= t
        PROVE  FALSE
    <3>1. S \ P \subseteq Y \ P /\ IsFiniteSet(Y \ P)
      BY <2>1, <2>3, FS_Difference
    <3>2. Cardinality(S \ P) <= Cardinality(Y \ P) /\ Cardinality(Y \ P) \in Nat
      BY <3>1, PartFits
    <3>3. QED
      BY <1>1, <2>2, <2>3, <3>2
  <2>4. O \subseteq P
    BY <2>1
  <2>5. QED
    BY <2>1, <2>3, <2>4 DEF Decides
<1> HIDE DEF A
<1>5. QED
  BY <1>2, <1>3, <1>4

(* What simulates more outputs simulates fewer, and what can be simulated  *)
(* with two sets of indexes can be with the indexes common to all.         *)
Needed(O, T) == {i \in Indexes : \A n \in SUBSET Indexes : Simulated(n, O, T) => i \in n}

(* What simulates more outputs simulates fewer.                            *)
LEMMA FewerOutputs ==
    ASSUME NEW n, NEW O, NEW P, NEW T, O \subseteq P, Simulated(n, P, T)
    PROVE  Simulated(n, O, T)
<1>1. OutputWires(O) \subseteq OutputWires(P)
  BY DEF OutputWires
<1>2. LeakExps(T \cup OutputWires(O)) \subseteq LeakExps(T \cup OutputWires(P))
  BY <1>1, SeenTogether
<1>3. Effective(LeakExps(T \cup OutputWires(O))) \subseteq Effective(LeakExps(T \cup OutputWires(P)))
  BY <1>2, MoreRevealsMore
<1>4. QED
  BY <1>3 DEF Simulated, EffectiveIndexes

(* The indexes common to all the sets that simulate a tuple simulate it    *)
(* themselves.                                                             *)
LEMMA NeededSimulates ==
    ASSUME Verified, BoundsIndexes, NEW O \in SUBSET Positions, NEW T \in SUBSET reachable
    PROVE  Needed(O, T) \in SUBSET Indexes /\ Simulated(Needed(O, T), O, T)
<1> DEFINE X == Needed(O, T)
           Shown(n) == IF call.secProp = "OPINI" THEN n ELSE O
           EI(n) == EffectiveIndexes(LeakExps(T \cup OutputWires(Shown(n))))
<1>1. X \in SUBSET Indexes /\ O \subseteq X
  BY DEF Needed, Simulated, Indexes
<1>2. ASSUME NEW n \in SUBSET Indexes, Simulated(n, O, T) PROVE EI(X) \subseteq n
  <2>1. X \subseteq n
    BY <1>2 DEF Needed
  <2>2. OutputWires(Shown(X)) \subseteq OutputWires(Shown(n))
    BY <2>1 DEF OutputWires
  <2>3. LeakExps(T \cup OutputWires(Shown(X))) \subseteq LeakExps(T \cup OutputWires(Shown(n)))
    BY <2>2, SeenTogether
  <2>4. Effective(LeakExps(T \cup OutputWires(Shown(X)))) \subseteq Effective(LeakExps(T \cup OutputWires(Shown(n))))
    BY <2>3, MoreRevealsMore
  <2>5. EI(X) \subseteq EI(n)
    BY <2>4 DEF EffectiveIndexes
  <2>6. QED
    BY <1>2, <2>5 DEF Simulated
<1>3. EI(X) \subseteq Indexes
  <2>1. OutputWires(Shown(X)) \subseteq reachable
    BY <1>1, IndexesFit
  <2>2. T \cup OutputWires(Shown(X)) \in SUBSET reachable
    BY <2>1
  <2>3. QED
    BY <2>2, IndexesFit
<1>4. EI(X) \subseteq X
  BY <1>2, <1>3 DEF Needed
<1> HIDE DEF X
<1>5. Simulated(X, O, T)
  BY <1>1, <1>4 DEF Simulated
<1>6. QED
  BY <1>1, <1>5 DEF X

(* Below the number of output positions, the tuples of exactly order       *)
(* probes and positions decide for the smaller ones.                       *)
LEMMA FilledWithPositions ==
    ASSUME Verified, BoundsIndexes, NEW O \in SUBSET Positions, NEW T \in SUBSET reachable,
           Cardinality(O) + Cardinality(T) <= call.order,
           \A P \in SUBSET Positions : Cardinality(P) + Cardinality(T) = call.order => Isolated(P, T)
    PROVE  Isolated(O, T)
<1> DEFINE X == Needed(O, T)
           t == Cardinality(T)
           m == call.order - t
<1>1. /\ X \in SUBSET Indexes /\ Simulated(X, O, T)
      /\ IsFiniteSet(Indexes) /\ IsFiniteSet(X)
  BY NeededSimulates, IndexesFit, FS_Subset
<1>2. /\ t \in Nat /\ Cardinality(O) \in Nat /\ call.order \in Nat /\ NbOutputShares \in Nat
      /\ call.order < NbOutputShares
  <2>1. NbOutputShares \in Nat /\ IsFiniteSet(T)
    BY IndexesFit, FS_Subset DEF Verified
  <2>2. IsFiniteSet(O)
    <3>1. O \subseteq Indexes
      BY DEF Indexes
    <3>2. QED
      BY <1>1, <3>1, FS_Subset
  <2>3. QED
    BY <2>1, <2>2, FS_CardinalityType DEF Verified, BoundsIndexes
<1> HIDE DEF t
<1>3. /\ m \in Nat /\ m + t = call.order /\ Cardinality(O) <= m /\ m + t < NbOutputShares
  BY <1>2 DEF t
<1> HIDE DEF m, X
<1>4. PICK P \in SUBSET Positions : O \subseteq P /\ Cardinality(P) = m /\ Decides(P, O, X, t)
  <2>1. /\ IsFiniteSet(Positions) /\ m \in Nat /\ t \in Nat
        /\ Cardinality(O) <= m /\ m + t < Cardinality(Positions)
        /\ IsFiniteSet(X)
    <3>1. Positions \subseteq Indexes /\ Cardinality(Positions) = NbOutputShares
      BY IndexesFit DEF Indexes
    <3>2. IsFiniteSet(Positions)
      BY <1>1, <3>1, FS_Subset
    <3>3. QED
      BY <1>1, <1>2, <1>3, <3>1, <3>2
  <2>2. QED
    BY <2>1, FillPositions
<1>5. PICK n \in SUBSET Indexes : Simulated(n, P, T) /\ Cardinality(n \ P) <= t
  BY <1>3, <1>4 DEF Isolated, t
<1>6. Simulated(n, O, T)
  BY <1>4, <1>5, FewerOutputs
<1>7. X \subseteq n /\ P \subseteq n /\ IsFiniteSet(n)
  BY <1>1, <1>5, <1>6, FS_Subset DEF X, Needed, Simulated
<1>8. Cardinality(X \ O) <= t
  BY <1>4, <1>5, <1>7 DEF Decides
<1>9. QED
  BY <1>1, <1>8 DEF Isolated, t

(* The dispensable probes of a set, for indexes: the useless ones are left *)
(* out, and a probe that an output shows is replaced by its position, the  *)
(* others by a probe that is verified.                                     *)
LeftOf(T, O, K, U, P) ==
    /\ K \in SUBSET (gatesToVerify \ OutputGates)
    /\ U \in SUBSET T /\ \A g \in U : OneIndex(g)
    /\ call.secProp = "OPINI" => U = {}
    /\ P \in SUBSET Positions /\ O \subseteq P
    /\ LeakExps(T) \subseteq LeakExps(K) \cup LeakExps(U) \cup LeakExps(OutputWires(P))
    /\ Cardinality(P \ O) + Cardinality(K) + Cardinality(U) <= Cardinality(T)

(* The dispensable probes of a set are useless, or shown by others that    *)
(* are verified: the useless ones are left out, the others replaced, and   *)
(* output probes counted as positions.                                     *)
LEMMA LeftForIndexes ==
    ASSUME Verified, BoundsIndexes, \A g \in reachable \ gatesToVerify : Dispensable(g),
           NEW O \in SUBSET Positions, NEW T \in SUBSET (reachable \ OutputGates)
    PROVE  \E K, U, P : LeftOf(T, O, K, U, P)
<1> DEFINE Left == T \cap gatesToVerify
           U == {g \in T \ gatesToVerify : Useless(g)}
           h == [g \in T |-> CHOOSE k \in gatesToVerify : Seen(g) \subseteq Seen(k)]
           V == {g \in (T \ gatesToVerify) \ U : h[g] \notin OutputGates}
           W == {g \in (T \ gatesToVerify) \ U : h[g] \in OutputGates}
           q == [g \in T |-> CHOOSE i \in Positions : h[g] \in OutputWires({i})]
           H == {h[g] : g \in V}
           Q == {q[g] : g \in W}
           K == Left \cup H
           P == O \cup Q
<1>1. /\ gatesToVerify \subseteq reachable /\ IsFiniteSet(T) /\ Cardinality(T) \in Nat
      /\ IsFiniteSet(Left) /\ IsFiniteSet(U) /\ IsFiniteSet(V) /\ IsFiniteSet(W)
  BY FS_Subset, FS_CardinalityType DEF Verified
<1>2. \A g \in V \cup W : h[g] \in gatesToVerify /\ Seen(g) \subseteq Seen(h[g])
  <2>1. \A g \in V \cup W : \E k \in gatesToVerify : Seen(g) \subseteq Seen(k)
    BY DEF Dispensable
  <2>2. QED
    BY <2>1
<1>3. \A g \in U : OneIndex(g) /\ call.secProp # "OPINI"
  BY DEF Useless, BoundsIndexes
<1>4. /\ T = Left \cup U \cup V \cup W
      /\ Left \cap (U \cup V \cup W) = {} /\ U \cap (V \cup W) = {} /\ V \cap W = {}
      /\ Left \subseteq gatesToVerify \ OutputGates
      /\ V \subseteq T /\ W \subseteq T /\ U \subseteq T
      /\ \A g \in V : h[g] \notin OutputGates
      /\ \A g \in W : h[g] \in OutputGates
  OBVIOUS
<1>5. \A g \in W : q[g] \in Positions /\ h[g] \in OutputWires({q[g]})
  <2>1. \A g \in W : g \in T /\ \E i \in Positions : h[g] \in OutputWires({i})
    BY <1>4, IndexesFit
  <2> HIDE DEF h, W
  <2>2. QED
    BY <2>1
<1> HIDE DEF h, q, Left, U, V, W
<1>6. K \in SUBSET (gatesToVerify \ OutputGates)
  BY <1>2, <1>4
<1>7. P \in SUBSET Positions /\ O \subseteq P /\ P \ O \subseteq Q
  BY <1>5
<1>8. LeakExps(T) \subseteq LeakExps(K) \cup LeakExps(U) \cup LeakExps(OutputWires(P))
  <2>1. \A g \in Left \cup V : Seen(g) \subseteq LeakExps(K)
    BY <1>2, SeenTogether
  <2>2. \A g \in U : Seen(g) \subseteq LeakExps(U)
    BY SeenTogether
  <2>3. ASSUME NEW g \in W PROVE Seen(g) \subseteq LeakExps(OutputWires(P))
    <3>1. h[g] \in OutputWires(P)
      <4>1. q[g] \in P /\ h[g] \in OutputWires({q[g]})
        BY <1>5
      <4> HIDE DEF P
      <4>2. OutputWires({q[g]}) \subseteq OutputWires(P)
        BY <4>1 DEF OutputWires
      <4>3. QED
        BY <4>1, <4>2
    <3> HIDE DEF P
    <3>2. \A X : h[g] \in X => Seen(h[g]) \subseteq LeakExps(X)
      BY SeenTogether
    <3>3. QED
      BY <1>2, <3>1, <3>2
  <2>4. \A g \in T : Seen(g) \subseteq LeakExps(K) \cup LeakExps(U) \cup LeakExps(OutputWires(P))
    BY <1>4, <2>1, <2>2, <2>3
  <2> HIDE DEF K, P
  <2>5. QED
    BY <2>4, SeenTogether
<1>9. Cardinality(P \ O) + Cardinality(K) + Cardinality(U) <= Cardinality(T)
  <2>1. /\ IsFiniteSet(H) /\ Cardinality(H) \in Nat /\ Cardinality(H) <= Cardinality(V)
        /\ IsFiniteSet(Q) /\ Cardinality(Q) \in Nat /\ Cardinality(Q) <= Cardinality(W)
    BY <1>1, ImageFits
  <2> HIDE DEF H, Q
  <2>2. /\ Cardinality(Left) \in Nat /\ Cardinality(K) \in Nat
        /\ Cardinality(K) <= Cardinality(Left) + Cardinality(H)
    BY <1>1, <2>1, UnionFits
  <2>3. Cardinality(P \ O) \in Nat /\ Cardinality(P \ O) <= Cardinality(Q)
    BY <1>7, <2>1, PartFits
  <2> HIDE DEF K, P
  <2>4. /\ Cardinality(U) \in Nat /\ Cardinality(V) \in Nat /\ Cardinality(W) \in Nat
        /\ Cardinality(T) = Cardinality(Left) + (Cardinality(U) + (Cardinality(V) + Cardinality(W)))
    <3>1. /\ IsFiniteSet(V \cup W) /\ Cardinality(V \cup W) = Cardinality(V) + Cardinality(W)
          /\ Cardinality(V) \in Nat /\ Cardinality(W) \in Nat
      <4>1. V \cap W = {}
        BY <1>4
      <4>2. QED
        BY <1>1, <4>1, UnionFits
    <3>2. /\ IsFiniteSet(U \cup (V \cup W)) /\ Cardinality(U) \in Nat
          /\ Cardinality(U \cup (V \cup W)) = Cardinality(U) + Cardinality(V \cup W)
      <4>1. U \cap (V \cup W) = {}
        BY <1>4
      <4>2. QED
        BY <1>1, <3>1, <4>1, UnionFits
    <3>3. Left \cap (U \cup (V \cup W)) = {} /\ T = Left \cup (U \cup (V \cup W))
      BY <1>4
    <3>4. Cardinality(T) = Cardinality(Left) + Cardinality(U \cup (V \cup W))
      BY <1>1, <3>2, <3>3, UnionFits
    <3>5. QED
      BY <3>1, <3>2, <3>4
  <2>5. QED
    BY <1>1, <2>1, <2>2, <2>3, <2>4
<1>10. LeftOf(T, O, K, U, P)
  <2> HIDE DEF K, P
  <2>1. QED
    BY <1>3, <1>4, <1>6, <1>7, <1>8, <1>9 DEF LeftOf
<1> HIDE DEF K, P
<1>11. QED
  BY <1>10

(* Probes with one share index add one index each to what is revealed      *)
(* without them.                                                           *)
LEMMA AddOneIndexEach ==
    ASSUME NEW E \in SUBSET Exp, NEW U, IsFiniteSet(U), \A g \in U : Seen(g) \subseteq Exp /\ OneIndex(g),
           Effective(E \cup LeakExps(U)) \subseteq Share
    PROVE  \E I \in SUBSET (0 .. NbShares - 1) :
              /\ IsFiniteSet(I) /\ Cardinality(I) <= Cardinality(U)
              /\ EffectiveIndexes(E \cup LeakExps(U)) \subseteq EffectiveIndexes(E) \cup I
<1> DEFINE F == [g \in U |-> {ShareNum(sh) : sh \in SeenSymbols(g) \cap Share}]
           I == UNION {F[g] : g \in U}
<1>1. /\ F \in [U -> SUBSET (0 .. NbShares - 1)]
      /\ \A g \in U : \A x, y \in F[g] : x = y
  BY ShareNumAssumption DEF OneIndex
<1>2. I \subseteq 0 .. NbShares - 1 /\ \A x \in I : \E g \in U : x \in F[g]
  BY <1>1
<1>3. LeakExps(U) = UNION {Seen(g) : g \in U}
  BY SeenTogether
<1>4. Effective(E \cup LeakExps(U)) \subseteq Effective(E) \cup UNION {Symbols(r) : r \in LeakExps(U)}
  <2>1. LeakExps(U) \in SUBSET Exp /\ \A r \in LeakExps(U) : MaskOcc(r) = {}
    BY <1>3 DEF OneIndex, SeenSymbols, MaskOcc
  <2>2. QED
    BY <2>1, EffectiveWithUnmasked
<1>5. EffectiveIndexes(E \cup LeakExps(U)) \subseteq EffectiveIndexes(E) \cup I
  <2> SUFFICES ASSUME NEW sh \in Effective(E \cup LeakExps(U)), sh \notin Effective(E)
               PROVE  ShareNum(sh) \in I
    BY DEF EffectiveIndexes
  <2>1. PICK r \in LeakExps(U) : sh \in Symbols(r)
    BY <1>4
  <2>2. PICK g \in U : r \in Seen(g)
    BY <1>3, <2>1
  <2>3. sh \in SeenSymbols(g) \cap Share
    BY <2>1, <2>2 DEF SeenSymbols
  <2>4. ShareNum(sh) \in F[g]
    BY <2>3
  <2>5. QED
    BY <2>4
<1> HIDE DEF F, I
<1>6. IsFiniteSet(0 .. NbShares - 1)
  BY NbSharesAssumption, FS_Interval
<1>7. IsFiniteSet(I) /\ Cardinality(I) <= Cardinality(U)
  BY <1>1, <1>2, <1>6, FS_Subset, OneShareEach
<1>8. QED
  BY <1>2, <1>5, <1>7

(* What simulates the probes left, with the useless ones' own indexes,     *)
(* simulates them all.                                                     *)
LEMMA IsolatedWithoutUseless ==
    ASSUME Verified, BoundsIndexes,
           NEW O \in SUBSET Positions, NEW T \in SUBSET reachable,
           NEW K, NEW U, NEW P, LeftOf(T, O, K, U, P), Isolated(P, K)
    PROVE  Isolated(O, T)
<1>1. PICK m \in SUBSET Indexes : Simulated(m, P, K) /\ Cardinality(m \ P) <= Cardinality(K)
  BY DEF Isolated
<1> DEFINE outputs == IF call.secProp = "OPINI" THEN m ELSE P
           A == K \cup OutputWires(outputs)
<1>2. /\ K \in SUBSET reachable /\ U \in SUBSET reachable
      /\ P \in SUBSET Positions /\ O \subseteq P /\ P \subseteq m
      /\ outputs \in SUBSET Positions
      /\ \A g \in U : OneIndex(g) /\ Seen(g) \subseteq Exp
      /\ IsFiniteSet(T) /\ IsFiniteSet(K) /\ IsFiniteSet(U) /\ IsFiniteSet(m) /\ IsFiniteSet(P)
  <2>1. K \in SUBSET reachable /\ U \in SUBSET reachable /\ U \subseteq T
    BY DEF LeftOf, Verified
  <2>2. IsFiniteSet(T) /\ IsFiniteSet(K) /\ IsFiniteSet(U)
    BY <2>1, FS_Subset DEF Verified
  <2>3. P \in SUBSET Positions /\ O \subseteq P /\ P \subseteq m /\ outputs \in SUBSET Positions
    BY <1>1, IndexesFit DEF LeftOf, Simulated
  <2>4. IsFiniteSet(m) /\ IsFiniteSet(P)
    BY <1>1, <2>3, IndexesFit, FS_Subset
  <2>5. \A g \in U : OneIndex(g) /\ Seen(g) \subseteq Exp
    BY <2>1 DEF LeftOf, Verified
  <2>6. QED
    BY <2>1, <2>2, <2>3, <2>4, <2>5
<1>3. /\ A \in SUBSET reachable /\ A \cup U \in SUBSET reachable
      /\ EffectiveIndexes(LeakExps(A)) \subseteq m
  BY <1>1, <1>2, IndexesFit DEF Simulated
<1> HIDE DEF A
<1>4. PICK I \in SUBSET (0 .. NbShares - 1) :
              /\ IsFiniteSet(I) /\ Cardinality(I) <= Cardinality(U)
              /\ EffectiveIndexes(LeakExps(A) \cup LeakExps(U)) \subseteq EffectiveIndexes(LeakExps(A)) \cup I
  <2>1. LeakExps(A) \in SUBSET Exp
    BY <1>3, SeenTogether DEF Verified
  <2>2. Effective(LeakExps(A) \cup LeakExps(U)) \subseteq Share
    <3>1. Effective(LeakExps(A \cup U)) \subseteq Share
      BY <1>3, IndexesFit
    <3>2. QED
      BY <3>1, SeenTogether
  <2>3. QED
    BY <1>2, <2>1, <2>2, AddOneIndexEach
<1>5. call.secProp = "OPINI" => I = {}
  <2> SUFFICES ASSUME call.secProp = "OPINI" PROVE I = {}
    OBVIOUS
  <2>1. Cardinality(U) = 0
    BY FS_EmptySet DEF LeftOf
  <2>2. Cardinality(I) \in Nat
    BY <1>4, FS_CardinalityType
  <2>3. QED
    BY <1>4, <2>1, <2>2, FS_EmptySet
<1> DEFINE n == m \cup I
           shown == IF call.secProp = "OPINI" THEN n ELSE O
<1>6. n \in SUBSET Indexes /\ O \subseteq n
  BY <1>1, <1>2, <1>4 DEF Indexes
<1>7. EffectiveIndexes(LeakExps(T \cup OutputWires(shown))) \subseteq n
  <2>1. OutputWires(shown) \subseteq A /\ OutputWires(P) \subseteq A
    <3>1. shown \subseteq outputs /\ P \subseteq outputs
      BY <1>2, <1>5
    <3> HIDE DEF shown, outputs
    <3>2. OutputWires(shown) \subseteq OutputWires(outputs) /\ OutputWires(P) \subseteq OutputWires(outputs)
      BY <3>1 DEF OutputWires
    <3>3. QED
      BY <3>2 DEF A
  <2>2. K \subseteq A
    BY DEF A
  <2> HIDE DEF shown
  <2>3. LeakExps(T \cup OutputWires(shown)) \subseteq LeakExps(A) \cup LeakExps(U)
    <3>1. LeakExps(T) \subseteq LeakExps(K) \cup LeakExps(U) \cup LeakExps(OutputWires(P))
      BY DEF LeftOf
    <3>2. /\ LeakExps(K) \subseteq LeakExps(A) /\ LeakExps(OutputWires(P)) \subseteq LeakExps(A)
          /\ LeakExps(OutputWires(shown)) \subseteq LeakExps(A)
      BY <2>1, <2>2, SeenTogether
    <3>3. LeakExps(T \cup OutputWires(shown)) = LeakExps(T) \cup LeakExps(OutputWires(shown))
      BY SeenTogether
    <3>4. QED
      BY <3>1, <3>2, <3>3
  <2>4. EffectiveIndexes(LeakExps(T \cup OutputWires(shown))) \subseteq EffectiveIndexes(LeakExps(A) \cup LeakExps(U))
    BY <2>3, MoreRevealsMore DEF EffectiveIndexes
  <2>5. QED
    BY <1>3, <1>4, <2>4
<1>8. Cardinality(n \ O) <= Cardinality(T)
  <2>1. n \ O \subseteq ((P \ O) \cup (m \ P)) \cup I
    OBVIOUS
  <2>2. IsFiniteSet(P \ O) /\ IsFiniteSet(m \ P)
    BY <1>2, FS_Difference
  <2> HIDE DEF n
  <2>3. /\ IsFiniteSet((P \ O) \cup (m \ P))
        /\ Cardinality((P \ O) \cup (m \ P)) \in Nat
        /\ Cardinality(P \ O) \in Nat /\ Cardinality(m \ P) \in Nat
        /\ Cardinality((P \ O) \cup (m \ P)) <= Cardinality(P \ O) + Cardinality(m \ P)
    BY <2>2, UnionFits
  <2>4. /\ IsFiniteSet(((P \ O) \cup (m \ P)) \cup I)
        /\ Cardinality(I) \in Nat /\ Cardinality(((P \ O) \cup (m \ P)) \cup I) \in Nat
        /\ Cardinality(((P \ O) \cup (m \ P)) \cup I) <= Cardinality((P \ O) \cup (m \ P)) + Cardinality(I)
    BY <1>4, <2>3, UnionFits
  <2>5. /\ Cardinality(n \ O) \in Nat
        /\ Cardinality(n \ O) <= Cardinality(((P \ O) \cup (m \ P)) \cup I)
    BY <2>1, <2>4, PartFits
  <2>6. Cardinality(P \ O) + Cardinality(K) + Cardinality(U) <= Cardinality(T)
    BY DEF LeftOf
  <2>7. Cardinality(K) \in Nat /\ Cardinality(U) \in Nat /\ Cardinality(T) \in Nat
    BY <1>2, FS_CardinalityType
  <2>8. QED
    BY <1>1, <1>4, <2>3, <2>4, <2>5, <2>6, <2>7
<1>9. Simulated(n, O, T)
  <2> HIDE DEF n
  <2>1. QED
    BY <1>6, <1>7 DEF Simulated
<1> HIDE DEF n
<1>10. QED
  BY <1>6, <1>8, <1>9 DEF Isolated

(* The verdict for the properties that bound indexes: the tuples of order  *)
(* probes and positions are enough, with glitches and without.             *)
LEMMA VerdictForIndexes ==
    ASSUME Verified, BoundsIndexes, \A g \in reachable \ gatesToVerify : Dispensable(g)
    PROVE  VerdictRight
<1>1. /\ NbOutputShares \in Nat /\ IsFiniteSet(Positions) /\ call.order \in Nat
      /\ LeaksFound
      /\ gatesToVerify \subseteq reachable /\ IsFiniteSet(reachable)
  <2>1. IsFiniteSet(Indexes) /\ Positions \subseteq Indexes /\ NbOutputShares \in Nat
    BY IndexesFit DEF Indexes
  <2>2. QED
    BY <2>1, FS_Subset DEF Verified
<1>2. \A O \in SUBSET Positions : IsFiniteSet(O) /\ Cardinality(O) \in Nat
  BY <1>1, FS_Subset, FS_CardinalityType
<1>3. \A T \in SUBSET reachable : IsFiniteSet(T) /\ Cardinality(T) \in Nat
  BY <1>1, FS_Subset, FS_CardinalityType
<1>4. call.secProp # "OPINI" => (Secure => leakingHwe = {})
  BY LeaksAreReal
<1>5. ASSUME leakingHwe = {} PROVE Secure
  <2>1. ASSUME NEW P \in SUBSET Positions, NEW K \in SUBSET (gatesToVerify \ OutputGates),
               Cardinality(P) + Cardinality(K) = call.order
        PROVE  Isolated(P, K)
    <3>1. K \in SUBSET reachable
      BY <1>1
    <3>2. Cardinality(K) = call.order - Cardinality(P)
      BY <1>1, <1>2, <1>3, <2>1, <3>1
    <3>3. Tuple(P, K) \in TuplesToVerify
      BY <3>2 DEF TuplesToVerify, TupleEnumPINI, Tuple, BoundsIndexes, Positions
    <3>4. HasProperty(Tuple(P, K))
      BY <1>1, <1>5, <3>3 DEF LeaksFound
    <3>5. QED
      BY <3>1, <3>4, AnswerForIndexes
  <2>2. ASSUME NEW O \in SUBSET Positions, NEW T \in SUBSET (reachable \ OutputGates),
               Cardinality(O) + Cardinality(T) <= call.order
        PROVE  Isolated(O, T)
    <3>1. PICK K, U, P : LeftOf(T, O, K, U, P)
      BY LeftForIndexes
    <3>2. /\ K \in SUBSET (gatesToVerify \ OutputGates) /\ K \in SUBSET reachable
          /\ P \in SUBSET Positions /\ O \subseteq P /\ T \in SUBSET reachable /\ U \in SUBSET reachable
          /\ Cardinality(P \ O) + Cardinality(K) + Cardinality(U) <= Cardinality(T)
      BY <1>1, <3>1 DEF LeftOf
    <3>3. Cardinality(P) + Cardinality(K) <= call.order
      <4>1. P = O \cup (P \ O) /\ O \in SUBSET Positions /\ P \ O \in SUBSET Positions
        BY <3>2
      <4>2. /\ Cardinality(P) <= Cardinality(O) + Cardinality(P \ O)
            /\ Cardinality(O) \in Nat /\ Cardinality(P \ O) \in Nat /\ Cardinality(P) \in Nat
        BY <1>2, <4>1, UnionFits
      <4>3. Cardinality(K) \in Nat /\ Cardinality(T) \in Nat /\ Cardinality(U) \in Nat
        BY <1>3, <3>2
      <4>4. QED
        BY <1>1, <2>2, <3>2, <4>2, <4>3
    <3>4. Isolated(P, K)
      BY <2>1, <3>2, <3>3, FilledWithPositions
    <3>5. QED
      BY <3>1, <3>2, <3>4, IsolatedWithoutUseless
  <2>3. ASSUME NEW t \in AllTuples
        PROVE  /\ t.outputIndexes \in SUBSET Positions /\ t.probes \in SUBSET (reachable \ OutputGates)
               /\ Cardinality(t.outputIndexes) + Cardinality(t.probes) <= call.order
               /\ t = Tuple(t.outputIndexes, t.probes)
    BY DEF AllTuples, BoundsIndexes, Positions, Tuple
  <2>4. \A t \in AllTuples : HasProperty(t)
    <3> TAKE t \in AllTuples
    <3>1. Isolated(t.outputIndexes, t.probes)
      BY <2>2, <2>3
    <3>2. t.outputIndexes \in SUBSET Positions /\ t.probes \in SUBSET reachable
      BY <2>3
    <3>3. HasProperty(Tuple(t.outputIndexes, t.probes))
      BY <3>1, <3>2, AnswerForIndexes
    <3>4. QED
      BY <2>3, <3>3
  <2>5. QED
    BY <2>4 DEF Secure
<1>6. QED
  BY <1>4, <1>5 DEF VerdictRight

-----------------------------------------------------------------------------
(* The theorems.                                                           *)

(* In a call that goes on with PINI or OPINI the output wires exist.       *)
LEMMA OutputsOfCall ==
    ASSUME IInv, pc = "done", call.secProp \in {"PINI", "OPINI"}, call.order < NbOutputShares, Judged
    PROVE  BoundsIndexes
BY DEF IInv, ValidInv, BoundsIndexes

(* For NI, SNI and RNI without glitches, checkSecurity reports no leak     *)
(* exactly when every set of at most order probes has the property,        *)
(* although it removes the probes that show one share of each secret: it   *)
(* enumerates the smaller tuples instead.                                  *)
THEOREM VerdictCorrect ==
    ASSUME REM_SINGLE_INPUT_PROBES, ~REM_REDUNDANT_PROBES
    PROVE  Spec => []VerdictExact
<1>1. ASSUME IInv PROVE VerdictExact
  <2> SUFFICES ASSUME pc = "done", ~call.withGlitches, BoundsShares
               PROVE  leakingHwe = {} <=> Secure
    BY DEF VerdictExact, BoundsShares
  <2>1. Verified /\ Judged /\ DoPartialTuples
    BY <1>1, VerificationDone DEF Judged, DoPartialTuples, BoundsShares
  <2>2. \A g \in reachable \ gatesToVerify : Dispensable(g)
    BY <2>1 DEF Verified, BoundsShares
  <2>3. QED
    BY <2>1, <2>2, VerdictForShares
<1>2. QED
  BY <1>1, Invariance, PTL

(* For PINI without glitches, below the number of output shares,           *)
(* checkSecurity reports no leak exactly when every set of output indexes  *)
(* and internal probes, order of them together at most, has the property.  *)
THEOREM VerdictCorrectPINI ==
    ASSUME ~REM_REDUNDANT_PROBES
    PROVE  Spec => []VerdictExactPINI
<1>1. ASSUME IInv PROVE VerdictExactPINI
  <2> SUFFICES ASSUME pc = "done", ~call.withGlitches, call.secProp = "PINI", call.order < NbOutputShares
               PROVE  leakingHwe = {} <=> Secure
    BY DEF VerdictExactPINI
  <2>1. Verified /\ BoundsIndexes
    BY <1>1, VerificationDone, OutputsOfCall DEF Judged
  <2>2. \A g \in reachable \ gatesToVerify : Dispensable(g)
    BY <2>1 DEF Verified, BoundsIndexes
  <2>3. QED
    BY <2>1, <2>2, VerdictForIndexes DEF VerdictRight
<1>2. QED
  BY <1>1, Invariance, PTL

(* For TPS without glitches, checkSecurity reports no leak exactly when    *)
(* every set of at most order probes has the property, although it         *)
(* enumerates the sets of order probes only: if there are that many gates. *)
THEOREM VerdictCorrectTPS == Spec => []VerdictExactTPS
<1>1. ASSUME IInv PROVE VerdictExactTPS
  <2> SUFFICES ASSUME pc = "done", ~call.withGlitches, call.secProp = "TPS", Cardinality(reachable) >= call.order
               PROVE  leakingHwe = {} <=> Secure
    BY DEF VerdictExactTPS
  <2>1. QED
    BY <1>1, VerificationDone, VerdictForSecrets
<1>2. QED
  BY <1>1, Invariance, PTL

(* Without the passes and without glitches, the full tuples that           *)
(* checkSecurity then enumerates are enough: for NI, SNI and RNI with all  *)
(* input shares accessible, for PINI and OPINI with more output positions  *)
(* than the order.                                                         *)
THEOREM VerdictCorrectFullTuples == Spec => []VerdictExactFullTuples
<1>1. ASSUME IInv PROVE VerdictExactFullTuples
  <2> SUFFICES ASSUME pc = "done", ~call.withGlitches, ~DoPartialTuples,
                      \/ /\ call.secProp \in {"NI", "SNI", "RNI"}
                         /\ call.order < NbShares
                         /\ AllInputSharesAreAccessible(reachable)
                      \/ /\ call.secProp \in {"PINI", "OPINI"}
                         /\ call.order < NbOutputShares
               PROVE  VerdictRight
    BY DEF VerdictExactFullTuples
  <2>1. Verified /\ Judged
    BY <1>1, VerificationDone DEF Judged
  <2>2. CASE call.secProp \in {"NI", "SNI", "RNI"}
    BY <2>1, <2>2, VerdictForSharesFull DEF BoundsShares, VerdictRight
  <2>3. CASE call.secProp \in {"PINI", "OPINI"}
    <3>1. BoundsIndexes
      BY <1>1, <2>1, <2>3, OutputsOfCall
    <3>2. \A g \in reachable \ gatesToVerify : Dispensable(g)
      BY <2>1 DEF Verified
    <3>3. QED
      BY <2>1, <3>1, <3>2, VerdictForIndexes
  <2>4. QED
    BY <2>2, <2>3
<1>2. QED
  BY <1>1, Invariance, PTL

(* With glitches the verdict is exact for the properties about shares, in  *)
(* circuits in which nothing cancels: the probes removeIncludedProbes      *)
(* drops are shown by others, and the other passes judge what a gate       *)
(* shows.                                                                  *)
THEOREM VerdictCorrectWithGlitches ==
    ASSUME REM_SINGLE_INPUT_PROBES, ~REM_REDUNDANT_PROBES
    PROVE  Spec => []VerdictExactWithGlitches
<1>1. ASSUME IInv PROVE VerdictExactWithGlitches
  <2> SUFFICES ASSUME pc = "done", call.secProp # "TPS", NothingCancelled,
                      call.secProp = "RNI" => call.order < NbShares,
                      call.secProp \in {"PINI", "OPINI"} => call.order < NbOutputShares
               PROVE  VerdictRight
    BY DEF VerdictExactWithGlitches
  <2>1. Verified /\ Judged
    BY <1>1, VerificationDone DEF Judged
  <2>2. \A g \in reachable \ gatesToVerify : Dispensable(g)
    BY <2>1 DEF Verified
  <2>3. call.secProp \in {"NI", "SNI", "RNI", "PINI", "OPINI"}
    BY <1>1 DEF IInv, CallInv, Call
  <2>4. CASE call.secProp \in {"NI", "SNI", "RNI"}
    BY <2>1, <2>2, <2>4, VerdictForShares DEF BoundsShares, DoPartialTuples, VerdictRight
  <2>5. CASE call.secProp \in {"PINI", "OPINI"}
    <3>1. BoundsIndexes
      BY <1>1, <2>1, <2>5, OutputsOfCall
    <3>2. QED
      BY <2>1, <2>2, <3>1, VerdictForIndexes
  <2>6. QED
    BY <2>3, <2>4, <2>5
<1>2. QED
  BY <1>1, Invariance, PTL
=============================================================================
