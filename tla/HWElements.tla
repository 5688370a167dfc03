----------------------------- MODULE HWElements -----------------------------
(***************************************************************************)
(* The circuit under verification (src/src/hw.cpp).  A program describes   *)
(* its gadget by calling inputGate, xorGate, andGate, notGate and          *)
(* Register; every call allocates one HWElement, which remembers the       *)
(* symbolic expression of its output wire (symbExp) and the set of         *)
(* expressions a probe on that wire observes when glitches propagate       *)
(* (leakageOut).  Elements are never changed once created: an element is   *)
(* named here by its creation number, the num field of the class.          *)
(*                                                                         *)
(* Expressions are abstract: Exp is the set of simplified nodes the        *)
(* program can build, OpNode(op, es) the simplified node of an operator    *)
(* applied to operands.  Wires are one bit wide, so the width check of the *)
(* Gate constructor and the word-level gates do not appear.                *)
(***************************************************************************)
EXTENDS Integers, Sequences, FiniteSets

CONSTANTS
    Exp,            \* the expressions (hash-consed, simplified nodes)
    OpNode(_, _),   \* OpNode(op, es): simplify(Node::OpNode(op, es))
    InputLists,     \* for each gadget a program describes, the nodes it gives
                    \* to inputGate, in the order of the calls
    Ops,            \* the gate operators the program uses
    MaxElements     \* bound: elements allocated by one program

ASSUME InputsAssumption == InputLists \subseteq Seq(Exp)
ASSUME MaxElementsAssumption == MaxElements \in Nat

VARIABLE hwElements

HWElement ==
    [nature : {"GATE", "REGISTER"}, op : Ops \cup {"INPUT", "NOP"},
     inputs : Seq(Nat \ {0}), symbExp : Exp, leakageOut : SUBSET Exp]

Elements == DOMAIN hwElements

Allocate(e) ==
    /\ Len(hwElements) < MaxElements
    /\ hwElements' = Append(hwElements, e)

InputGate(n) ==
    Allocate([nature |-> "GATE", op |-> "INPUT", inputs |-> <<>>,
              symbExp |-> n, leakageOut |-> {n}])

(* A combinational gate recomputes as soon as one operand changes: what a  *)
(* probe on it observes is everything its operands let it observe.         *)
Gate(op, ins) ==
    LET n == OpNode(op, [i \in DOMAIN ins |-> hwElements[ins[i]].symbExp])
    IN  /\ n \in Exp
        /\ Allocate([nature |-> "GATE", op |-> op, inputs |-> ins, symbExp |-> n,
                     leakageOut |-> UNION {hwElements[ins[i]].leakageOut : i \in DOMAIN ins}])

(* A register stops glitches: only the stable value is observed.           *)
Register(g) ==
    Allocate([nature |-> "REGISTER", op |-> "NOP", inputs |-> <<g>>,
              symbExp |-> hwElements[g].symbExp,
              leakageOut |-> {hwElements[g].symbExp}])

(* getReachableGates: the elements found from the outputs by following     *)
(* inputs, that is, the least set that holds the outputs and is closed     *)
(* under inputs.                                                           *)
InputsOf(g) == {hwElements[g].inputs[i] : i \in DOMAIN hwElements[g].inputs}

Closed(S) == \A g \in S : InputsOf(g) \subseteq S

Reachable(outs) ==
    {g \in Elements : \A S \in SUBSET Elements : outs \subseteq S /\ Closed(S) => g \in S}

(* The calls a program makes while it describes its gadget.  The input     *)
(* gates come first and in a fixed order, and operands are given by        *)
(* increasing number: the order of commuting calls is not explored.        *)
Operands(op) ==
    IF op = "BNOT" THEN {<<i>> : i \in Elements}
                   ELSE {<<i, j>> : i, j \in Elements}

Built(nodes) ==
    \A i \in Elements \cap DOMAIN nodes :
        hwElements[i].op = "INPUT" /\ hwElements[i].symbExp = nodes[i]

BuildInput ==
    \E nodes \in InputLists :
        /\ Len(hwElements) < Len(nodes) /\ Built(nodes)
        /\ InputGate(nodes[Len(hwElements) + 1])

AllInputsBuilt(nodes) == Len(nodes) <= Len(hwElements) /\ Built(nodes)

BuildGate ==
    /\ \E nodes \in InputLists : AllInputsBuilt(nodes)
    /\ \/ \E op \in Ops : \E ins \in Operands(op) :
            /\ \A i, j \in DOMAIN ins : i < j => ins[i] < ins[j]
            /\ Gate(op, ins)
       \/ \E g \in Elements : Register(g)
=============================================================================
