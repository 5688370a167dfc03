----------------------------- MODULE BartheOpt -----------------------------
(***************************************************************************)
(* bartheOpt (src/src/hw.cpp, compiled in with BARTHE_OPT): the search for *)
(* a leaking tuple that checkSecurity makes for NI and TPS without         *)
(* enumerating the tuples.  A set that has the property is extended as far *)
(* as it keeps it, and all the tuples inside of it are settled at once;    *)
(* what is left is split into smaller searches: the tuples that take       *)
(* exactly the expressions t of the extended set, for every t.             *)
(*                                                                         *)
(* A call check(x, d, e) is to settle the tuples that hold x and d more    *)
(* expressions of e.  The calls of one frame are made one after the other, *)
(* depth first, and the first that fails ends them all; here they wait in  *)
(* a set and are taken in any order.  The sets of the code are ordered by  *)
(* the addresses of the nodes: a choice among the members is a choice of   *)
(* any of them.                                                            *)
(***************************************************************************)
EXTENDS Integers, FiniteSets

CONSTANTS
    Gadget,     \* what is verified: the expressions of the gates, and the
                \* least sets of them that do not have the property
    Order       \* the orders asked for

ASSUME GadgetAssumption ==
    \A g \in Gadget : IsFiniteSet(g.exps) /\ g.leaking \subseteq SUBSET g.exps

(* With order 0 choose, which counts before it compares, would take        *)
(* everything.                                                             *)
ASSUME OrderAssumption == Order \subseteq Nat \ {0}

VARIABLES
    reducedGatesExp,    \* the distinct expressions of the gates to verify
    leaking,            \* the least sets of them without the property
    order, withGlitches,
    exact,              \* whether checkTpsVal and checkNIVal, the symbolic
                        \* analyses used here, suspect nothing without reason
    pending,            \* calls of check still to be made
    current,            \* the call whose set is being extended
    yc, rest,           \* its set, and the expressions not tried yet
    pc,                 \* "check", "extend", "done" or "aborted"
    verdict             \* "none" until bartheOpt returns "secure" or "leak"

inputs == <<reducedGatesExp, leaking, order, withGlitches, exact>>
vars == <<inputs, pending, current, yc, rest, pc, verdict>>

(* More expressions never reveal less: both properties bound by a number   *)
(* fixed for the whole search what a set reveals.                          *)
Holds(S) == \A L \in leaking : ~(L \subseteq S)

(* What checkProp may answer: yes only of a set that has the property.     *)
Answers(S) == IF exact THEN {Holds(S)} ELSE {FALSE, Holds(S)}

CheckCall(x, d, e) == [x |-> x, d |-> d, e |-> e]

Init ==
    /\ \E g \in Gadget : reducedGatesExp = g.exps /\ leaking = g.leaking
    /\ order \in Order /\ withGlitches \in BOOLEAN /\ exact \in BOOLEAN
    /\ pending = {CheckCall({}, order, reducedGatesExp)}
    /\ current = CheckCall({}, order, reducedGatesExp)
    /\ yc = {} /\ rest = {}
    /\ pc = "check"
    /\ verdict = "none"

(* check names the expressions it prints with expNames.at, and expNames is *)
(* not filled with glitches: std::out_of_range at the first one.           *)
Unnamed(c) == withGlitches /\ c.x \cup c.e # {}

Abort(c) ==
    /\ pc = "check"
    /\ Unnamed(c)
    /\ pc' = "aborted"
    /\ UNCHANGED <<inputs, pending, current, yc, rest, verdict>>

(* check with fewer expressions than it has to take: there is no tuple.    *)
TooFew(c) ==
    /\ pc = "check"
    /\ ~Unnamed(c)
    /\ c.d > Cardinality(c.e)
    /\ pending' = pending \ {c}
    /\ UNCHANGED <<inputs, current, yc, rest, pc, verdict>>

(* check: x and any d expressions of e must have the property.             *)
Check(c) ==
    /\ pc = "check"
    /\ ~Unnamed(c)
    /\ \E y \in {y \in SUBSET c.e : Cardinality(y) = c.d} : \E h \in Answers(c.x \cup y) :
         /\ yc' = c.x \cup y
         /\ rest' = c.e \ y
         /\ pc' = IF h THEN "extend" ELSE "done"
         /\ verdict' = IF h THEN "none" ELSE "leak"
    /\ pending' = pending \ {c}
    /\ current' = c
    /\ UNCHANGED inputs

(* Mutant: what fails is left in the set.                                  *)
ExtendAnyway ==
    /\ pc = "extend"
    /\ \E elem \in rest :
         /\ yc' = yc \cup {elem}
         /\ rest' = rest \ {elem}
    /\ UNCHANGED <<inputs, pending, current, pc, verdict>>

(* extend: one expression more, kept when the set still has the property.  *)
Extend ==
    /\ pc = "extend"
    /\ \E elem \in rest : \E h \in Answers(yc \cup {elem}) :
         /\ yc' = IF h THEN yc \cup {elem} ELSE yc
         /\ rest' = rest \ {elem}
    /\ UNCHANGED <<inputs, pending, current, pc, verdict>>

(* Mutants: the tuples that take d - 1 expressions of the extended set are *)
(* forgotten; the number taken is not counted; what is left is not reduced *)
(* by the extended set.                                                    *)
SubCallsShort(c, ext) ==
    {CheckCall(c.x \cup t, c.d - Cardinality(t), c.e \ ext) :
        t \in {t \in SUBSET (ext \ c.x) : t = {} \/ Cardinality(t) < c.d - 1}}

SubCallsUncounted(c, ext) ==
    {CheckCall(c.x \cup t, c.d, c.e \ ext) :
        t \in {t \in SUBSET (ext \ c.x) : Cardinality(t) < c.d}}

SubCallsUnreduced(c, ext) ==
    {CheckCall(c.x \cup t, c.d - Cardinality(t), c.e \ t) :
        t \in {t \in SUBSET (ext \ c.x) : Cardinality(t) < c.d}}

(* The calls check makes in turn: check(x, d, e - yc), and for every tuple *)
(* t of 1 to d - 1 expressions of the extended set (tupleEnumBis)          *)
(* check(x + t, d - |t|, e - yc).                                          *)
SubCalls(c, ext) ==
    {CheckCall(c.x \cup t, c.d - Cardinality(t), c.e \ ext) :
        t \in {t \in SUBSET (ext \ c.x) : Cardinality(t) < c.d}}

Split ==
    /\ pc = "extend"
    /\ rest = {}
    /\ pending' = pending \cup SubCalls(current, yc)
    /\ pc' = "check"
    /\ UNCHANGED <<inputs, current, yc, rest, verdict>>

Return ==
    /\ pc = "check"
    /\ pending = {}
    /\ verdict' = "secure"
    /\ pc' = "done"
    /\ UNCHANGED <<inputs, pending, current, yc, rest>>

Next ==
    \/ \E c \in pending : Abort(c) \/ TooFew(c) \/ Check(c)
    \/ Extend
    \/ Split
    \/ Return

(* A single thread runs the search: it takes a step whenever it can.       *)
Spec == Init /\ [][Next]_vars /\ WF_vars(Next)

-----------------------------------------------------------------------------
Tuples == {T \in SUBSET reducedGatesExp : Cardinality(T) = order}

(* A call of check at work or to come settles the tuple T.                 *)
Settles(c, T) == c.x \subseteq T /\ T \subseteq c.x \cup c.e

Open == IF pc = "extend" THEN pending \cup {current} ELSE pending

CallOK(c) ==
    /\ c.x \subseteq reducedGatesExp /\ c.e \subseteq reducedGatesExp
    /\ c.x \cap c.e = {}
    /\ c.d \in Nat \ {0}
    /\ Cardinality(c.x) + c.d = order

(* The assertion at the head of check, x.size() + d == order, and what the *)
(* sets of a call have to do with each other.                              *)
TypeOK ==
    /\ pc \in {"check", "extend", "done", "aborted"}
    /\ verdict \in {"none", "secure", "leak"}
    /\ verdict = "none" <=> pc # "done"
    /\ \A c \in Open : CallOK(c)
    /\ pc = "extend" =>
         /\ current.x \subseteq yc /\ yc \subseteq current.x \cup current.e
         /\ rest \subseteq current.e \ yc

(* No tuple is forgotten: one that leaks is still to be settled by a call, *)
(* until a leak has been found.                                            *)
NoneForgotten ==
    verdict # "leak" =>
        \A T \in Tuples : Holds(T) \/ \E c \in Open : Settles(c, T)

(* The search keeps the promise of a search for leaking tuples: secure is  *)
(* said only when all the tuples of order distinct expressions have the    *)
(* property, leak only when one has not, up to what the analyses suspect.  *)
Abstract == INSTANCE TupleVerdict WITH leaks <- \E T \in Tuples : ~Holds(T)

ImplementsTupleVerdict == Abstract!Spec

(* The search ends, although every call makes several others.              *)
Terminates == <>(pc \in {"done", "aborted"})
=============================================================================
