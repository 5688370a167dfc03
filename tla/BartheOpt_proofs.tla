-------------------------- MODULE BartheOpt_proofs --------------------------
(***************************************************************************)
(* What is proved of bartheOpt, for every set of expressions, every family *)
(* of leaking sets and every order: no tuple is forgotten, and the verdict *)
(* is the one promised of a search for leaking tuples.                     *)
(***************************************************************************)
EXTENDS BartheOpt, FiniteSetTheorems, TLAPS

-----------------------------------------------------------------------------
(* Counting sets of expressions.                                           *)

(* The number of expressions of a set is a natural number.                *)
LEMMA Counts ==
    ASSUME IsFiniteSet(reducedGatesExp), NEW S \in SUBSET reducedGatesExp
    PROVE  IsFiniteSet(S) /\ Cardinality(S) \in Nat
BY FS_Subset, FS_CardinalityType

(* Expressions of two disjoint sets add up.                                *)
LEMMA DisjointCount ==
    ASSUME IsFiniteSet(reducedGatesExp), NEW S \in SUBSET reducedGatesExp,
           NEW T \in SUBSET reducedGatesExp, S \cap T = {}
    PROVE  Cardinality(S \cup T) = Cardinality(S) + Cardinality(T)
<1>1. Cardinality(S \cap T) = 0
  BY FS_EmptySet
<1>2. Cardinality(S \cup T) = Cardinality(S) + Cardinality(T) - Cardinality(S \cap T)
  BY Counts, FS_Union
<1> QED
  BY <1>1, <1>2, Counts

(* A part of a set with the property has it.                               *)
LEMMA HoldsOfPart ==
    ASSUME NEW S, NEW T, S \subseteq T, Holds(T)
    PROVE  Holds(S)
BY DEF Holds

(* A tuple that a call settles takes exactly d of its expressions e.       *)
LEMMA TakesD ==
    ASSUME IsFiniteSet(reducedGatesExp), NEW c, CallOK(c), NEW T \in Tuples, Settles(c, T)
    PROVE  T \ c.x \subseteq c.e /\ Cardinality(T \ c.x) = c.d
<1>1. T \ c.x \in SUBSET reducedGatesExp /\ c.x \in SUBSET reducedGatesExp
  BY DEF Tuples, CallOK
<1>2. Cardinality(c.x \cup (T \ c.x)) = Cardinality(c.x) + Cardinality(T \ c.x)
  BY <1>1, DisjointCount
<1>3. c.x \cup (T \ c.x) = T
  BY DEF Settles
<1>4. Cardinality(T) = order
  BY DEF Tuples
<1>5. Cardinality(c.x) \in Nat /\ Cardinality(T \ c.x) \in Nat
  BY <1>1, Counts
<1>6. T \ c.x \subseteq c.e
  BY DEF Settles
<1>7. c.d \in Nat /\ Cardinality(c.x) + c.d = order
  BY DEF CallOK
<1>8. Cardinality(c.x) + Cardinality(T \ c.x) = order
  BY <1>2, <1>3, <1>4
<1>9. \A i, j, k \in Nat : i + j = order /\ i + k = order => j = k
  OBVIOUS
<1> QED
  BY <1>5, <1>6, <1>7, <1>8, <1>9

-----------------------------------------------------------------------------
(* The inductive invariant: the inputs are what they were given as, calls  *)
(* and sets fit together, the extended set has the property, no tuple is   *)
(* forgotten, the search ends secure only with no call left, and leaking,  *)
(* when exact, only with a tuple that leaks.                               *)

InputsOK ==
    /\ IsFiniteSet(reducedGatesExp)
    /\ order \in Nat \ {0}
    /\ exact \in BOOLEAN

ExtendedHolds == pc = "extend" => Holds(yc)

NothingLeft == verdict = "secure" => pending = {}

LeakFound == verdict = "leak" /\ exact => \E T \in Tuples : ~Holds(T)

IInv == InputsOK /\ TypeOK /\ ExtendedHolds /\ NoneForgotten /\ NothingLeft /\ LeakFound

(* The first calls of the search cover every tuple.                        *)
LEMMA InitIInv == Init => IInv
<1> SUFFICES ASSUME Init PROVE IInv
  OBVIOUS
<1>1. InputsOK
  BY GadgetAssumption, OrderAssumption DEF Init, InputsOK
<1>2. Cardinality({}) = 0
  BY FS_EmptySet
<1>3. Open = {CheckCall({}, order, reducedGatesExp)}
  BY DEF Init, Open
<1>4. TypeOK
  BY <1>1, <1>2, <1>3 DEF Init, InputsOK, TypeOK, CallOK, CheckCall
<1>5. NoneForgotten
  BY <1>3 DEF NoneForgotten, Settles, Tuples, CheckCall
<1> QED
  BY <1>1, <1>4, <1>5 DEF Init, IInv, ExtendedHolds, NothingLeft, LeakFound

(* What is asked about stays the same.                                     *)
LEMMA InputsKept ==
    ASSUME InputsOK, UNCHANGED inputs
    PROVE  /\ InputsOK'
           /\ Tuples' = Tuples
           /\ \A S : Holds(S)' <=> Holds(S)
           /\ \A c : CallOK(c)' <=> CallOK(c)
BY DEF inputs, InputsOK, Tuples, Holds, CallOK

(* The gadget, the order and the kind of analysis do not change.           *)
LEMMA InputsFixed == [Next]_vars => UNCHANGED inputs
<1>1. ASSUME NEW c \in pending, Abort(c) \/ TooFew(c) PROVE UNCHANGED inputs
  BY <1>1 DEF Abort, TooFew
<1>2. ASSUME NEW c \in pending, Check(c) PROVE UNCHANGED inputs
  BY <1>2 DEF Check
<1>3. CASE Extend \/ Split \/ Return
  BY <1>3 DEF Extend, Split, Return
<1>4. CASE UNCHANGED vars
  BY <1>4 DEF vars
<1> QED
  BY <1>1, <1>2, <1>3, <1>4 DEF Next

(* With fewer expressions than the order there is no tuple to settle.      *)
LEMMA TooFewIInv ==
    ASSUME IInv, NEW c \in pending, TooFew(c)
    PROVE  IInv'
<1> USE DEF IInv
<1>1. /\ InputsOK' /\ Tuples' = Tuples
      /\ \A S : Holds(S)' <=> Holds(S)
      /\ \A k : CallOK(k)' <=> CallOK(k)
  BY InputsKept DEF TooFew
<1>2. Open' = pending \ {c} /\ Open = pending
  BY DEF TooFew, Open
<1>3. CallOK(c)
  BY DEF TypeOK, Open
<1>4. ASSUME NEW T \in Tuples, Settles(c, T) PROVE FALSE
  <2>1. T \ c.x \in SUBSET c.e /\ Cardinality(T \ c.x) = c.d
    BY <1>3, <1>4, TakesD DEF InputsOK
  <2>2. IsFiniteSet(c.e) /\ Cardinality(c.e) \in Nat /\ c.d \in Nat
    BY <1>3, Counts DEF CallOK, InputsOK
  <2>3. Cardinality(T \ c.x) <= Cardinality(c.e)
    BY <2>1, <2>2, FS_Subset
  <2> QED
    BY <2>1, <2>2, <2>3 DEF TooFew
<1>5. TypeOK'
  BY <1>1, <1>2 DEF TypeOK, TooFew, Open
<1>6. NoneForgotten'
  BY <1>1, <1>2, <1>4 DEF NoneForgotten, TooFew, Settles
<1> QED
  BY <1>1, <1>5, <1>6 DEF TooFew, ExtendedHolds, NothingLeft, LeakFound, inputs, TypeOK

(* A call that has chosen a set with the property goes on to extend it;    *)
(* one that finds a leak ends the search.                                  *)
LEMMA CheckIInv ==
    ASSUME IInv, NEW c \in pending, Check(c)
    PROVE  IInv'
<1> USE DEF IInv
<1>1. /\ InputsOK' /\ Tuples' = Tuples
      /\ \A S : Holds(S)' <=> Holds(S)
      /\ \A k : CallOK(k)' <=> CallOK(k)
  BY InputsKept DEF Check
<1>y. PICK y \in {y \in SUBSET c.e : Cardinality(y) = c.d} : \E h \in Answers(c.x \cup y) :
        /\ yc' = c.x \cup y
        /\ rest' = c.e \ y
        /\ pc' = IF h THEN "extend" ELSE "done"
        /\ verdict' = IF h THEN "none" ELSE "leak"
  BY DEF Check
<1>2. PICK h \in Answers(c.x \cup y) :
        /\ y \in SUBSET c.e /\ Cardinality(y) = c.d
        /\ yc' = c.x \cup y
        /\ rest' = c.e \ y
        /\ pc' = IF h THEN "extend" ELSE "done"
        /\ verdict' = IF h THEN "none" ELSE "leak"
  BY <1>y
<1>3. CallOK(c) /\ c \in Open /\ Open = pending
  BY DEF TypeOK, Open, Check
<1>4. h => Holds(c.x \cup y)
  BY <1>2 DEF Answers
<1>5. CASE h
  <2>1. pc' = "extend" /\ verdict' = "none" /\ current' = c /\ pending' = pending \ {c}
    BY <1>2, <1>5 DEF Check
  <2>2. Open' = pending
    BY <2>1 DEF Open
  <2>3. TypeOK'
    BY <1>1, <1>2, <1>3, <2>1, <2>2 DEF TypeOK, CallOK
  <2>4. NoneForgotten'
    <3>1. verdict # "leak"
      BY DEF TypeOK, Check
    <3> QED
      BY <3>1, <1>1, <1>3, <2>2 DEF NoneForgotten, Settles
  <2> QED
    BY <1>1, <1>2, <1>4, <1>5, <2>1, <2>3, <2>4 DEF ExtendedHolds, NothingLeft, LeakFound
<1>6. CASE ~h
  <2>1. pc' = "done" /\ verdict' = "leak" /\ pending' = pending \ {c}
    BY <1>2, <1>6 DEF Check
  <2>2. TypeOK'
    BY <1>1, <1>3, <2>1 DEF TypeOK, Open
  <2>3. exact => ~Holds(c.x \cup y)
    BY <1>2, <1>6 DEF Answers
  <2>4. c.x \cup y \in Tuples
    <3>1. c.x \in SUBSET reducedGatesExp /\ y \in SUBSET reducedGatesExp /\ c.x \cap y = {}
      BY <1>2, <1>3 DEF CallOK
    <3>2. Cardinality(c.x \cup y) = order
      BY <1>2, <1>3, <3>1, DisjointCount DEF CallOK, InputsOK
    <3> QED
      BY <3>1, <3>2 DEF Tuples
  <2>5. LeakFound'
    BY <1>1, <2>3, <2>4 DEF LeakFound, Check, inputs
  <2> QED
    BY <1>1, <2>1, <2>2, <2>5 DEF ExtendedHolds, NothingLeft, NoneForgotten
<1> QED
  BY <1>5, <1>6

(* The set that is extended keeps the property: an expression that would   *)
(* lose it is left aside.                                                  *)
LEMMA ExtendIInv ==
    ASSUME IInv, Extend
    PROVE  IInv'
<1> USE DEF IInv
<1>1. /\ InputsOK' /\ Tuples' = Tuples
      /\ \A S : Holds(S)' <=> Holds(S)
      /\ \A k : CallOK(k)' <=> CallOK(k)
  BY InputsKept DEF Extend
<1>e. PICK elem \in rest : \E h \in Answers(yc \cup {elem}) :
        /\ yc' = IF h THEN yc \cup {elem} ELSE yc
        /\ rest' = rest \ {elem}
  BY DEF Extend
<1>2. PICK h \in Answers(yc \cup {elem}) :
        /\ yc' = IF h THEN yc \cup {elem} ELSE yc
        /\ rest' = rest \ {elem}
  BY <1>e
<1>3. Open' = Open
  BY DEF Extend, Open
<1>4. TypeOK'
  BY <1>1, <1>2, <1>3 DEF TypeOK, Extend
<1>5. ExtendedHolds'
  BY <1>1, <1>2 DEF ExtendedHolds, Extend, Answers
<1>6. NoneForgotten'
  BY <1>1, <1>3 DEF NoneForgotten, Extend, Settles
<1> QED
  BY <1>1, <1>4, <1>5, <1>6 DEF Extend, NothingLeft, LeakFound, inputs

(* What the calls of a frame settle together.                              *)
LEMMA SubCallsSettle ==
    ASSUME InputsOK, NEW c, CallOK(c), NEW ext, c.x \subseteq ext, ext \subseteq c.x \cup c.e,
           Holds(ext), NEW T \in Tuples, Settles(c, T)
    PROVE  Holds(T) \/ \E k \in SubCalls(c, ext) : Settles(k, T)
<1> DEFINE t == (T \cap ext) \ c.x
<1>1. T \ c.x \subseteq c.e /\ Cardinality(T \ c.x) = c.d
  BY TakesD DEF InputsOK
<1>2. IsFiniteSet(T \ c.x) /\ t \in SUBSET (T \ c.x)
  BY Counts DEF Tuples, InputsOK
<1>3. /\ Cardinality(t) <= Cardinality(T \ c.x)
      /\ Cardinality(T \ c.x) = Cardinality(t) => T \ c.x = t
      /\ Cardinality(t) \in Nat
  BY <1>2, FS_Subset, FS_CardinalityType
<1>4. CASE T \ c.x = t
  <2>1. T \subseteq ext
    BY <1>4
  <2> QED
    BY <2>1, HoldsOfPart
<1>5. CASE Cardinality(t) < c.d
  <2>1. CheckCall(c.x \cup t, c.d - Cardinality(t), c.e \ ext) \in SubCalls(c, ext)
    BY <1>5 DEF SubCalls
  <2>2. Settles(CheckCall(c.x \cup t, c.d - Cardinality(t), c.e \ ext), T)
    BY DEF Settles, CheckCall
  <2> QED
    BY <2>1, <2>2
<1> QED
  BY <1>1, <1>3, <1>4, <1>5 DEF CallOK

(* The calls of a frame satisfy the assertion of check.                    *)
LEMMA SubCallsOK ==
    ASSUME InputsOK, NEW c, CallOK(c), NEW ext, c.x \subseteq ext, ext \subseteq c.x \cup c.e,
           NEW k \in SubCalls(c, ext)
    PROVE  CallOK(k)
<1>1. PICK t \in SUBSET (ext \ c.x) :
        Cardinality(t) < c.d /\ k = CheckCall(c.x \cup t, c.d - Cardinality(t), c.e \ ext)
  BY DEF SubCalls
<1>2. t \in SUBSET reducedGatesExp /\ c.x \in SUBSET reducedGatesExp /\ c.x \cap t = {}
  BY <1>1 DEF CallOK
<1>3. Cardinality(c.x \cup t) = Cardinality(c.x) + Cardinality(t)
  BY <1>2, DisjointCount DEF InputsOK
<1>4. Cardinality(c.x) \in Nat /\ Cardinality(t) \in Nat
  BY <1>2, Counts DEF InputsOK
<1> QED
  BY <1>1, <1>2, <1>3, <1>4 DEF CallOK, CheckCall

(* What the extended set does not settle is split among calls by the       *)
(* number of expressions taken inside of it.                               *)
LEMMA SplitIInv ==
    ASSUME IInv, Split
    PROVE  IInv'
<1> USE DEF IInv
<1>1. /\ InputsOK' /\ Tuples' = Tuples
      /\ \A S : Holds(S)' <=> Holds(S)
      /\ \A k : CallOK(k)' <=> CallOK(k)
  BY InputsKept DEF Split
<1>2. Open = pending \cup {current} /\ Open' = pending \cup SubCalls(current, yc)
  BY DEF Split, Open
<1>3. /\ CallOK(current) /\ verdict = "none" /\ Holds(yc)
      /\ current.x \subseteq yc /\ yc \subseteq current.x \cup current.e
  BY <1>2 DEF TypeOK, ExtendedHolds, Split
<1>4. TypeOK'
  BY <1>1, <1>2, <1>3, SubCallsOK DEF TypeOK, Split
<1>5. NoneForgotten'
  <2> SUFFICES ASSUME NEW T \in Tuples, ~Holds(T) PROVE \E k \in Open' : Settles(k, T)
    BY <1>1 DEF NoneForgotten, Settles
  <2>1. PICK c \in Open : Settles(c, T)
    BY <1>3 DEF NoneForgotten
  <2>2. CASE c = current
    BY <1>2, <1>3, <2>1, <2>2, SubCallsSettle
  <2> QED
    BY <1>2, <2>1, <2>2
<1> QED
  BY <1>1, <1>3, <1>4, <1>5 DEF Split, ExtendedHolds, NothingLeft, LeakFound

(* Every step of the search keeps the invariant.                           *)
LEMMA NextIInv == IInv /\ [Next]_vars => IInv'
<1> SUFFICES ASSUME IInv, [Next]_vars PROVE IInv'
  OBVIOUS
<1>1. ASSUME NEW c \in pending, Abort(c) PROVE IInv'
  <2>1. /\ InputsOK' /\ Tuples' = Tuples
        /\ \A S : Holds(S)' <=> Holds(S)
        /\ \A k : CallOK(k)' <=> CallOK(k)
    BY <1>1, InputsKept DEF Abort, IInv
  <2>2. Open' = Open
    BY <1>1 DEF Abort, Open
  <2> QED
    BY <1>1, <2>1, <2>2
       DEF IInv, Abort, TypeOK, ExtendedHolds, NoneForgotten, NothingLeft, LeakFound, Settles
<1>2. CASE Return
  <2>1. /\ InputsOK' /\ Tuples' = Tuples
        /\ \A S : Holds(S)' <=> Holds(S)
        /\ \A k : CallOK(k)' <=> CallOK(k)
    BY <1>2, InputsKept DEF Return, IInv
  <2>2. Open' = {} /\ Open = {}
    BY <1>2 DEF Return, Open
  <2> QED
    BY <1>2, <2>1, <2>2
       DEF IInv, Return, TypeOK, ExtendedHolds, NoneForgotten, NothingLeft, LeakFound, Settles
<1>3. CASE UNCHANGED vars
  <2>1. UNCHANGED inputs
    BY <1>3 DEF vars, inputs
  <2>2. /\ InputsOK' /\ Tuples' = Tuples
        /\ \A S : Holds(S)' <=> Holds(S)
        /\ \A k : CallOK(k)' <=> CallOK(k)
    BY <2>1, InputsKept DEF IInv
  <2>3. Open' = Open /\ UNCHANGED <<pending, current, yc, rest, pc, verdict, exact>>
    BY <1>3 DEF vars, inputs, Open
  <2> QED
    BY <2>2, <2>3
       DEF IInv, TypeOK, ExtendedHolds, NoneForgotten, NothingLeft, LeakFound, Settles
<1> QED
  BY <1>1, <1>2, <1>3, TooFewIInv, CheckIInv, ExtendIInv, SplitIInv DEF Next

(* The invariant holds throughout the search of bartheOpt.                 *)
THEOREM Invariance == Spec => []IInv
BY InitIInv, NextIInv, PTL DEF Spec

(* The sets of every call fit together, and the assertion at the head of   *)
(* check never fails.                                                      *)
THEOREM TypeCorrect == Spec => []TypeOK
BY Invariance, PTL DEF IInv

(* No tuple is forgotten, whichever expressions are chosen, in whichever   *)
(* order, and whatever the analyses suspect.                               *)
THEOREM NothingForgotten == Spec => []NoneForgotten
BY Invariance, PTL DEF IInv

(* bartheOpt implements the search for leaking tuples: the plain           *)
(* enumeration of all tuples of order distinct expressions has the same    *)
(* promise.                                                                *)
THEOREM Implementation == Spec => ImplementsTupleVerdict
<1>1. Init => Abstract!Init
  BY DEF Init, Abstract!Init
<1>2. IInv /\ [Next]_vars
        => [Abstract!Next]_<<\E T \in Tuples : ~Holds(T), exact, verdict>>
  <2> SUFFICES ASSUME IInv, [Next]_vars, verdict' # verdict PROVE Abstract!Next
    <3>1. IInv /\ [Next]_vars => UNCHANGED <<\E T \in Tuples : ~Holds(T), exact>>
      BY InputsFixed, InputsKept DEF IInv, inputs
    <3> QED
      BY <3>1
  <2>1. UNCHANGED inputs
    BY InputsFixed
  <2>2. /\ UNCHANGED exact
        /\ (\E T \in Tuples : ~Holds(T))' <=> \E T \in Tuples : ~Holds(T)
    BY <2>1, InputsKept DEF IInv, inputs
  <2>3. ASSUME NEW c \in pending, Check(c) PROVE Abstract!Next
    <3>1. verdict = "none" /\ verdict' = "leak"
      BY <2>3 DEF Check, IInv, TypeOK
    <3>2. exact => \E T \in Tuples : ~Holds(T)
      <4>1. LeakFound'
        BY NextIInv DEF IInv
      <4> QED
        BY <2>2, <3>1, <4>1 DEF LeakFound
    <3> QED
      BY <2>2, <3>1, <3>2 DEF Abstract!Next, Abstract!Leak
  <2>4. CASE Return
    <3>1. verdict = "none" /\ verdict' = "secure" /\ Open = {}
      BY <2>4 DEF Return, IInv, TypeOK, Open
    <3>2. ~ \E T \in Tuples : ~Holds(T)
      BY <3>1 DEF IInv, NoneForgotten
    <3> QED
      BY <2>2, <3>1, <3>2 DEF Abstract!Next, Abstract!Secure
  <2> QED
    BY <2>3, <2>4 DEF Next, vars, Abort, TooFew, Extend, Split
<1> QED
  BY <1>1, <1>2, Invariance, PTL DEF Spec, ImplementsTupleVerdict, Abstract!Spec
=============================================================================
