------------------------- MODULE SumProperty_proofs -------------------------
(***************************************************************************)
(* checkProperty on sums of words, proved for words of every width and     *)
(* every set of sums: an exchange that is its own way back, or of a mask   *)
(* that occurs nowhere else, leaves the joint distribution of the tuple as *)
(* it was, and as long as the loop makes no others its verdict is that of  *)
(* the enumeration of all values.                                          *)
(***************************************************************************)
EXTENDS SumProperty, MaskChoice_proofs, FunctionTheorems

Env == [WordSymbol -> Words]

-----------------------------------------------------------------------------
(* Words.                                                                  *)

(* Words with Plus and Opposite are a commutative group.                   *)
LEMMA PlusGroup ==
    /\ 0 \in Words
    /\ \A a, b \in Words : Plus(a, b) \in Words /\ Plus(a, b) = Plus(b, a)
    /\ \A a, b, c \in Words : Plus(a, c) = Plus(b, c) => a = b
    /\ \A a, c \in Words : \E b \in Words : Plus(b, c) = a
    /\ \A a \in Words : Opposite(a) \in Words /\ Opposite(Opposite(a)) = a
<1> DEFINE N == WordCount
<1>1. N \in Nat \ {0} /\ Words = 0 .. N - 1
  BY WordWidthAssumption DEF Words
<1>2. /\ \A a, b : Plus(a, b) = IF a + b < N THEN a + b ELSE a + b - N
      /\ \A a : Opposite(a) = IF a = 0 THEN 0 ELSE N - a
  BY DEF Plus, Opposite
<1> HIDE DEF N
<1>3. \A a \in Words : a \in Nat /\ a < N
  BY <1>1
<1>4. \A a \in Nat : a < N => a \in Words
  BY <1>1
<1>5. 0 \in Words
  BY <1>1
<1>6. ASSUME NEW a \in Words, NEW b \in Words PROVE Plus(a, b) \in Words /\ Plus(a, b) = Plus(b, a)
  <2>1. a \in Nat /\ b \in Nat /\ a < N /\ b < N /\ N \in Nat
    BY <1>1, <1>3
  <2>2. Plus(a, b) \in Nat /\ Plus(a, b) < N /\ Plus(a, b) = Plus(b, a)
    BY <1>2, <2>1
  <2>3. QED
    BY <1>4, <2>2
<1>7. ASSUME NEW a \in Words, NEW b \in Words, NEW c \in Words, Plus(a, c) = Plus(b, c) PROVE a = b
  <2>1. a \in Nat /\ b \in Nat /\ c \in Nat /\ a < N /\ b < N /\ c < N /\ N \in Nat
    BY <1>1, <1>3
  <2>2. QED
    BY <1>2, <1>7, <2>1
<1>8. ASSUME NEW a \in Words, NEW c \in Words PROVE \E b \in Words : Plus(b, c) = a
  <2>1. a \in Nat /\ c \in Nat /\ a < N /\ c < N /\ N \in Nat
    BY <1>1, <1>3
  <2> DEFINE b == IF c <= a THEN a - c ELSE a + N - c
  <2>2. b \in Nat /\ b < N /\ Plus(b, c) = a
    BY <1>2, <2>1
  <2> HIDE DEF b
  <2>3. QED
    BY <1>4, <2>2
<1>9. ASSUME NEW a \in Words PROVE Opposite(a) \in Words /\ Opposite(Opposite(a)) = a
  <2>1. a \in Nat /\ a < N /\ N \in Nat /\ N # 0
    BY <1>1, <1>3
  <2>2. Opposite(a) \in Nat /\ Opposite(a) < N
    BY <1>2, <2>1
  <2>3. Opposite(Opposite(a)) = a
    BY <1>2, <2>1
  <2>4. QED
    BY <1>4, <2>2, <2>3
<1>10. QED
  BY <1>5, <1>6, <1>7, <1>8, <1>9

(* The values of the symbols when m takes the word x.                      *)
With(v, m, x) == [v EXCEPT ![m] = x]

LEMMA WithFacts ==
    ASSUME NEW v \in Env, NEW m \in WordSymbol, NEW x \in Words
    PROVE  /\ With(v, m, x) \in Env
           /\ With(v, m, x)[m] = x
           /\ \A y \in WordSymbol : y # m => With(v, m, x)[y] = v[y]
           /\ v[m] \in Words /\ With(v, m, v[m]) = v
           /\ \A z : With(With(v, m, x), m, z) = With(v, m, z)
BY DEF With, Env

-----------------------------------------------------------------------------
(* Sums.                                                                   *)

(* Every nonempty set of sums holds one none of whose operands is in it.   *)
LEMMA LowestSum ==
    ASSUME NEW B \in SUBSET SumNode, B # {}
    PROVE  \E n \in B : \A c \in Operands(n) : c \in SumNode /\ c \notin B
BY SumTreesAssumption, LowestTree

(* The kinds of expressions.                                               *)
LEMMA KindsOfSums ==
    ASSUME NEW n \in SumNode
    PROVE  \/ n.op = "CONST" /\ n = Zero
           \/ n.op = "SYMB" /\ n = Symb(n.symb) /\ n.symb \in (Secret \cup Mask) \cap WordSymbol
           \/ /\ n.op = "UMINUS" /\ Operands(n) = {TheOperand(n)} /\ TheOperand(n) \in SumNode
              /\ DOMAIN n.args = {TheOperand(n)} /\ Copies(TheOperand(n), n) = 1
           \/ /\ n.op = "PLUS" /\ Operands(n) = DOMAIN n.args /\ IsFiniteSet(Operands(n))
              /\ \A c \in Operands(n) : Copies(c, n) \in Nat \ {0}
<1>1. CASE n = Zero
  BY <1>1 DEF Zero, Const
<1>2. CASE \E s \in Secret \cup Mask : n = Symb(s)
  <2>1. n.op = "SYMB" /\ n = Symb(n.symb) /\ n.symb \in Secret \cup Mask
    BY <1>2 DEF Symb
  <2>2. Symbols(n) = {n.symb}
    BY <2>1, SumTreesAssumption DEF AreTrees
  <2>3. n.symb \in WordSymbol
    BY <2>2, WordSymbolAssumption
  <2>4. QED
    BY <2>1, <2>3
<1>3. CASE \E e \in SumNode : n = Neg(e)
  <2>1. PICK e \in SumNode : n = Neg(e)
    BY <1>3
  <2>2. n.op = "UMINUS" /\ n.args = [x \in {e} |-> 1]
    BY <2>1 DEF Neg
  <2>3. DOMAIN n.args = {e} /\ n.args[e] = 1
    BY <2>2
  <2>4. Operands(n) = {e} /\ Copies(e, n) = 1
    BY <2>2, <2>3 DEF Operands, IsLeaf, Copies
  <2>5. TheOperand(n) = e
    BY <2>4 DEF TheOperand
  <2>6. QED
    BY <2>2, <2>3, <2>4, <2>5
<1>4. CASE /\ n.op = "PLUS" /\ n = Sum(n.args) /\ IsFiniteSet(DOMAIN n.args)
           /\ \A c \in DOMAIN n.args : n.args[c] \in Nat \ {0}
  BY <1>4 DEF Operands, IsLeaf, Copies
<1>5. QED
  BY <1>1, <1>2, <1>3, <1>4, SumNodeAssumption

(* What an expression means, kind by kind.                                 *)
LEMMA WordValues ==
    ASSUME NEW n \in SumNode, NEW v \in Env
    PROVE  /\ n.op = "CONST" => WordValue(n, v) = 0
           /\ n.op = "SYMB" => WordValue(n, v) = v[n.symb]
           /\ n.op = "UMINUS" => WordValue(n, v) = Opposite(WordValue(TheOperand(n), v))
           /\ n.op = "PLUS" => WordValue(n, v) = PartialSum(n, Positions(n), v)
BY WordValueAssumption DEF WordValueOf, Env

(* The operands are sums, and only finitely many positions hold them.      *)
LEMMA PositionsOfSums ==
    ASSUME NEW n \in SumNode
    PROVE  /\ \A c \in Operands(n) : c \in SumNode
           /\ \A p \in Positions(n) : p[1] \in Operands(n) /\ p[2] \in 1 .. Copies(p[1], n) /\ p = <<p[1], p[2]>>
           /\ \A c \in Operands(n) : \A i \in 1 .. Copies(c, n) : <<c, i>> \in Positions(n)
           /\ n.op \in {"PLUS", "UMINUS"} => IsFiniteSet(Positions(n))
<1>1. \A c \in Operands(n) : c \in SumNode
  BY SumTreesAssumption DEF AreTrees
<1>2. \A p \in Positions(n) : p[1] \in Operands(n) /\ p[2] \in 1 .. Copies(p[1], n) /\ p = <<p[1], p[2]>>
  BY DEF Positions
<1>3. \A c \in Operands(n) : \A i \in 1 .. Copies(c, n) : <<c, i>> \in Positions(n)
  BY DEF Positions
<1>4. ASSUME n.op \in {"PLUS", "UMINUS"} PROVE IsFiniteSet(Positions(n))
  <2> DEFINE At(c) == {<<c, i>> : i \in 1 .. Copies(c, n)}
             D == Operands(n)
             F == {At(c) : c \in D}
             g == [c \in D |-> At(c)]
  <2>1. IsFiniteSet(D) /\ \A c \in D : Copies(c, n) \in Nat
    BY <1>4, KindsOfSums, FS_Singleton
  <2>2. ASSUME NEW c \in D PROVE IsFiniteSet(At(c))
    <3> DEFINE I == 1 .. Copies(c, n)
               h == [i \in I |-> <<c, i>>]
    <3>1. IsFiniteSet(I)
      BY <2>1, FS_Interval
    <3>2. h \in [I -> At(c)] /\ \A t \in At(c) : \E i \in I : h[i] = t
      OBVIOUS
    <3> HIDE DEF h, I, At
    <3>3. h \in Surjection(I, At(c))
      BY <3>2, Fun_IsSurj
    <3>4. QED
      BY <3>1, <3>3, FS_Surjection
  <2>3. g \in [D -> F] /\ \A t \in F : \E c \in D : g[c] = t
    OBVIOUS
  <2>4. Positions(n) = UNION F
    BY DEF Positions
  <2>5. \A T \in F : IsFiniteSet(T)
    BY <2>2
  <2> HIDE DEF g, D, F
  <2>6. g \in Surjection(D, F)
    BY <2>3, Fun_IsSurj
  <2>7. IsFiniteSet(F)
    BY <2>1, <2>6, FS_Surjection
  <2>8. QED
    BY <2>4, <2>5, <2>7, FS_UNION
<1>5. QED
  BY <1>1, <1>2, <1>3, <1>4

(* Induction on finite sets: some bad set has no bad set one smaller.      *)
LEMMA SmallestSubset ==
    ASSUME NEW S, IsFiniteSet(S), NEW B \in SUBSET SUBSET S, B # {}
    PROVE  \E P \in B : IsFiniteSet(P) /\ \A p \in P : P \ {p} \notin B
<1> DEFINE H == {Cardinality(P) : P \in B}
<1>1. \A P \in B : IsFiniteSet(P) /\ Cardinality(P) \in Nat
  BY FS_Subset, FS_CardinalityType
<1>2. H \in SUBSET Nat /\ H # {}
  BY <1>1
<1>3. PICK k \in H : \A j \in H : k <= j
  BY <1>2, LeastNumber
<1>4. PICK P \in B : k = Cardinality(P)
  BY <1>3
<1>5. \A Q \in B : Cardinality(P) <= Cardinality(Q)
  BY <1>3, <1>4
<1> HIDE DEF H
<1>6. ASSUME NEW p \in P PROVE P \ {p} \notin B
  <2>1. Cardinality(P \ {p}) = Cardinality(P) - 1 /\ Cardinality(P) \in Nat
    BY <1>1, FS_RemoveElement
  <2>2. ~(Cardinality(P) <= Cardinality(P \ {p}))
    BY <2>1
  <2>3. QED
    BY <1>5, <2>2
<1>7. QED
  BY <1>1, <1>6

(* The sum of words is a word.                                             *)
LEMMA PartialWords ==
    ASSUME NEW n \in SumNode, n.op = "PLUS", NEW v \in Env,
           \A c \in Operands(n) : WordValue(c, v) \in Words, NEW P \in SUBSET Positions(n)
    PROVE  PartialSum(n, P, v) \in Words
<1> DEFINE B == {Q \in SUBSET Positions(n) : PartialSum(n, Q, v) \notin Words}
<1> SUFFICES ASSUME B # {} PROVE FALSE
  OBVIOUS
<1>1. PICK Q \in B : \A p \in Q : Q \ {p} \notin B
  BY PositionsOfSums, SmallestSubset
<1>2. Q \in SUBSET Positions(n) /\ PartialSum(n, Q, v) \notin Words
  BY <1>1
<1>3. \A p \in Q : PartialSum(n, Q \ {p}, v) \in Words
  BY <1>1, <1>2
<1> HIDE DEF B
<1>4. CASE Q = {}
  <2>1. PartialSum(n, {}, v) = 0
    BY PartialSumAssumption DEF Env
  <2>2. QED
    BY <1>2, <1>4, <2>1, PlusGroup
<1>5. CASE Q # {}
  <2>1. PICK p \in Q : TRUE
    BY <1>5
  <2>2. PartialSum(n, Q, v) = Plus(WordValue(p[1], v), PartialSum(n, Q \ {p}, v))
    BY <1>2, PartialSumAssumption DEF Env
  <2>3. WordValue(p[1], v) \in Words
    BY <1>2, PositionsOfSums
  <2>4. QED
    BY <1>2, <1>3, <2>2, <2>3, PlusGroup
<1>6. QED
  BY <1>4, <1>5

(* Every value is a word.                                                  *)
LEMMA ValuesAreWords == \A n \in SumNode, v \in Env : WordValue(n, v) \in Words
<1> SUFFICES ASSUME NEW v \in Env PROVE \A n \in SumNode : WordValue(n, v) \in Words
  OBVIOUS
<1> DEFINE B == {n \in SumNode : WordValue(n, v) \notin Words}
<1> SUFFICES ASSUME B # {} PROVE FALSE
  OBVIOUS
<1>0. B \in SUBSET SumNode
  OBVIOUS
<1> HIDE DEF B
<1>1. PICK n \in B : \A c \in Operands(n) : c \in SumNode /\ c \notin B
  BY <1>0, LowestSum
<1>2. n \in SumNode /\ WordValue(n, v) \notin Words /\ \A c \in Operands(n) : WordValue(c, v) \in Words
  BY <1>1 DEF B
<1>3. CASE n.op = "CONST"
  BY <1>2, <1>3, WordValues, PlusGroup
<1>4. CASE n.op = "SYMB"
  <2>1. n.symb \in WordSymbol
    BY <1>2, <1>4, KindsOfSums
  <2>2. QED
    BY <1>2, <1>4, <2>1, WordValues DEF Env
<1>5. CASE n.op = "UMINUS"
  <2>1. TheOperand(n) \in Operands(n)
    BY <1>2, <1>5, KindsOfSums
  <2>2. WordValue(n, v) = Opposite(WordValue(TheOperand(n), v))
    BY <1>2, <1>5, WordValues
  <2>3. QED
    BY <1>2, <2>1, <2>2, PlusGroup
<1>6. CASE n.op = "PLUS"
  BY <1>2, <1>6, WordValues, PartialWords
<1>7. QED
  BY <1>2, <1>3, <1>4, <1>5, <1>6, KindsOfSums

(* Sums of as many operands of equal values are equal: B says which one    *)
(* corresponds to which.                                                   *)
LEMMA PartialMatches ==
    ASSUME NEW e \in SumNode, e.op = "PLUS", NEW u \in Env, NEW r \in SumNode, NEW v \in Env,
           NEW R \in SUBSET Positions(e), NEW B \in [R -> Positions(r)],
           \A p, q \in R : B[p] = B[q] => p = q,
           \A p \in R : WordValue(p[1], u) = WordValue(B[p][1], v)
    PROVE  PartialSum(e, R, u) = PartialSum(r, {B[p] : p \in R}, v)
<1> DEFINE Im(P) == {B[p] : p \in P}
           Bad == {P \in SUBSET R : PartialSum(e, P, u) # PartialSum(r, Im(P), v)}
<1> SUFFICES ASSUME Bad # {} PROVE FALSE
  OBVIOUS
<1>0. IsFiniteSet(R)
  BY PositionsOfSums, FS_Subset
<1>1. PICK P \in Bad : \A p \in P : P \ {p} \notin Bad
  BY <1>0, SmallestSubset
<1>2. P \in SUBSET R /\ PartialSum(e, P, u) # PartialSum(r, Im(P), v)
  BY <1>1
<1>3. \A p \in P : PartialSum(e, P \ {p}, u) = PartialSum(r, Im(P \ {p}), v)
  BY <1>1, <1>2
<1>4. \A Q \in SUBSET R : Q \in SUBSET Positions(e) /\ Im(Q) \in SUBSET Positions(r)
  OBVIOUS
<1> HIDE DEF Bad
<1>5. CASE P = {}
  <2>1. Im(P) = {}
    BY <1>5
  <2>2. PartialSum(e, {}, u) = 0 /\ PartialSum(r, {}, v) = 0
    BY PartialSumAssumption DEF Env
  <2>3. QED
    BY <1>2, <1>5, <2>1, <2>2
<1>6. CASE P # {}
  <2>1. PICK p \in P : TRUE
    BY <1>6
  <2>2. PartialSum(e, P, u) = Plus(WordValue(p[1], u), PartialSum(e, P \ {p}, u))
    BY <1>2, <1>4, PartialSumAssumption DEF Env
  <2>3. B[p] \in Im(P) /\ Im(P \ {p}) = Im(P) \ {B[p]}
    BY <1>2
  <2>4. Im(P) \in SUBSET Positions(r)
    BY <1>2, <1>4
  <2> HIDE DEF Im
  <2>5. PartialSum(r, Im(P), v) = Plus(WordValue(B[p][1], v), PartialSum(r, Im(P) \ {B[p]}, v))
    BY <2>3, <2>4, PartialSumAssumption DEF Env
  <2>6. WordValue(p[1], u) = WordValue(B[p][1], v)
    BY <1>2
  <2>7. QED
    BY <1>2, <1>3, <2>2, <2>3, <2>5, <2>6
<1>7. QED
  BY <1>5, <1>6

(* The same operands with the same values have the same sum.               *)
LEMMA PartialSame ==
    ASSUME NEW n \in SumNode, n.op = "PLUS", NEW u \in Env, NEW v \in Env, NEW P \in SUBSET Positions(n),
           \A p \in P : WordValue(p[1], u) = WordValue(p[1], v)
    PROVE  PartialSum(n, P, u) = PartialSum(n, P, v)
<1> DEFINE B == [p \in P |-> p]
<1>1. /\ B \in [P -> Positions(n)] /\ \A p, q \in P : B[p] = B[q] => p = q
      /\ \A p \in P : B[p][1] = p[1]
      /\ {B[p] : p \in P} = P
  OBVIOUS
<1> HIDE DEF B
<1>2. PartialSum(n, P, u) = PartialSum(n, {B[p] : p \in P}, v)
  BY <1>1, PartialMatches
<1>3. QED
  BY <1>1, <1>2

(* The value of a sum depends on the symbols that occur in it.             *)
LEMMA ValueOfSymbols ==
    ASSUME NEW u \in Env, NEW v \in Env
    PROVE  \A n \in SumNode : (\A x \in Symbols(n) : u[x] = v[x]) => WordValue(n, u) = WordValue(n, v)
<1> DEFINE B == {n \in SumNode : (\A x \in Symbols(n) : u[x] = v[x]) /\ WordValue(n, u) # WordValue(n, v)}
<1> SUFFICES ASSUME B # {} PROVE FALSE
  OBVIOUS
<1>0. B \in SUBSET SumNode
  OBVIOUS
<1> HIDE DEF B
<1>1. PICK n \in B : \A c \in Operands(n) : c \in SumNode /\ c \notin B
  BY <1>0, LowestSum
<1>2. /\ n \in SumNode /\ (\A x \in Symbols(n) : u[x] = v[x]) /\ WordValue(n, u) # WordValue(n, v)
      /\ \A c \in Operands(n) : c \in SumNode /\ ((\A x \in Symbols(c) : u[x] = v[x]) => WordValue(c, u) = WordValue(c, v))
  BY <1>1 DEF B
<1>3. Symbols(n) = IF n.op = "SYMB" THEN {n.symb} ELSE UNION {Symbols(c) : c \in Operands(n)}
  BY <1>2, SumTreesAssumption DEF AreTrees
<1>4. n.op # "SYMB" => \A c \in Operands(n) : WordValue(c, u) = WordValue(c, v)
  BY <1>2, <1>3
<1>5. CASE n.op = "CONST"
  BY <1>2, <1>5, WordValues
<1>6. CASE n.op = "SYMB"
  BY <1>2, <1>3, <1>6, WordValues
<1>7. CASE n.op = "UMINUS"
  <2>1. TheOperand(n) \in Operands(n)
    BY <1>2, <1>7, KindsOfSums
  <2>2. WordValue(n, u) = Opposite(WordValue(TheOperand(n), u)) /\ WordValue(n, v) = Opposite(WordValue(TheOperand(n), v))
    BY <1>2, <1>7, WordValues
  <2>3. QED
    BY <1>2, <1>4, <1>7, <2>1, <2>2
<1>8. CASE n.op = "PLUS"
  <2>1. \A p \in Positions(n) : WordValue(p[1], u) = WordValue(p[1], v)
    BY <1>2, <1>4, <1>8, PositionsOfSums
  <2>2. PartialSum(n, Positions(n), u) = PartialSum(n, Positions(n), v)
    BY <1>2, <1>8, <2>1, PartialSame
  <2>3. QED
    BY <1>2, <1>8, <2>2, WordValues
<1>9. QED
  BY <1>2, <1>5, <1>6, <1>7, <1>8, KindsOfSums

-----------------------------------------------------------------------------
(* The masks that hide a sum.                                              *)

(* The mask m hides n: for all values of the others, n takes every word    *)
(* once as m does.                                                         *)
HidesWord(m, n) ==
    /\ m \in Mask \cap WordSymbol
    /\ \A v \in Env :
          /\ \A x, y \in Words : WordValue(n, With(v, m, x)) = WordValue(n, With(v, m, y)) => x = y
          /\ \A z \in Words : \E x \in Words : WordValue(n, With(v, m, x)) = z

(* A mask that hides a single operand of a sum and occurs in no other      *)
(* hides the sum.                                                          *)
LEMMA SumHidden ==
    ASSUME NEW n \in SumNode, n.op = "PLUS", NEW m, NEW c \in Operands(n), HidesWord(m, c),
           Copies(c, n) = 1, \A d \in Operands(n) \ {c} : m \notin Symbols(d)
    PROVE  HidesWord(m, n)
<1> SUFFICES ASSUME NEW v \in Env
             PROVE  /\ \A x, y \in Words : WordValue(n, With(v, m, x)) = WordValue(n, With(v, m, y)) => x = y
                    /\ \A z \in Words : \E x \in Words : WordValue(n, With(v, m, x)) = z
  BY DEF HidesWord
<1> DEFINE P == Positions(n) \ {<<c, 1>>}
           rest == PartialSum(n, P, v)
           f(x) == WordValue(c, With(v, m, x))
<1>1. m \in WordSymbol /\ \A x \in Words : With(v, m, x) \in Env
  BY WithFacts DEF HidesWord
<1>2. \A p \in P : p \in Positions(n) /\ p[1] \in SumNode /\ m \notin Symbols(p[1])
  <2> SUFFICES ASSUME NEW p \in P PROVE p[1] \in SumNode /\ p[1] \in Operands(n) \ {c}
    OBVIOUS
  <2>1. p[1] \in Operands(n) /\ p[2] \in 1 .. Copies(p[1], n) /\ p = <<p[1], p[2]>>
    BY PositionsOfSums
  <2>2. p[1] # c
    BY <2>1
  <2>3. QED
    BY <2>1, <2>2, PositionsOfSums
<1>3. <<c, 1>> \in Positions(n) /\ P \in SUBSET Positions(n)
  BY PositionsOfSums
<1>4. ASSUME NEW x \in Words PROVE PartialSum(n, P, With(v, m, x)) = rest
  <2>1. \A p \in P : WordValue(p[1], With(v, m, x)) = WordValue(p[1], v)
    <3> SUFFICES ASSUME NEW p \in P PROVE WordValue(p[1], With(v, m, x)) = WordValue(p[1], v)
      OBVIOUS
    <3>1. p[1] \in SumNode /\ m \notin Symbols(p[1])
      BY <1>2
    <3>2. \A y \in Symbols(p[1]) : y \in WordSymbol /\ y # m
      BY <3>1, WordSymbolAssumption
    <3>3. \A y \in Symbols(p[1]) : With(v, m, x)[y] = v[y]
      BY <1>1, <3>2, WithFacts
    <3>4. QED
      BY <1>1, <3>1, <3>3, ValueOfSymbols
  <2> HIDE DEF P
  <2>2. QED
    BY <1>1, <1>3, <2>1, PartialSame
<1>5. ASSUME NEW x \in Words PROVE WordValue(n, With(v, m, x)) = Plus(f(x), rest) /\ f(x) \in Words
  <2>1. WordValue(n, With(v, m, x)) = PartialSum(n, Positions(n), With(v, m, x))
    BY <1>1, WordValues
  <2>2. PartialSum(n, Positions(n), With(v, m, x)) = Plus(WordValue(c, With(v, m, x)), PartialSum(n, P, With(v, m, x)))
    <3> DEFINE u == With(v, m, x)
               p == <<c, 1>>
    <3>1. u \in Env /\ p \in Positions(n) /\ p[1] = c
      BY <1>1, <1>3
    <3> HIDE DEF u, p
    <3>2. PartialSum(n, Positions(n), u) = Plus(WordValue(p[1], u), PartialSum(n, Positions(n) \ {p}, u))
      BY <3>1, PartialSumAssumption DEF Env
    <3>3. QED
      BY <3>1, <3>2 DEF u, p
  <2>3. c \in SumNode
    BY PositionsOfSums
  <2> HIDE DEF P, rest
  <2>4. QED
    BY <1>1, <1>4, <2>1, <2>2, <2>3, ValuesAreWords
<1>6. rest \in Words
  <2>1. \A d \in Operands(n) : WordValue(d, v) \in Words
    BY PositionsOfSums, ValuesAreWords
  <2> HIDE DEF P
  <2>2. QED
    BY <1>3, <2>1, PartialWords
<1>7. /\ \A x, y \in Words : f(x) = f(y) => x = y
      /\ \A z \in Words : \E x \in Words : f(x) = z
  BY DEF HidesWord
<1> HIDE DEF rest, f
<1>8. ASSUME NEW x \in Words, NEW y \in Words, WordValue(n, With(v, m, x)) = WordValue(n, With(v, m, y))
      PROVE  x = y
  <2>1. f(x) = f(y)
    BY <1>5, <1>6, <1>8, PlusGroup
  <2>2. QED
    BY <1>7, <2>1
<1>9. ASSUME NEW z \in Words PROVE \E x \in Words : WordValue(n, With(v, m, x)) = z
  <2>1. PICK b \in Words : Plus(b, rest) = z
    BY <1>6, PlusGroup
  <2>2. PICK x \in Words : f(x) = b
    BY <1>7
  <2>3. QED
    BY <1>5, <2>1, <2>2
<1>10. QED
  BY <1>8, <1>9

(* A mask that hides a sum hides its opposite.                             *)
LEMMA OppositeHidden ==
    ASSUME NEW n \in SumNode, n.op = "UMINUS", NEW m, NEW c \in Operands(n), HidesWord(m, c)
    PROVE  HidesWord(m, n)
<1> SUFFICES ASSUME NEW v \in Env
             PROVE  /\ \A x, y \in Words : WordValue(n, With(v, m, x)) = WordValue(n, With(v, m, y)) => x = y
                    /\ \A z \in Words : \E x \in Words : WordValue(n, With(v, m, x)) = z
  BY DEF HidesWord
<1> DEFINE f(x) == WordValue(c, With(v, m, x))
<1>1. \A x \in Words : With(v, m, x) \in Env
  BY WithFacts DEF HidesWord
<1>2. c = TheOperand(n) /\ c \in SumNode
  BY KindsOfSums, PositionsOfSums
<1>3. \A x \in Words : WordValue(n, With(v, m, x)) = Opposite(f(x)) /\ f(x) \in Words
  BY <1>1, <1>2, WordValues, ValuesAreWords
<1>4. /\ \A x, y \in Words : f(x) = f(y) => x = y
      /\ \A z \in Words : \E x \in Words : f(x) = z
  BY DEF HidesWord
<1> HIDE DEF f
<1>5. ASSUME NEW x \in Words, NEW y \in Words, WordValue(n, With(v, m, x)) = WordValue(n, With(v, m, y))
      PROVE  x = y
  <2>1. f(x) = f(y)
    BY <1>3, <1>5, PlusGroup
  <2>2. QED
    BY <1>4, <2>1
<1>6. ASSUME NEW z \in Words PROVE \E x \in Words : WordValue(n, With(v, m, x)) = z
  <2>1. Opposite(z) \in Words /\ Opposite(Opposite(z)) = z
    BY PlusGroup
  <2>2. PICK x \in Words : f(x) = Opposite(z)
    BY <1>4, <2>1
  <2>3. QED
    BY <1>3, <2>1, <2>2
<1>7. QED
  BY <1>5, <1>6

HidingWords == {p \in Mask \X SumNode : HidesWord(p[1], p[2])}

LEMMA HidingWordPairs == \A m, n : <<m, n>> \in HidingWords <=> n \in SumNode /\ HidesWord(m, n)
BY DEF HidingWords, HidesWord

(* The rules by which a mask comes to hide a node hold for sums.           *)
LEMMA HidingRules == IsHiding(HidingWords, SumNode)
<1>1. \A m, n : <<m, n>> \in HidingWords => m \in Mask
  BY HidingWordPairs DEF HidesWord
<1>2. \A n \in SumNode : n.op \in {"CONST", "SYMB", "UMINUS", "PLUS"}
  BY KindsOfSums
<1>3. ASSUME NEW n \in SumNode, n.op = "SYMB", n.symb \in Mask PROVE HidesWord(n.symb, n)
  <2> DEFINE m == n.symb
  <2>1. m \in Mask \cap WordSymbol
    BY <1>3, KindsOfSums
  <2>2. \A v \in Env : WordValue(n, v) = v[m]
    BY <1>3, WordValues
  <2> HIDE DEF m
  <2>3. \A v \in Env : \A x \in Words : WordValue(n, With(v, m, x)) = x
    BY <2>1, <2>2, WithFacts
  <2>4. HidesWord(m, n)
    BY <2>1, <2>3 DEF HidesWord
  <2>5. QED
    BY <2>4 DEF m
<1>4. ASSUME NEW n \in SumNode, NEW m, NEW c \in Operands(n), <<m, c>> \in HidingWords, n.op = "UMINUS"
      PROVE  <<m, n>> \in HidingWords
  BY <1>4, HidingWordPairs, OppositeHidden
<1>5. ASSUME NEW n \in SumNode, NEW m, NEW c \in Operands(n), <<m, c>> \in HidingWords, n.op = "PLUS",
             Copies(c, n) = 1, \A d \in Operands(n) \ {c} : m \notin Symbols(d)
      PROVE  <<m, n>> \in HidingWords
  BY <1>5, HidingWordPairs, SumHidden
<1>6. \A n \in SumNode : n.op \in KnownOps /\ n.op # "BNOT" /\ n.op # "BXOR"
  BY <1>2 DEF KnownOps
<1>7. QED
  BY <1>1, <1>3, <1>4, <1>5, <1>6, HidingWordPairs DEF IsHiding

(* What is exchanged is a mask with a sum that it hides.                   *)
LEMMA HiddenSums ==
    ASSUME NEW s \in SumTuple, NEW p \in Hidden(s)
    PROVE  p[2] \in SumNode /\ HidesWord(p[1], p[2])
<1>1. AreTrees(SumNode) /\ AreTuples(SumTuple, SumNode) /\ IsHiding(HidingWords, SumNode)
  BY SumTreesAssumption, HidingRules
<1>2. p[2] \in SumNode /\ <<p[1], p[2]>> \in HidingWords
  BY <1>1, HiddenInTuple
<1>3. QED
  BY <1>2, HidingWordPairs

(* A tuple that a mask hides is a single expression.                       *)
LEMMA MaskedSums ==
    ASSUME NEW s \in SumTuple, IsMasked(s)
    PROVE  \E e \in SumNode, m \in Mask : ToSet(s) = {e} /\ HidesWord(m, e)
<1>1. AreTrees(SumNode) /\ AreTuples(SumTuple, SumNode) /\ IsHiding(HidingWords, SumNode)
  BY SumTreesAssumption, HidingRules
<1>2. \E e \in SumNode, m \in Mask : ToSet(s) = {e} /\ <<m, e>> \in HidingWords
  BY <1>1, TuplesRemember, SMTT(30)
<1>3. QED
  BY <1>2, HidingWordPairs

(* The expressions of a tuple.                                             *)
LEMMA SumsOfTuple ==
    ASSUME NEW s \in SumTuple
    PROVE  /\ \A i \in DOMAIN s : s[i] \in SumNode /\ s[i] \in NodesOf(s) /\ s[i] \in ToSet(s)
           /\ NodesOf(s) \subseteq SumNode /\ \A e \in NodesOf(s) : Operands(e) \subseteq NodesOf(s)
<1>1. \A i \in DOMAIN s : s[i] \in SumNode /\ s[i] \in NodesOf(s) /\ s[i] \in ToSet(s)
  BY SumTreesAssumption, ExpressionsOfTuple
<1>2. QED
  BY <1>1, SumTreesAssumption DEF AreTuples

-----------------------------------------------------------------------------
(* The exchange of a mask with a sum that it hides.                        *)

(* A sum of operands that have changed their values changes its own as     *)
(* they do: equal ones are added up, and each position of e has one of its *)
(* own in the node rebuilt.                                                *)
LEMMA RebuiltPlus ==
    ASSUME NEW e \in SumNode, e.op = "PLUS", NEW f \in [Operands(e) -> SumNode],
           NEW r \in SumNode, r = RebuiltSum(e, f),
           NEW u \in Env, NEW v \in Env, \A c \in Operands(e) : WordValue(f[c], v) = WordValue(c, u)
    PROVE  WordValue(r, v) = WordValue(e, u)
<1> DEFINE From(d) == {p \in Positions(e) : f[p[1]] = d}
           I == {f[c] : c \in Operands(e)}
           C == [d \in I |-> CHOOSE b : b \in Bijection(From(d), 1 .. Cardinality(From(d)))]
           B == [p \in Positions(e) |-> <<f[p[1]], C[f[p[1]]][p]>>]
<1>1. r.op = "PLUS" /\ Operands(r) = I /\ \A d \in I : Copies(d, r) = Cardinality(From(d))
  <2>1. r.op = "PLUS" /\ r.args = [d \in I |-> Cardinality(From(d))]
    BY DEF RebuiltSum
  <2> HIDE DEF I, From
  <2>2. DOMAIN r.args = I /\ \A d \in I : r.args[d] = Cardinality(From(d))
    BY <2>1
  <2>3. QED
    BY <2>1, <2>2 DEF Operands, IsLeaf, Copies
<1>2. ASSUME NEW d \in I PROVE C[d] \in Bijection(From(d), 1 .. Cardinality(From(d)))
  <2>1. IsFiniteSet(From(d))
    BY PositionsOfSums, FS_Subset
  <2> DEFINE F == From(d)
             N == 1 .. Cardinality(F)
  <2>2. ExistsBijection(N, F)
    BY <2>1, FS_CardinalityType
  <2> HIDE DEF F, N
  <2>3. ExistsBijection(F, N)
    BY <2>2, Fun_ExistsBijSymmetric
  <2>4. \E b : b \in Bijection(F, N)
    BY <2>3 DEF ExistsBijection
  <2>5. (CHOOSE b : b \in Bijection(F, N)) \in Bijection(F, N)
    BY <2>4
  <2>6. QED
    BY <2>5 DEF F, N
<1>3. ASSUME NEW d \in I
      PROVE  /\ \A p \in From(d) : C[d][p] \in 1 .. Copies(d, r)
             /\ \A p, q \in From(d) : C[d][p] = C[d][q] => p = q
             /\ \A i \in 1 .. Copies(d, r) : \E p \in From(d) : C[d][p] = i
  <2> DEFINE b == C[d]
             F == From(d)
             N == 1 .. Cardinality(From(d))
  <2>1. b \in Bijection(F, N) /\ N = 1 .. Copies(d, r)
    BY <1>1, <1>2
  <2> HIDE DEF b, F, N
  <2>2. b \in [F -> N]
    BY <2>1, Fun_BijectionProperties
  <2>3. \A p, q \in F : b[p] = b[q] => p = q
    BY <2>1, <2>2 DEF Bijection, Injection, Surjection, IsInjective
  <2>4. \A i \in N : \E p \in F : b[p] = i
    BY <2>1, <2>2 DEF Bijection, Injection, Surjection, IsInjective
  <2>5. \A p \in F : b[p] \in N
    BY <2>2
  <2> HIDE DEF From, C
  <2>6. QED
    BY <2>1, <2>3, <2>4, <2>5 DEF b, F
<1>4. \A p \in Positions(e) : p[1] \in Operands(e) /\ f[p[1]] \in I /\ p \in From(f[p[1]])
  BY PositionsOfSums
<1>5. \A d : \A p \in From(d) : p \in Positions(e) /\ f[p[1]] = d
  OBVIOUS
<1>6. \A d, i : <<d, i>> \in Positions(r) <=> d \in I /\ i \in 1 .. Copies(d, r)
  <2>1. \A d, i : <<d, i>> \in Positions(r) <=> d \in Operands(r) /\ i \in 1 .. Copies(d, r)
    BY DEF Positions
  <2> HIDE DEF I
  <2>2. QED
    BY <1>1, <2>1
<1>7. \A p \in Positions(e) : B[p] = <<f[p[1]], C[f[p[1]]][p]>>
  OBVIOUS
<1> HIDE DEF From, I, C, B
<1>8. B \in [Positions(e) -> Positions(r)]
  <2>1. ASSUME NEW p \in Positions(e) PROVE B[p] \in Positions(r)
    <3> DEFINE d == f[p[1]]
    <3>1. d \in I /\ p \in From(d) /\ B[p] = <<d, C[d][p]>>
      BY <1>4, <1>7
    <3> HIDE DEF d
    <3>2. C[d][p] \in 1 .. Copies(d, r)
      BY <1>3, <3>1
    <3>3. QED
      BY <1>6, <3>1, <3>2
  <2>2. B = [p \in Positions(e) |-> B[p]]
    BY DEF B
  <2>3. QED
    BY <2>1, <2>2
<1>9. ASSUME NEW p \in Positions(e), NEW q \in Positions(e), B[p] = B[q] PROVE p = q
  <2> DEFINE d == f[p[1]]
  <2>1. f[q[1]] = d /\ C[d][p] = C[d][q]
    BY <1>7, <1>9
  <2>2. d \in I /\ p \in From(d) /\ q \in From(d)
    BY <1>4, <2>1
  <2> HIDE DEF d
  <2>3. QED
    BY <1>3, <2>1, <2>2
<1>10. \A p \in Positions(e) : WordValue(p[1], u) = WordValue(B[p][1], v)
  BY <1>4, <1>7
<1>11. {B[p] : p \in Positions(e)} = Positions(r)
  <2>1. ASSUME NEW t \in Positions(r) PROVE \E p \in Positions(e) : B[p] = t
    <3>1. t = <<t[1], t[2]>>
      BY PositionsOfSums
    <3>2. t[1] \in I /\ t[2] \in 1 .. Copies(t[1], r)
      BY <1>6, <3>1
    <3>3. PICK p \in From(t[1]) : C[t[1]][p] = t[2]
      BY <1>3, <3>2
    <3>4. p \in Positions(e) /\ f[p[1]] = t[1]
      BY <1>5
    <3>5. B[p] = t
      BY <1>7, <3>1, <3>3, <3>4
    <3>6. QED
      BY <3>4, <3>5
  <2>2. QED
    BY <1>8, <2>1
<1>12. PartialSum(e, Positions(e), u) = PartialSum(r, {B[p] : p \in Positions(e)}, v)
  <2> DEFINE R == Positions(e)
  <2>1. R \in SUBSET Positions(e) /\ B \in [R -> Positions(r)] /\ R = Positions(e)
    BY <1>8
  <2>2. (\A p, q \in R : B[p] = B[q] => p = q) /\ \A p \in R : WordValue(p[1], u) = WordValue(B[p][1], v)
    BY <1>9, <1>10
  <2> HIDE DEF R
  <2>3. PartialSum(e, R, u) = PartialSum(r, {B[p] : p \in R}, v)
    BY <2>1, <2>2, PartialMatches
  <2>4. QED
    BY <2>1, <2>3
<1>13. WordValue(e, u) = PartialSum(e, Positions(e), u) /\ WordValue(r, v) = PartialSum(r, Positions(r), v)
  <2>1. r.op = "PLUS"
    BY <1>1
  <2>2. \A n \in SumNode, w \in Env : n.op = "PLUS" => WordValue(n, w) = PartialSum(n, Positions(n), w)
    BY WordValues
  <2>3. QED
    BY <2>1, <2>2
<1>14. QED
  BY <1>11, <1>12, <1>13

(* The same for a negation.                                                *)
LEMMA RebuiltMinus ==
    ASSUME NEW e \in SumNode, e.op = "UMINUS", NEW f \in [Operands(e) -> SumNode],
           NEW r \in SumNode, r = RebuiltSum(e, f),
           NEW u \in Env, NEW v \in Env, \A c \in Operands(e) : WordValue(f[c], v) = WordValue(c, u)
    PROVE  WordValue(r, v) = WordValue(e, u)
<1> DEFINE c0 == TheOperand(e)
<1>1. Operands(e) = {c0}
  BY KindsOfSums
<1> HIDE DEF c0
<1>2. {f[c] : c \in Operands(e)} = {f[c0]}
  BY <1>1
<1>3. r.op = "UMINUS" /\ DOMAIN r.args = {f[c0]}
  BY <1>2 DEF RebuiltSum
<1>4. TheOperand(r) = f[c0]
  BY <1>3, KindsOfSums
<1>5. WordValue(f[c0], v) = WordValue(c0, u)
  BY <1>1
<1>6. WordValue(r, v) = Opposite(WordValue(f[c0], v)) /\ WordValue(e, u) = Opposite(WordValue(c0, u))
  BY <1>3, <1>4, WordValues DEF c0
<1>7. QED
  BY <1>5, <1>6

(* One step down: what is exchanged below e is exchanged in e.             *)
LEMMA ReplacedBelow ==
    ASSUME NEW s \in SumTuple, NEW p \in Hidden(s), NEW e \in NodesOf(s), e # p[2], e # Symb(p[1]),
           NEW u \in Env, NEW v \in Env, \A x \in WordSymbol : x # p[1] => u[x] = v[x],
           \A c \in Operands(e) : WordValue(ReplacedSum(c, p[1], p[2]), v) = WordValue(c, u)
    PROVE  WordValue(ReplacedSum(e, p[1], p[2]), v) = WordValue(e, u)
<1> DEFINE m == p[1]
           ctr == p[2]
           r == ReplacedSum(e, m, ctr)
           f == [c \in Operands(e) |-> ReplacedSum(c, m, ctr)]
<1>1. \A d \in NodesOf(s) : ReplacedSum(d, m, ctr) \in SumNode
  BY ReplacedSumAssumption
<1>2. e \in SumNode /\ r \in SumNode /\ f \in [Operands(e) -> SumNode]
  BY <1>1, SumsOfTuple
<1>3. r = ReplacedSumOf(e, m, ctr, f)
  BY ReplacedSumAssumption
<1>4. \A c \in Operands(e) : WordValue(f[c], v) = WordValue(c, u)
  OBVIOUS
<1> HIDE DEF m, ctr, r, f
<1>5. r = IF IsLeaf(e) THEN e ELSE RebuiltSum(e, f)
  BY <1>3 DEF ReplacedSumOf, m, ctr
<1>6. CASE e.op = "CONST"
  BY <1>2, <1>5, <1>6, WordValues DEF IsLeaf, r, m, ctr
<1>7. CASE e.op = "SYMB"
  <2>1. e = Symb(e.symb) /\ e.symb \in WordSymbol
    BY <1>2, <1>7, KindsOfSums
  <2>2. e.symb # p[1]
    BY <2>1
  <2>3. r = e
    BY <1>5, <1>7 DEF IsLeaf
  <2>4. WordValue(e, v) = v[e.symb] /\ WordValue(e, u) = u[e.symb]
    BY <1>2, <1>7, WordValues
  <2>5. QED
    BY <2>1, <2>2, <2>3, <2>4 DEF r, m, ctr
<1>8. CASE e.op = "PLUS"
  <2>1. r = RebuiltSum(e, f)
    BY <1>5, <1>8 DEF IsLeaf
  <2>2. WordValue(r, v) = WordValue(e, u)
    BY <1>2, <1>4, <1>8, <2>1, RebuiltPlus
  <2>3. QED
    BY <2>2 DEF r, m, ctr
<1>9. CASE e.op = "UMINUS"
  <2>1. r = RebuiltSum(e, f)
    BY <1>5, <1>9 DEF IsLeaf
  <2>2. WordValue(r, v) = WordValue(e, u)
    BY <1>2, <1>4, <1>9, <2>1, RebuiltMinus
  <2>3. QED
    BY <2>2 DEF r, m, ctr
<1>10. QED
  BY <1>2, <1>6, <1>7, <1>8, <1>9, KindsOfSums

(* When doing it again leads back, an expression has, after the exchange,  *)
(* the value it had when m took that of ctr.                               *)
LEMMA ReplacedInvolution ==
    ASSUME NEW s \in SumTuple, NEW p \in Hidden(s), IsInvolution(p[1], p[2]), NEW v \in Env
    PROVE  \A e \in NodesOf(s) :
              WordValue(ReplacedSum(e, p[1], p[2]), v) = WordValue(e, With(v, p[1], WordValue(p[2], v)))
<1> DEFINE u == With(v, p[1], WordValue(p[2], v))
           B == {e \in NodesOf(s) : WordValue(ReplacedSum(e, p[1], p[2]), v) # WordValue(e, u)}
<1>1. p[2] \in SumNode /\ p[1] \in WordSymbol
  BY HiddenSums DEF HidesWord
<1>2. WordValue(p[2], v) \in Words
  BY <1>1, ValuesAreWords
<1>3. u \in Env /\ u[p[1]] = WordValue(p[2], v) /\ \A x \in WordSymbol : x # p[1] => u[x] = v[x]
  BY <1>1, <1>2, WithFacts
<1>4. WordValue(p[2], u) = v[p[1]]
  BY DEF IsInvolution, With, Env
<1>5. \A e \in NodesOf(s) : /\ ReplacedSum(e, p[1], p[2]) \in SumNode
                            /\ e = p[2] => ReplacedSum(e, p[1], p[2]) = Symb(p[1])
                            /\ e # p[2] /\ e = Symb(p[1]) => ReplacedSum(e, p[1], p[2]) = p[2]
  BY ReplacedSumAssumption DEF ReplacedSumOf
<1>6. \A w \in Env : Symb(p[1]) \in SumNode => WordValue(Symb(p[1]), w) = w[p[1]]
  BY WordValues DEF Symb
<1> HIDE DEF u
<1> SUFFICES ASSUME B # {} PROVE FALSE
  BY DEF u
<1>7. B \in SUBSET SumNode
  BY SumsOfTuple
<1> HIDE DEF B
<1>8. PICK e \in B : \A c \in Operands(e) : c \in SumNode /\ c \notin B
  BY <1>7, LowestSum
<1>9. /\ e \in NodesOf(s) /\ e \in SumNode /\ WordValue(ReplacedSum(e, p[1], p[2]), v) # WordValue(e, u)
      /\ \A c \in Operands(e) : WordValue(ReplacedSum(c, p[1], p[2]), v) = WordValue(c, u)
  BY <1>8, SumsOfTuple DEF B
<1>10. CASE e = p[2]
  BY <1>4, <1>5, <1>6, <1>9, <1>10
<1>11. CASE e # p[2] /\ e = Symb(p[1])
  BY <1>3, <1>5, <1>6, <1>9, <1>11
<1>12. CASE e # p[2] /\ e # Symb(p[1])
  BY <1>3, <1>9, <1>12, ReplacedBelow
<1>13. QED
  BY <1>10, <1>11, <1>12

(* When m occurs nowhere but in ctr, an expression has, before the         *)
(* exchange, the value it has afterwards when m takes that of ctr.         *)
LEMMA ReplacedOnlyIn ==
    ASSUME NEW s \in SumTuple, NEW p \in Hidden(s), OnlyIn(p[1], p[2], s), NEW v \in Env
    PROVE  \A e \in ToSet(s) :
              WordValue(ReplacedSum(e, p[1], p[2]), With(v, p[1], WordValue(p[2], v))) = WordValue(e, v)
<1> DEFINE u == With(v, p[1], WordValue(p[2], v))
<1>1. PICK N \in SUBSET NodesOf(s) :
         /\ ToSet(s) \subseteq N /\ Symb(p[1]) \notin N
         /\ \A e \in N \ {p[2]} : Operands(e) \subseteq N
  BY DEF OnlyIn
<1> DEFINE B == {e \in N : WordValue(ReplacedSum(e, p[1], p[2]), u) # WordValue(e, v)}
<1>2. p[2] \in SumNode /\ p[1] \in WordSymbol
  BY HiddenSums DEF HidesWord
<1>3. WordValue(p[2], v) \in Words
  BY <1>2, ValuesAreWords
<1>4. u \in Env /\ u[p[1]] = WordValue(p[2], v) /\ \A x \in WordSymbol : x # p[1] => v[x] = u[x]
  BY <1>2, <1>3, WithFacts
<1>5. \A e \in NodesOf(s) : /\ ReplacedSum(e, p[1], p[2]) \in SumNode
                            /\ e = p[2] => ReplacedSum(e, p[1], p[2]) = Symb(p[1])
  BY ReplacedSumAssumption DEF ReplacedSumOf
<1>6. \A w \in Env : Symb(p[1]) \in SumNode => WordValue(Symb(p[1]), w) = w[p[1]]
  BY WordValues DEF Symb
<1> HIDE DEF u
<1> SUFFICES ASSUME B # {} PROVE FALSE
  BY <1>1 DEF u
<1>7. B \in SUBSET SumNode
  BY <1>1, SumsOfTuple
<1> HIDE DEF B
<1>8. PICK e \in B : \A c \in Operands(e) : c \in SumNode /\ c \notin B
  BY <1>7, LowestSum
<1>9. /\ e \in N /\ e \in NodesOf(s) /\ e \in SumNode /\ WordValue(ReplacedSum(e, p[1], p[2]), u) # WordValue(e, v)
      /\ \A c \in Operands(e) : c \in N => WordValue(ReplacedSum(c, p[1], p[2]), u) = WordValue(c, v)
  BY <1>1, <1>8, SumsOfTuple DEF B
<1>10. CASE e = p[2]
  BY <1>4, <1>5, <1>6, <1>9, <1>10
<1>11. CASE e # p[2]
  <2>1. e # Symb(p[1]) /\ \A c \in Operands(e) : WordValue(ReplacedSum(c, p[1], p[2]), u) = WordValue(c, v)
    BY <1>1, <1>9, <1>11
  <2>2. QED
    BY <1>4, <1>9, <1>11, <2>1, ReplacedBelow
<1>12. QED
  BY <1>10, <1>11

-----------------------------------------------------------------------------
(* Distributions are counts of the values of the masks.                    *)

At(D, f, o) == {w \in D : f[w] = o}

Counts(D, f) == [o \in {f[w] : w \in D} |-> Cardinality(At(D, f, o))]

(* A permutation that turns the results of f into those of g keeps counts. *)
LEMMA CountsPermuted ==
    ASSUME NEW D, IsFiniteSet(D), NEW f, NEW g, NEW B \in [D -> D],
           \A w, x \in D : B[w] = B[x] => w = x,
           \A x \in D : \E w \in D : B[w] = x,
           \A w \in D : g[B[w]] = f[w]
    PROVE  Counts(D, f) = Counts(D, g)
<1>1. \A w \in D : B[w] \in D
  OBVIOUS
<1>2. {f[w] : w \in D} = {g[w] : w \in D}
  <2> DEFINE F == {f[w] : w \in D}
             G == {g[w] : w \in D}
  <2>1. /\ \A o : o \in F <=> \E w \in D : o = f[w]
        /\ \A o : o \in G <=> \E w \in D : o = g[w]
    OBVIOUS
  <2> HIDE DEF F, G
  <2>2. \A o \in F : o \in G
    BY <1>1, <2>1
  <2>3. \A o \in G : o \in F
    BY <2>1
  <2>4. F = G
    BY <2>2, <2>3
  <2>5. QED
    BY <2>4 DEF F, G
<1>3. ASSUME NEW o PROVE Cardinality(At(D, f, o)) = Cardinality(At(D, g, o))
  <2> DEFINE S == At(D, f, o)
             T == At(D, g, o)
             C == [w \in S |-> B[w]]
  <2>1. /\ \A w : w \in S <=> w \in D /\ f[w] = o
        /\ \A w : w \in T <=> w \in D /\ g[w] = o
    BY DEF At
  <2>2. IsFiniteSet(S)
    <3>1. S \in SUBSET D
      BY <2>1
    <3>2. QED
      BY <3>1, FS_Subset
  <2> HIDE DEF S, T
  <2>3. C \in [S -> T]
    BY <1>1, <2>1
  <2>4. \A w, x \in S : C[w] = C[x] => w = x
    BY <2>1
  <2>5. \A x \in T : \E w \in S : C[w] = x
    <3> SUFFICES ASSUME NEW x \in T PROVE \E w \in S : B[w] = x
      OBVIOUS
    <3>1. PICK w \in D : B[w] = x
      BY <2>1
    <3>2. w \in S
      BY <2>1, <3>1
    <3>3. QED
      BY <3>1, <3>2
  <2> HIDE DEF C
  <2>6. ExistsBijection(S, T)
    <3>1. C \in Bijection(S, T)
      BY <2>3, <2>4, <2>5, Fun_IsBij
    <3>2. QED
      BY <3>1 DEF ExistsBijection
  <2>7. QED
    BY <2>2, <2>6, FS_Bijection DEF S, T
<1>4. QED
  BY <1>2, <1>3 DEF Counts

(* There are finitely many functions between finite sets.                  *)
LEMMA FunctionsFinite ==
    ASSUME NEW S, IsFiniteSet(S), NEW T, IsFiniteSet(T)
    PROVE  IsFiniteSet([S -> T])
<1> DEFINE F == [S -> T]
           G == SUBSET (S \X T)
           graph == [f \in F |-> {<<x, f[x]>> : x \in S}]
<1>1. IsFiniteSet(G)
  BY FS_Product, FS_SUBSET
<1>2. graph \in [F -> G]
  OBVIOUS
<1>3. ASSUME NEW f \in F, NEW g \in F, graph[f] = graph[g] PROVE f = g
  <2>1. \A x \in S : <<x, f[x]>> \in graph[f]
    OBVIOUS
  <2>2. \A x \in S : <<x, f[x]>> \in {<<y, g[y]>> : y \in S}
    BY <1>3, <2>1
  <2>3. \A x \in S : f[x] = g[x]
    BY <2>2
  <2>4. QED
    BY <2>3
<1> HIDE DEF graph, G
<1>4. graph \in Injection(F, G)
  BY <1>2, <1>3, Fun_IsInj
<1>5. QED
  BY <1>1, <1>4, FS_Injection

LEMMA MaskWordsFinite == IsFiniteSet(MaskWords)
<1>1. IsFiniteSet(WordSymbol \cap Mask)
  BY SymbolsAssumption, FS_Subset
<1>2. IsFiniteSet(Words)
  BY WordWidthAssumption, FS_Interval DEF Words
<1>3. QED
  BY <1>1, <1>2, FunctionsFinite DEF MaskWords

ShownFor(s, k) == [w \in MaskWords |-> ShownWords(s, k, w)]

LEMMA DistributionCounts == \A s, k : WordDistribution(s, k) = Counts(MaskWords, ShownFor(s, k))
<1> SUFFICES ASSUME NEW s, NEW k PROVE WordDistribution(s, k) = Counts(MaskWords, ShownFor(s, k))
  OBVIOUS
<1> DEFINE f == ShownFor(s, k)
<1>1. \A w \in MaskWords : f[w] = ShownWords(s, k, w)
  BY DEF ShownFor
<1> HIDE DEF f
<1>2. {ShownWords(s, k, w) : w \in MaskWords} = {f[w] : w \in MaskWords}
  BY <1>1
<1>3. \A o : {w \in MaskWords : ShownWords(s, k, w) = o} = At(MaskWords, f, o)
  BY <1>1 DEF At
<1>4. WordDistribution(s, k) = Counts(MaskWords, f)
  BY <1>2, <1>3 DEF WordDistribution, Counts
<1>5. QED
  BY <1>4 DEF f

(* The words of the masks and those of the secrets, together.              *)
LEMMA JoinedFacts ==
    ASSUME NEW k \in SecretWords, NEW w \in MaskWords
    PROVE  /\ Joined(k, w) \in Env
           /\ \A x \in WordSymbol \cap Mask : Joined(k, w)[x] = w[x] /\ w[x] \in Words
           /\ \A m \in WordSymbol \cap Mask : \A x \in Words :
                 /\ With(w, m, x) \in MaskWords /\ With(w, m, x)[m] = x
                 /\ \A z : With(With(w, m, x), m, z) = With(w, m, z)
                 /\ With(w, m, w[m]) = w
                 /\ Joined(k, With(w, m, x)) = With(Joined(k, w), m, x)
<1>1. Joined(k, w) \in Env
  BY DEF Joined, Env, SecretWords, MaskWords
<1>2. \A x \in WordSymbol \cap Mask : Joined(k, w)[x] = w[x] /\ w[x] \in Words
  BY DEF Joined, MaskWords
<1>3. ASSUME NEW m \in WordSymbol \cap Mask, NEW x \in Words
      PROVE  /\ With(w, m, x) \in MaskWords /\ With(w, m, x)[m] = x
             /\ \A z : With(With(w, m, x), m, z) = With(w, m, z)
             /\ With(w, m, w[m]) = w
             /\ \A y \in WordSymbol \cap Mask : y # m => With(w, m, x)[y] = w[y]
  BY DEF With, MaskWords
<1>4. ASSUME NEW m \in WordSymbol \cap Mask, NEW x \in Words
      PROVE  Joined(k, With(w, m, x)) = With(Joined(k, w), m, x)
  <2> DEFINE J == Joined(k, With(w, m, x))
             L == With(Joined(k, w), m, x)
  <2>1. J = [y \in WordSymbol |-> IF y \in Mask THEN With(w, m, x)[y] ELSE k[y]]
    BY DEF Joined
  <2>2. L = [y \in WordSymbol |-> IF y = m THEN x ELSE Joined(k, w)[y]]
    BY <1>1 DEF With, Env
  <2>3. \A y \in WordSymbol : Joined(k, w)[y] = IF y \in Mask THEN w[y] ELSE k[y]
    BY DEF Joined
  <2>4. \A y \in WordSymbol : (IF y \in Mask THEN With(w, m, x)[y] ELSE k[y]) = (IF y = m THEN x ELSE Joined(k, w)[y])
    BY <1>3, <2>3
  <2> HIDE DEF J, L
  <2>5. J = L
    BY <2>1, <2>2, <2>4
  <2>6. QED
    BY <2>5 DEF J, L
<1>5. QED
  BY <1>1, <1>2, <1>3, <1>4

(* When m takes the value of a sum that it hides, for every value of the   *)
(* masks, these are permuted.                                              *)
LEMMA HidingPermutes ==
    ASSUME NEW m, NEW e \in SumNode, HidesWord(m, e), NEW k \in SecretWords,
           NEW B, B = [w \in MaskWords |-> With(w, m, WordValue(e, Joined(k, w)))]
    PROVE  /\ B \in [MaskWords -> MaskWords]
           /\ \A w, x \in MaskWords : B[w] = B[x] => w = x
           /\ \A x \in MaskWords : \E w \in MaskWords : B[w] = x
<1>1. m \in WordSymbol \cap Mask
  BY DEF HidesWord
<1>2. \A w \in MaskWords : WordValue(e, Joined(k, w)) \in Words
  BY JoinedFacts, ValuesAreWords
<1>3. B \in [MaskWords -> MaskWords]
  BY <1>1, <1>2, JoinedFacts
<1>4. ASSUME NEW w \in MaskWords, NEW x \in MaskWords, B[w] = B[x] PROVE w = x
  <2> DEFINE a == WordValue(e, Joined(k, w))
             b == WordValue(e, Joined(k, x))
  <2>1. a \in Words /\ b \in Words /\ With(w, m, a) = With(x, m, b)
    BY <1>2, <1>4
  <2> HIDE DEF a, b
  <2>2. a = b
    BY <1>1, <2>1, JoinedFacts
  <2>3. w[m] \in Words /\ x[m] \in Words /\ With(w, m, w[m]) = w
    BY <1>1, <2>1, JoinedFacts
  <2>4. x = With(w, m, x[m])
    <3>1. With(With(w, m, a), m, x[m]) = With(w, m, x[m])
      BY <1>1, <2>1, JoinedFacts
    <3>2. With(With(x, m, b), m, x[m]) = With(x, m, x[m]) /\ With(x, m, x[m]) = x
      BY <1>1, <2>1, JoinedFacts
    <3>3. QED
      BY <2>1, <3>1, <3>2
  <2>5. Joined(k, x) = With(Joined(k, w), m, x[m]) /\ Joined(k, w) = With(Joined(k, w), m, w[m])
    BY <1>1, <2>3, <2>4, JoinedFacts
  <2>6. WordValue(e, With(Joined(k, w), m, w[m])) = WordValue(e, With(Joined(k, w), m, x[m]))
    BY <2>2, <2>5 DEF a, b
  <2>7. Joined(k, w) \in Env
    BY JoinedFacts
  <2>8. w[m] = x[m]
    BY <2>3, <2>6, <2>7 DEF HidesWord
  <2>9. QED
    BY <2>3, <2>4, <2>8
<1>5. ASSUME NEW x \in MaskWords PROVE \E w \in MaskWords : B[w] = x
  <2>1. Joined(k, x) \in Env /\ x[m] \in Words
    BY <1>1, JoinedFacts
  <2>2. PICK y \in Words : WordValue(e, With(Joined(k, x), m, y)) = x[m]
    BY <2>1 DEF HidesWord
  <2> DEFINE w == With(x, m, y)
  <2>3. w \in MaskWords /\ Joined(k, w) = With(Joined(k, x), m, y)
    BY <1>1, JoinedFacts
  <2>4. With(w, m, x[m]) = x
    BY <1>1, JoinedFacts
  <2> HIDE DEF w
  <2>5. B[w] = x
    BY <2>2, <2>3, <2>4
  <2>6. QED
    BY <2>3, <2>5
<1>6. QED
  BY <1>3, <1>4, <1>5

-----------------------------------------------------------------------------
(* What keeps the distribution, and what hides it.                         *)

(* After the exchange and the simplification, expression by expression.    *)
LEMMA ValuesAfter ==
    ASSUME NEW s \in SumTuple, NEW p \in Hidden(s), NEW v \in Env
    PROVE  /\ DOMAIN After(s, p[1], p[2]) = DOMAIN s
           /\ \A i \in DOMAIN s : WordValue(After(s, p[1], p[2])[i], v) = WordValue(ReplacedSum(s[i], p[1], p[2]), v)
<1>1. \A i \in DOMAIN s : ReplacedSum(s[i], p[1], p[2]) \in SumNode
  BY SumsOfTuple, ReplacedSumAssumption
<1>2. QED
  BY <1>1, SimplifiedSumAssumption DEF After, Env

(* An exchange that is its own way back, or of a mask that occurs nowhere  *)
(* else, keeps the distribution for all values of the secrets.             *)
LEMMA HarmlessKeeps ==
    ASSUME NEW s \in SumTuple, NEW p \in Hidden(s), IsHarmless(p[1], p[2], s), NEW k \in SecretWords
    PROVE  WordDistribution(After(s, p[1], p[2]), k) = WordDistribution(s, k)
<1> DEFINE t == After(s, p[1], p[2])
           B == [w \in MaskWords |-> With(w, p[1], WordValue(p[2], Joined(k, w)))]
           f == ShownFor(s, k)
           g == ShownFor(t, k)
<1>1. p[2] \in SumNode /\ HidesWord(p[1], p[2]) /\ p[1] \in WordSymbol \cap Mask
  BY HiddenSums DEF HidesWord
<1>2. /\ B \in [MaskWords -> MaskWords]
      /\ \A w, x \in MaskWords : B[w] = B[x] => w = x
      /\ \A x \in MaskWords : \E w \in MaskWords : B[w] = x
  <2> HIDE DEF B
  <2>1. B = [w \in MaskWords |-> With(w, p[1], WordValue(p[2], Joined(k, w)))]
    BY DEF B
  <2>2. QED
    BY <1>1, <2>1, HidingPermutes
<1>3. ASSUME NEW w \in MaskWords
      PROVE  Joined(k, w) \in Env /\ Joined(k, B[w]) = With(Joined(k, w), p[1], WordValue(p[2], Joined(k, w)))
             /\ Joined(k, B[w]) \in Env
  <2> DEFINE x == WordValue(p[2], Joined(k, w))
  <2>1. Joined(k, w) \in Env
    BY JoinedFacts
  <2>2. x \in Words
    BY <1>1, <2>1, ValuesAreWords
  <2>3. B[w] = With(w, p[1], x)
    OBVIOUS
  <2> HIDE DEF x, B
  <2>4. Joined(k, B[w]) = With(Joined(k, w), p[1], x)
    BY <1>1, <2>2, <2>3, JoinedFacts
  <2>5. B[w] \in MaskWords
    BY <1>2
  <2>6. QED
    BY <2>1, <2>4, <2>5, JoinedFacts DEF x
<1>4. /\ \A w \in MaskWords : f[w] = ShownWords(s, k, w) /\ g[w] = ShownWords(t, k, w)
      /\ \A w \in MaskWords : B[w] \in MaskWords
  BY <1>2 DEF ShownFor
<1>5. \A u \in Env : /\ DOMAIN t = DOMAIN s
                     /\ \A i \in DOMAIN s : WordValue(t[i], u) = WordValue(ReplacedSum(s[i], p[1], p[2]), u)
  BY ValuesAfter
<1>6. \A i \in DOMAIN s : s[i] \in NodesOf(s) /\ s[i] \in ToSet(s)
  BY SumsOfTuple
<1> HIDE DEF t, B, f, g
<1>7. CASE IsInvolution(p[1], p[2])
  <2>1. ASSUME NEW w \in MaskWords PROVE ShownWords(s, k, B[w]) = ShownWords(t, k, w)
    <3>1. \A i \in DOMAIN s : WordValue(t[i], Joined(k, w)) = WordValue(s[i], Joined(k, B[w]))
      BY <1>3, <1>5, <1>6, <1>7, ReplacedInvolution
    <3>2. DOMAIN t = DOMAIN s
      BY <1>3, <1>5
    <3>3. QED
      BY <3>1, <3>2 DEF ShownWords
  <2>2. \A w \in MaskWords : f[B[w]] = g[w]
    BY <1>4, <2>1
  <2>3. Counts(MaskWords, g) = Counts(MaskWords, f)
    BY <1>2, <2>2, MaskWordsFinite, CountsPermuted
  <2>4. QED
    BY <2>3, DistributionCounts DEF f, g, t
<1>8. CASE OnlyIn(p[1], p[2], s)
  <2>1. ASSUME NEW w \in MaskWords PROVE ShownWords(t, k, B[w]) = ShownWords(s, k, w)
    <3>1. \A i \in DOMAIN s : WordValue(t[i], Joined(k, B[w])) = WordValue(s[i], Joined(k, w))
      BY <1>3, <1>5, <1>6, <1>8, ReplacedOnlyIn
    <3>2. DOMAIN t = DOMAIN s
      BY <1>3, <1>5
    <3>3. QED
      BY <3>1, <3>2 DEF ShownWords
  <2>2. \A w \in MaskWords : g[B[w]] = f[w]
    BY <1>4, <2>1
  <2>3. Counts(MaskWords, f) = Counts(MaskWords, g)
    BY <1>2, <2>2, MaskWordsFinite, CountsPermuted
  <2>4. QED
    BY <2>3, DistributionCounts DEF f, g, t
<1>9. QED
  BY <1>7, <1>8 DEF IsHarmless

(* Symbols are secrets or masks.                                           *)
LEMMA SymbolsOfSums == \A n \in SumNode : Symbols(n) \subseteq (Secret \cup Mask) \cap WordSymbol
<1> DEFINE B == {n \in SumNode : ~(Symbols(n) \subseteq (Secret \cup Mask) \cap WordSymbol)}
<1> SUFFICES ASSUME B # {} PROVE FALSE
  OBVIOUS
<1>0. B \in SUBSET SumNode
  OBVIOUS
<1> HIDE DEF B
<1>1. PICK n \in B : \A c \in Operands(n) : c \in SumNode /\ c \notin B
  BY <1>0, LowestSum
<1>2. /\ n \in SumNode /\ ~(Symbols(n) \subseteq (Secret \cup Mask) \cap WordSymbol)
      /\ \A c \in Operands(n) : Symbols(c) \subseteq (Secret \cup Mask) \cap WordSymbol
  BY <1>1 DEF B
<1>3. Symbols(n) = IF n.op = "SYMB" THEN {n.symb} ELSE UNION {Symbols(c) : c \in Operands(n)}
  BY <1>2, SumTreesAssumption DEF AreTrees
<1>4. n.op = "SYMB" => n.symb \in (Secret \cup Mask) \cap WordSymbol
  BY <1>2, KindsOfSums
<1>5. QED
  BY <1>2, <1>3, <1>4

(* Without secrets, the secrets do not matter.                             *)
LEMMA NoSecretIsTPS ==
    ASSUME NEW s \in SumTuple, SymbolsOfTuple(s) \cap Secret = {}
    PROVE  WordsAreTPS(s)
<1> SUFFICES ASSUME NEW k \in SecretWords, NEW k2 \in SecretWords
             PROVE  WordDistribution(s, k) = WordDistribution(s, k2)
  BY DEF WordsAreTPS
<1>1. ASSUME NEW w \in MaskWords PROVE ShownWords(s, k, w) = ShownWords(s, k2, w)
  <2>1. ASSUME NEW i \in DOMAIN s PROVE WordValue(s[i], Joined(k, w)) = WordValue(s[i], Joined(k2, w))
    <3>1. s[i] \in SumNode
      BY SumsOfTuple
    <3>2. \A x \in Symbols(s[i]) : x \in WordSymbol \cap Mask
      BY <3>1, SymbolsOfSums DEF SymbolsOfTuple
    <3>3. \A x \in Symbols(s[i]) : Joined(k, w)[x] = w[x] /\ Joined(k2, w)[x] = w[x]
      BY <3>2, JoinedFacts
    <3>4. Joined(k, w) \in Env /\ Joined(k2, w) \in Env
      BY JoinedFacts
    <3>5. QED
      BY <3>1, <3>3, <3>4, ValueOfSymbols
  <2>2. QED
    BY <2>1 DEF ShownWords
<1>2. QED
  BY <1>1 DEF WordDistribution

(* A mask that hides the only expression hides the secrets: for other      *)
(* values of these the same words are shown, by other values of the mask.  *)
LEMMA MaskedIsTPS ==
    ASSUME NEW s \in SumTuple, IsMasked(s)
    PROVE  WordsAreTPS(s)
<1> SUFFICES ASSUME NEW k \in SecretWords, NEW k2 \in SecretWords
             PROVE  WordDistribution(s, k) = WordDistribution(s, k2)
  BY DEF WordsAreTPS
<1>1. PICK e \in SumNode, m \in Mask : ToSet(s) = {e} /\ HidesWord(m, e)
  BY MaskedSums
<1>2. \A i \in DOMAIN s : s[i] = e
  BY <1>1, SumsOfTuple
<1>3. m \in WordSymbol \cap Mask
  BY <1>1 DEF HidesWord
<1> DEFINE A(h) == [w \in MaskWords |-> With(w, m, WordValue(e, Joined(h, w)))]
           out(h) == [w \in MaskWords |-> [i \in DOMAIN s |-> w[m]]]
<1>4. ASSUME NEW h \in SecretWords
      PROVE  Counts(MaskWords, ShownFor(s, h)) = Counts(MaskWords, out(h))
  <2> DEFINE f == ShownFor(s, h)
             g == out(h)
             B == A(h)
  <2>1. /\ B \in [MaskWords -> MaskWords]
        /\ \A w, x \in MaskWords : B[w] = B[x] => w = x
        /\ \A x \in MaskWords : \E w \in MaskWords : B[w] = x
    <3> HIDE DEF B
    <3>1. B = [w \in MaskWords |-> With(w, m, WordValue(e, Joined(h, w)))]
      BY DEF B
    <3>2. QED
      BY <1>1, <3>1, HidingPermutes
  <2>2. ASSUME NEW w \in MaskWords PROVE g[B[w]] = f[w]
    <3> DEFINE x == WordValue(e, Joined(h, w))
    <3>1. x \in Words
      BY JoinedFacts, ValuesAreWords
    <3>2. B[w] = With(w, m, x) /\ f[w] = [i \in DOMAIN s |-> x]
      BY <1>2 DEF ShownFor, ShownWords
    <3>3. B[w] \in MaskWords
      BY <2>1
    <3>4. g[B[w]] = [i \in DOMAIN s |-> B[w][m]]
      BY <3>3
    <3> HIDE DEF x, B, g, f
    <3>5. B[w][m] = x
      BY <1>3, <3>1, <3>2, JoinedFacts
    <3>6. QED
      BY <3>2, <3>4, <3>5
  <2> HIDE DEF f, g, B
  <2>3. Counts(MaskWords, f) = Counts(MaskWords, g)
    BY <2>1, <2>2, MaskWordsFinite, CountsPermuted
  <2>4. QED
    BY <2>3 DEF f, g
<1>5. out(k) = out(k2)
  OBVIOUS
<1> HIDE DEF out
<1>6. QED
  BY <1>4, <1>5, DistributionCounts

-----------------------------------------------------------------------------
(* The inductive invariant: as long as the exchanges made were harmless,   *)
(* the tuple of the loop has, for all values of the secrets, the           *)
(* distribution of the tuple asked about.                                  *)

SumsCalled ==
    /\ sumRoots \in SumTuple /\ sumsAsked \in SumTuple
    /\ exact \in BOOLEAN /\ involutive \in BOOLEAN

SameWords ==
    involutive => \A k \in SecretWords : WordDistribution(sumRoots, k) = WordDistribution(sumsAsked, k)

SumInv == SumsCalled /\ SameWords /\ SumVerdictExact

LEMMA SumInitInv == SumInit => SumInv
BY SumTreesAssumption DEF SumInit, SumInv, SumsCalled, SameWords, SumVerdictExact

(* A verdict about the tuple of the loop is one about the tuple asked.     *)
LEMMA SameTPS == SumInv /\ involutive => (WordsAreTPS(sumRoots) <=> WordsAreTPS(sumsAsked))
<1> SUFFICES ASSUME SumInv, involutive PROVE WordsAreTPS(sumRoots) <=> WordsAreTPS(sumsAsked)
  OBVIOUS
<1>1. \A k \in SecretWords : WordDistribution(sumRoots, k) = WordDistribution(sumsAsked, k)
  BY DEF SumInv, SameWords
<1>2. {WordDistribution(sumRoots, k) : k \in SecretWords} = {WordDistribution(sumsAsked, k) : k \in SecretWords}
  BY <1>1
<1>3. QED
  BY <1>2 DEF WordsAreTPS

(* A right verdict keeps the invariant.                                    *)
LEMMA AnswerInv ==
    ASSUME SumInv, NEW a, AnswerSum(a),
           a = "yes" => WordsAreTPS(sumRoots), a = "no" /\ exact => ~WordsAreTPS(sumRoots)
    PROVE  SumInv'
<1>1. answer' = a /\ UNCHANGED <<sumRoots, exact, sumsAsked, involutive>>
  BY DEF AnswerSum
<1>2. SumsCalled' /\ SameWords'
  BY <1>1 DEF SumInv, SumsCalled, SameWords
<1>3. SumVerdictExact'
  BY <1>1, SameTPS DEF SumVerdictExact
<1>4. QED
  BY <1>2, <1>3 DEF SumInv

(* No secret is left, or a mask hides all of it.                           *)
LEMMA SumsHideInv == SumInv /\ SumsHide => SumInv'
<1> SUFFICES ASSUME SumInv, SumsHide PROVE SumInv'
  OBVIOUS
<1>1. (NoSecretLeft \/ IsMasked(sumRoots)) /\ AnswerSum("yes")
  BY DEF SumsHide
<1>2. sumRoots \in SumTuple
  BY DEF SumInv, SumsCalled
<1>3. WordsAreTPS(sumRoots)
  BY <1>1, <1>2, NoSecretIsTPS, MaskedIsTPS DEF NoSecretLeft
<1>4. QED
  BY <1>1, <1>3, AnswerInv

(* An exchange: a harmless one keeps the distribution.                     *)
LEMMA ExchangeSumsInv == SumInv /\ ExchangeSums => SumInv'
<1> SUFFICES ASSUME SumInv, ExchangeSums PROVE SumInv'
  OBVIOUS
<1>1. PICK p \in Exchanges(sumRoots, taken) :
         /\ sumRoots' = After(sumRoots, p[1], p[2]) /\ sumRoots' \in SumTuple
         /\ involutive' = (involutive /\ IsHarmless(p[1], p[2], sumRoots))
  BY DEF ExchangeSums
<1>2. answer = "none" /\ UNCHANGED <<exact, answer, sumsAsked>>
  BY DEF ExchangeSums
<1>3. sumRoots \in SumTuple /\ sumsAsked \in SumTuple /\ exact \in BOOLEAN /\ involutive \in BOOLEAN
  BY DEF SumInv, SumsCalled
<1>4. p \in Hidden(sumRoots)
  BY ExchangesHidden
<1>5. SumsCalled'
  BY <1>1, <1>2, <1>3 DEF SumsCalled
<1>6. SameWords'
  <2> SUFFICES ASSUME involutive', NEW k \in SecretWords
               PROVE  WordDistribution(sumRoots', k) = WordDistribution(sumsAsked', k)
    BY DEF SameWords
  <2>1. involutive /\ IsHarmless(p[1], p[2], sumRoots)
    BY <1>1
  <2>2. WordDistribution(sumRoots', k) = WordDistribution(sumRoots, k)
    BY <1>1, <1>3, <1>4, <2>1, HarmlessKeeps
  <2>3. WordDistribution(sumRoots, k) = WordDistribution(sumsAsked, k)
    BY <2>1 DEF SumInv, SameWords
  <2>4. QED
    BY <1>2, <2>2, <2>3
<1>7. SumVerdictExact'
  BY <1>2 DEF SumVerdictExact
<1>8. QED
  BY <1>5, <1>6, <1>7 DEF SumInv

(* No mask is left: the enumeration, unless false positives are allowed.   *)
LEMMA NoExchangeInv == SumInv /\ NoExchangeLeft => SumInv'
<1> SUFFICES ASSUME SumInv, NoExchangeLeft PROVE SumInv'
  OBVIOUS
<1> DEFINE a == IF exact /\ WordsAreTPS(sumRoots) THEN "yes" ELSE "no"
<1>1. AnswerSum(a)
  BY DEF NoExchangeLeft
<1>2. (a = "yes" => WordsAreTPS(sumRoots)) /\ (a = "no" /\ exact => ~WordsAreTPS(sumRoots))
  OBVIOUS
<1> HIDE DEF a
<1>3. QED
  BY <1>1, <1>2, AnswerInv

(* Every step keeps the invariant.                                         *)
LEMMA SumNextInv == SumInv /\ [SumNext]_sumVars => SumInv'
<1> SUFFICES ASSUME SumInv, [SumNext]_sumVars PROVE SumInv'
  OBVIOUS
<1>1. CASE UNCHANGED sumVars
  BY <1>1 DEF sumVars, SumInv, SumsCalled, SameWords, SumVerdictExact
<1>2. CASE SumReturned
  BY <1>1, <1>2 DEF SumReturned
<1>3. CASE SumsHide
  BY <1>3, SumsHideInv
<1>4. CASE ExchangeSums
  BY <1>4, ExchangeSumsInv
<1>5. CASE NoExchangeLeft
  BY <1>5, NoExchangeInv
<1>6. QED
  BY <1>1, <1>2, <1>3, <1>4, <1>5 DEF SumNext

(* The invariant holds in every state of every call.                       *)
THEOREM SumInvariance == SumSpec => []SumInv
<1>1. QED
  BY SumInitInv, SumNextInv, PTL DEF SumSpec

(* As long as the exchanges made are their own way back, or of masks that  *)
(* occur nowhere else, the verdict on sums of words is right.              *)
THEOREM SumVerdictCorrect == SumSpec => []SumVerdictExact
<1>1. SumInv => SumVerdictExact
  BY DEF SumInv
<1>2. QED
  BY <1>1, SumInvariance, PTL

(* Whatever the loop may exchange next: if that is harmless, the tuple     *)
(* keeps its distribution for all values of the secrets.                   *)
THEOREM SumDistributionKept == SumSpec => []HarmlessExchangeKeepsDistribution
<1>1. SumInv => HarmlessExchangeKeepsDistribution
  <2> SUFFICES ASSUME SumInv, NEW p \in Exchanges(sumRoots, taken), IsHarmless(p[1], p[2], sumRoots),
                      NEW k \in SecretWords
               PROVE  WordDistribution(After(sumRoots, p[1], p[2]), k) = WordDistribution(sumRoots, k)
    BY DEF HarmlessExchangeKeepsDistribution
  <2>1. sumRoots \in SumTuple /\ p \in Hidden(sumRoots)
    BY ExchangesHidden DEF SumInv, SumsCalled
  <2>2. QED
    BY <2>1, HarmlessKeeps
<1>2. QED
  BY <1>1, SumInvariance, PTL
=============================================================================
