------------------------ MODULE CheckProperty_proofs ------------------------
(***************************************************************************)
(* checkProperty, proved for every set of expressions and every way that   *)
(* simplify may go: what a node remembers of the masks below it is right,  *)
(* an exchange leaves the joint distribution of the tuple as it was, and   *)
(* the verdict is that of the enumeration of all values.                   *)
(***************************************************************************)
EXTENDS CheckProperty, Observation_proofs, MaskChoice_proofs

Assignments == SUBSET (Secret \cup Share)

-----------------------------------------------------------------------------
(* Expressions.                                                            *)

(* The operands of an operator are a finite set of expressions.            *)
LEMMA OperandsOfNode ==
    ASSUME NEW n \in Node
    PROVE  /\ IsOp(n) => /\ n.op \in {"BXOR", "BAND", "BOR", "BNOT"} /\ n = OpNode(n.op, n.args)
                         /\ ~IsLeaf(n) /\ Operands(n) = n.args
                         /\ IsFiniteSet(n.args) /\ n.args \subseteq Node
                         /\ n.op = "BNOT" => Cardinality(n.args) = 1
           /\ ~IsOp(n) => /\ IsLeaf(n) /\ Operands(n) = {}
                          /\ \/ n.op = "SYMB" /\ n = Symb(n.symb) /\ n.symb \in Secret \cup Share \cup Mask
                             \/ n.op = "CONST" /\ n = Const(n.cst) /\ n.cst \in BOOLEAN
<1>1. CASE \E s \in Secret \cup Share \cup Mask : n = Symb(s)
  BY <1>1 DEF Symb, IsOp, IsLeaf, Operands
<1>2. CASE \E b \in BOOLEAN : n = Const(b)
  BY <1>2 DEF Const, IsOp, IsLeaf, Operands
<1>3. CASE /\ IsOp(n) /\ n = OpNode(n.op, n.args)
           /\ IsFiniteSet(n.args) /\ n.args \subseteq Node
           /\ n.op = "BNOT" => Cardinality(n.args) = 1
  BY <1>3 DEF IsOp, IsLeaf, Operands
<1>4. QED
  BY <1>1, <1>2, <1>3, NodeAssumption

(* Every nonempty set of expressions holds one none of whose operands is   *)
(* in it.                                                                  *)
LEMMA LowestNode ==
    ASSUME NEW B \in SUBSET Node, B # {}
    PROVE  \E n \in B : \A c \in Operands(n) : c \in Node /\ c \notin B
BY TreesAssumption, LowestTree

(* The symbols of a symbol, of a constant, of an operator.                 *)
LEMMA OccurringSymbols ==
    ASSUME NEW n \in Node
    PROVE  Symbols(n) = IF n.op = "SYMB" THEN {n.symb} ELSE UNION {Symbols(c) : c \in Operands(n)}
BY TreesAssumption DEF AreTrees

-----------------------------------------------------------------------------
(* Values.                                                                 *)

(* The operands of n that are set.                                         *)
SetOperands(n, K, M) == {c \in n.args : Value(c, K, M)}

(* What an operator makes of its operands, when those of T are set.        *)
Combined(op, operands, T) ==
    CASE op = "BNOT" -> T = {}
      [] op = "BAND" -> T = operands
      [] op = "BOR"  -> T # {}
      [] op = "BXOR" -> Cardinality(T) % 2 = 1

(* The value of an expression, from the values of its operands.            *)
LEMMA ValueOfOperator ==
    ASSUME NEW n \in Node, IsOp(n), NEW K \in Assignments, NEW M \in SUBSET Mask
    PROVE  Value(n, K, M) <=> Combined(n.op, n.args, SetOperands(n, K, M))
<1>1. Value(n, K, M) <=> ValueOf(n, K, M)
  BY ValueAssumption DEF Assignments
<1> DEFINE T == SetOperands(n, K, M)
<1>2. /\ (\A c \in n.args : ~Value(c, K, M)) <=> T = {}
      /\ (\A c \in n.args : Value(c, K, M)) <=> T = n.args
      /\ (\E c \in n.args : Value(c, K, M)) <=> T # {}
      /\ T = {c \in n.args : Value(c, K, M)}
  BY DEF SetOperands
<1> HIDE DEF T
<1>3. CASE n.op = "BNOT"
  BY <1>1, <1>2, <1>3 DEF ValueOf, Combined, T
<1>4. CASE n.op = "BAND"
  BY <1>1, <1>2, <1>4 DEF ValueOf, Combined, T
<1>5. CASE n.op = "BOR"
  BY <1>1, <1>2, <1>5 DEF ValueOf, Combined, T
<1>6. CASE n.op = "BXOR"
  BY <1>1, <1>2, <1>6 DEF ValueOf, Combined, T
<1>7. QED
  BY <1>3, <1>4, <1>5, <1>6 DEF IsOp

(* Symbols and constants.                                                  *)
LEMMA ValueOfLeaf ==
    ASSUME NEW K \in Assignments, NEW M \in SUBSET Mask
    PROVE  /\ \A s : Symb(s) \in Node => (Value(Symb(s), K, M) <=> s \in K \cup M)
           /\ \A b : Const(b) \in Node => (Value(Const(b), K, M) <=> b)
<1>1. \A n \in Node : Value(n, K, M) <=> ValueOf(n, K, M)
  BY ValueAssumption DEF Assignments
<1>2. \A s : ValueOf(Symb(s), K, M) <=> s \in K \cup M
  BY DEF ValueOf, Symb
<1>3. \A b : ValueOf(Const(b), K, M) <=> b
  BY DEF ValueOf, Const
<1>4. QED
  BY <1>1, <1>2, <1>3

(* The value of an expression depends on the symbols that occur in it.     *)
LEMMA NodesSupported == \A n \in Node : Supported(n)
<1> DEFINE B == {n \in Node : ~Supported(n)}
<1> SUFFICES ASSUME B # {} PROVE FALSE
  OBVIOUS
<1>0. B \in SUBSET Node
  OBVIOUS
<1> HIDE DEF B
<1>1. PICK n \in B : \A c \in Operands(n) : c \in Node /\ c \notin B
  BY <1>0, LowestNode
<1>2. n \in Node /\ ~Supported(n) /\ \A c \in Operands(n) : c \in Node /\ Supported(c)
  BY <1>1 DEF B
<1>3. PICK K \in Assignments, M \in SUBSET Mask :
            ~(Value(n, K, M) <=> Value(n, K \cap Symbols(n), M \cap Symbols(n)))
  BY <1>2 DEF Supported, Assignments
<1> DEFINE L == K \cap Symbols(n)
           N == M \cap Symbols(n)
<1>4. L \in Assignments /\ N \in SUBSET Mask
  BY DEF Assignments
<1>5. CASE IsOp(n)
  <2>1. Operands(n) = n.args /\ n.op # "SYMB"
    BY <1>2, <1>5, OperandsOfNode DEF IsOp
  <2>2. ASSUME NEW c \in n.args PROVE Value(c, K, M) <=> Value(c, L, N)
    <3>1. Symbols(c) \subseteq Symbols(n)
      BY <1>2, <2>1, OccurringSymbols
    <3>2. L \cap Symbols(c) = K \cap Symbols(c) /\ N \cap Symbols(c) = M \cap Symbols(c)
      BY <3>1
    <3>3. Supported(c)
      BY <1>2, <2>1
    <3>4. Value(c, K, M) <=> Value(c, K \cap Symbols(c), M \cap Symbols(c))
      BY <3>3 DEF Supported, Assignments
    <3>5. Value(c, L, N) <=> Value(c, L \cap Symbols(c), N \cap Symbols(c))
      BY <1>4, <3>3 DEF Supported, Assignments
    <3>6. QED
      BY <3>2, <3>4, <3>5
  <2>3. SetOperands(n, K, M) = SetOperands(n, L, N)
    BY <2>2 DEF SetOperands
  <2>4. Value(n, K, M) <=> Combined(n.op, n.args, SetOperands(n, K, M))
    BY <1>2, <1>5, ValueOfOperator
  <2>5. Value(n, L, N) <=> Combined(n.op, n.args, SetOperands(n, L, N))
    BY <1>2, <1>4, <1>5, ValueOfOperator
  <2>6. QED
    BY <1>3, <2>3, <2>4, <2>5
<1>6. CASE ~IsOp(n)
  <2>1. CASE n.op = "SYMB" /\ n = Symb(n.symb)
    <3>1. Symbols(n) = {n.symb}
      BY <1>2, <2>1, OccurringSymbols
    <3>2. n.symb \in K \cup M <=> n.symb \in L \cup N
      BY <3>1
    <3>3. QED
      BY <1>2, <1>3, <1>4, <2>1, <3>2, ValueOfLeaf
  <2>2. CASE n = Const(n.cst)
    BY <1>2, <1>3, <1>4, <2>2, ValueOfLeaf
  <2>3. QED
    BY <1>2, <1>6, <2>1, <2>2, OperandsOfNode
<1>7. QED
  BY <1>5, <1>6

-----------------------------------------------------------------------------
(* Parity.                                                                 *)

Odd(S) == Cardinality(S) % 2 = 1

(* An element that comes or goes changes the parity of a set.              *)
LEMMA OddFlips ==
    ASSUME NEW T, IsFiniteSet(T), NEW U, IsFiniteSet(U),
           NEW c, T \ {c} = U \ {c}, c \in T <=> c \notin U
    PROVE  Odd(T) <=> ~Odd(U)
<1>1. ASSUME NEW S, IsFiniteSet(S), c \notin S PROVE Odd(S \cup {c}) <=> ~Odd(S)
  <2>1. Cardinality(S \cup {c}) = Cardinality(S) + 1
    BY <1>1, FS_AddElement
  <2>2. Cardinality(S) \in Nat
    BY <1>1, FS_CardinalityType
  <2>3. \A k \in Nat : (k + 1) % 2 = 1 <=> ~(k % 2 = 1)
    BY SMT
  <2>4. QED
    BY <2>1, <2>2, <2>3 DEF Odd
<1>2. CASE c \in T
  <2>1. T = U \cup {c} /\ c \notin U
    BY <1>2
  <2>2. QED
    BY <1>1, <2>1
<1>3. CASE c \notin T
  <2>1. U = T \cup {c} /\ c \notin T
    BY <1>3
  <2>2. QED
    BY <1>1, <2>1
<1>4. QED
  BY <1>2, <1>3

(* The images that are left when equal ones cancel.                        *)
Uncancelled(S, f) == {d \in {f[c] : c \in S} : Odd({c \in S : f[c] = d})}

(* Images that cancel do not change the parity of those that are in P.     *)
LEMMA OddAfterCancelling ==
    ASSUME NEW S, IsFiniteSet(S), NEW f, NEW P
    PROVE  Odd({c \in S : f[c] \in P}) <=> Odd(Uncancelled(S, f) \cap P)
<1> DEFINE Q(A) == {c \in A : f[c] \in P}
           D(A) == Uncancelled(A, f) \cap P
           Good(A) == Odd(Q(A)) <=> Odd(D(A))
           B == {A \in SUBSET S : ~Good(A)}
           H == {Cardinality(A) : A \in B}
<1> SUFFICES ASSUME ~Good(S) PROVE FALSE
  OBVIOUS
<1>1. \A A \in SUBSET S : IsFiniteSet(A) /\ Cardinality(A) \in Nat
  BY FS_Subset, FS_CardinalityType
<1>2. H \in SUBSET Nat /\ H # {}
  BY <1>1
<1>3. PICK k \in H : \A j \in H : k <= j
  BY <1>2, LeastNumber
<1>4. PICK A \in B : k = Cardinality(A)
  BY <1>3
<1>5. A \in SUBSET S /\ ~Good(A) /\ \A C \in SUBSET S : ~Good(C) => Cardinality(A) <= Cardinality(C)
  BY <1>3, <1>4
<1> HIDE DEF B, H, Good
<1>6. A # {}
  <2>1. Q({}) = {} /\ D({}) = {}
    BY DEF Uncancelled
  <2>2. Good({})
    BY <2>1 DEF Good
  <2>3. QED
    BY <1>5, <2>2
<1>7. PICK a \in A : TRUE
  BY <1>6
<1> DEFINE C == A \ {a}
           d0 == f[a]
<1>8. C \in SUBSET S /\ Good(C)
  <2>1. Cardinality(C) = Cardinality(A) - 1
    BY <1>1, <1>5, <1>7, FS_RemoveElement
  <2>2. C \in SUBSET S
    BY <1>5
  <2>3. ~(Cardinality(A) <= Cardinality(C))
    BY <1>1, <1>5, <2>1
  <2>4. QED
    BY <1>5, <2>2, <2>3
<1> DEFINE at(X, d) == {c \in X : f[c] = d}
<1>9. \A X \in SUBSET S : /\ IsFiniteSet(Q(X)) /\ IsFiniteSet(D(X)) /\ \A d : IsFiniteSet(at(X, d))
  <2> SUFFICES ASSUME NEW X \in SUBSET S
               PROVE  IsFiniteSet(Q(X)) /\ IsFiniteSet(D(X)) /\ \A d : IsFiniteSet(at(X, d))
    OBVIOUS
  <2>1. IsFiniteSet({f[c] : c \in X})
    BY <1>1, ImageFits
  <2>2. D(X) \subseteq {f[c] : c \in X} /\ Q(X) \subseteq X /\ \A d : at(X, d) \subseteq X
    BY DEF Uncancelled
  <2>3. QED
    BY <1>1, <2>1, <2>2, FS_Subset
<1>10. \A X \in SUBSET S : \A d : d \in D(X) <=> d \in P /\ Odd(at(X, d))
  <2> SUFFICES ASSUME NEW X \in SUBSET S, NEW d, Odd(at(X, d)) PROVE d \in {f[c] : c \in X}
    BY DEF Uncancelled
  <2>1. at(X, d) # {}
    <3>1. Cardinality({}) % 2 # 1
      BY FS_EmptySet
    <3>2. QED
      BY <3>1 DEF Odd
  <2>2. QED
    BY <2>1
<1>11. \A d : d # d0 => at(A, d) = at(C, d)
  OBVIOUS
<1>12. Odd(at(A, d0)) <=> ~Odd(at(C, d0))
  <2>1. at(A, d0) \ {a} = at(C, d0) \ {a} /\ a \in at(A, d0) /\ a \notin at(C, d0)
    BY <1>7
  <2>2. IsFiniteSet(at(A, d0)) /\ IsFiniteSet(at(C, d0))
    BY <1>5, <1>8, <1>9
  <2> HIDE DEF at, d0, C
  <2>3. QED
    BY <2>1, <2>2, OddFlips
<1>13. IsFiniteSet(Q(A)) /\ IsFiniteSet(Q(C)) /\ IsFiniteSet(D(A)) /\ IsFiniteSet(D(C))
  BY <1>5, <1>8, <1>9
<1>14. Q(A) \ {a} = Q(C) \ {a} /\ (a \in Q(A) <=> d0 \in P) /\ a \notin Q(C)
  BY <1>7
<1> HIDE DEF at, D
<1>15. \A d : d # d0 => (d \in D(A) <=> d \in D(C))
  BY <1>5, <1>8, <1>10, <1>11
<1>16. d0 \in P => (d0 \in D(A) <=> d0 \notin D(C))
  BY <1>5, <1>8, <1>10, <1>12
<1>17. d0 \notin P => d0 \notin D(A) /\ d0 \notin D(C)
  BY <1>5, <1>8, <1>10
<1> HIDE DEF Q, C, d0
<1>18. CASE d0 \in P
  <2>1. Odd(Q(A)) <=> ~Odd(Q(C))
    BY <1>13, <1>14, <1>18, OddFlips
  <2>2. D(A) \ {d0} = D(C) \ {d0}
    BY <1>15
  <2>3. Odd(D(A)) <=> ~Odd(D(C))
    BY <1>13, <1>16, <1>18, <2>2, OddFlips
  <2>4. QED
    BY <1>5, <1>8, <2>1, <2>3 DEF Good
<1>19. CASE d0 \notin P
  <2>1. Q(A) = Q(C) /\ D(A) = D(C)
    BY <1>14, <1>15, <1>17, <1>19
  <2>2. QED
    BY <1>5, <1>8, <2>1 DEF Good
<1>20. QED
  BY <1>18, <1>19

-----------------------------------------------------------------------------
(* What a node remembers of the masks.                                     *)

(* The mask m hides n: it changes the value of n whenever it changes.      *)
Hides(m, n) ==
    /\ m \in Mask
    /\ \A K \in Assignments, M \in SUBSET Mask : Value(n, K, M \cup {m}) <=> ~Value(n, K, M \ {m})

(* A mask that hides one operand of a sum and occurs in no other hides the *)
(* sum.                                                                    *)
LEMMA SumHidden ==
    ASSUME NEW n \in Node, n.op = "BXOR", NEW m, NEW c \in n.args, Hides(m, c),
           \A d \in n.args \ {c} : m \notin Symbols(d)
    PROVE  Hides(m, n)
<1> SUFFICES ASSUME NEW K \in Assignments, NEW M \in SUBSET Mask
             PROVE  Value(n, K, M \cup {m}) <=> ~Value(n, K, M \ {m})
  BY DEF Hides
<1> DEFINE T == SetOperands(n, K, M \cup {m})
           U == SetOperands(n, K, M \ {m})
<1>1. IsOp(n) /\ IsFiniteSet(n.args) /\ n.args \subseteq Node
  BY OperandsOfNode DEF IsOp
<1>2. M \cup {m} \in SUBSET Mask /\ M \ {m} \in SUBSET Mask
  BY DEF Hides
<1>3. ASSUME NEW d \in n.args, d # c PROVE Value(d, K, M \cup {m}) <=> Value(d, K, M \ {m})
  <2>1. Supported(d) /\ m \notin Symbols(d)
    BY <1>1, <1>3, NodesSupported
  <2>2. (M \cup {m}) \cap Symbols(d) = (M \ {m}) \cap Symbols(d)
    BY <2>1
  <2>3. Value(d, K, M \cup {m}) <=> Value(d, K \cap Symbols(d), (M \cup {m}) \cap Symbols(d))
    BY <1>2, <2>1 DEF Supported, Assignments
  <2>4. Value(d, K, M \ {m}) <=> Value(d, K \cap Symbols(d), (M \ {m}) \cap Symbols(d))
    BY <1>2, <2>1 DEF Supported, Assignments
  <2>5. QED
    BY <2>2, <2>3, <2>4
<1>4. Value(c, K, M \cup {m}) <=> ~Value(c, K, M \ {m})
  BY DEF Hides
<1>5. T \ {c} = U \ {c} /\ (c \in T <=> c \notin U)
  BY <1>3, <1>4 DEF SetOperands
<1>6. IsFiniteSet(T) /\ IsFiniteSet(U)
  <2>1. T \subseteq n.args /\ U \subseteq n.args
    BY DEF SetOperands
  <2>2. QED
    BY <1>1, <2>1, FS_Subset
<1>7. Value(n, K, M \cup {m}) <=> Odd(T)
  BY <1>1, <1>2, ValueOfOperator DEF Combined, Odd
<1>8. Value(n, K, M \ {m}) <=> Odd(U)
  BY <1>1, <1>2, ValueOfOperator DEF Combined, Odd
<1> HIDE DEF T, U
<1>9. Odd(T) <=> ~Odd(U)
  BY <1>5, <1>6, OddFlips
<1>10. QED
  BY <1>7, <1>8, <1>9

(* A mask that hides a node hides its negation.                            *)
LEMMA NegationHidden ==
    ASSUME NEW n \in Node, n.op = "BNOT", NEW m, NEW c \in n.args, Hides(m, c)
    PROVE  Hides(m, n)
<1> SUFFICES ASSUME NEW K \in Assignments, NEW M \in SUBSET Mask
             PROVE  Value(n, K, M \cup {m}) <=> ~Value(n, K, M \ {m})
  BY DEF Hides
<1>1. IsOp(n) /\ n.args = {c}
  <2>1. IsOp(n) /\ IsFiniteSet(n.args) /\ Cardinality(n.args) = 1
    BY OperandsOfNode DEF IsOp
  <2>2. \E x : n.args = {x}
    BY <2>1, FS_Singleton
  <2>3. QED
    BY <2>1, <2>2
<1>2. M \cup {m} \in SUBSET Mask /\ M \ {m} \in SUBSET Mask
  BY DEF Hides
<1>3. \A N \in SUBSET Mask : Value(n, K, N) <=> ~Value(c, K, N)
  <2> SUFFICES ASSUME NEW N \in SUBSET Mask PROVE Value(n, K, N) <=> ~Value(c, K, N)
    OBVIOUS
  <2>1. Value(n, K, N) <=> SetOperands(n, K, N) = {}
    BY <1>1, ValueOfOperator DEF Combined
  <2>2. QED
    BY <1>1, <2>1 DEF SetOperands
<1>4. Value(c, K, M \cup {m}) <=> ~Value(c, K, M \ {m})
  BY DEF Hides
<1>5. QED
  BY <1>2, <1>3, <1>4

(* The masks that hide an expression, by its values.                       *)
Hiding == {p \in Mask \X Node : Hides(p[1], p[2])}

LEMMA HidingPairs == \A m, n : <<m, n>> \in Hiding <=> n \in Node /\ Hides(m, n)
BY DEF Hiding, Hides

(* A mask hides itself, and the rules by which it comes to hide more hold. *)
LEMMA HidingRules == IsHiding(Hiding, Node)
<1>1. ASSUME NEW n \in Node PROVE n.op \in KnownOps
  BY OperandsOfNode DEF KnownOps
<1>2. ASSUME NEW n \in Node, n.op = "SYMB", n.symb \in Mask PROVE Hides(n.symb, n)
  <2> DEFINE s == n.symb
  <2>1. n = Symb(s) /\ s \in Mask
    BY <1>2, OperandsOfNode DEF IsOp
  <2> HIDE DEF s
  <2>2. Hides(s, n)
    <3> SUFFICES ASSUME NEW K \in Assignments, NEW M \in SUBSET Mask
                 PROVE  Value(n, K, M \cup {s}) <=> ~Value(n, K, M \ {s})
      BY <2>1 DEF Hides
    <3>1. M \cup {s} \in SUBSET Mask /\ M \ {s} \in SUBSET Mask /\ s \notin K
      BY <2>1, InputsAreNotMasks DEF Assignments
    <3>2. QED
      BY <2>1, <3>1, ValueOfLeaf
  <2>3. QED
    BY <2>2 DEF s
<1>3. ASSUME NEW n \in Node, NEW m, NEW c \in Operands(n), c \in Node, Hides(m, c), n.op \in {"BNOT", "UMINUS"}
      PROVE  Hides(m, n)
  BY <1>3, OperandsOfNode, NegationHidden
<1>4. ASSUME NEW n \in Node, NEW m, NEW c \in Operands(n), c \in Node, Hides(m, c), n.op \in {"BXOR", "PLUS"},
             \A d \in Operands(n) \ {c} : m \notin Symbols(d)
      PROVE  Hides(m, n)
  BY <1>4, OperandsOfNode, SumHidden
<1>5. \A m, n : <<m, n>> \in Hiding => m \in Mask
  BY HidingPairs DEF Hides
<1>6. QED
  BY <1>1, <1>2, <1>3, <1>4, <1>5, HidingPairs DEF IsHiding

-----------------------------------------------------------------------------
(* Tuples.                                                                 *)

(* The expressions of a tuple.                                             *)
LEMMA TupleNodes ==
    ASSUME NEW s \in Tuple
    PROVE  /\ s \in Seq(Node) /\ DOMAIN s = 1 .. Len(s) /\ Len(s) \in Nat /\ Len(s) # 0
           /\ \A i \in DOMAIN s : s[i] \in Node /\ s[i] \in NodesOf(s) /\ s[i] \in ToSet(s)
           /\ \A e \in ToSet(s) : e \in Node /\ \E i \in DOMAIN s : e = s[i]
BY TupleAssumption, ExpressionsOfTuple

(* What the node of the loop remembers is true as well.                    *)
LEMMA TupleRemembers ==
    ASSUME NEW s \in Tuple
    PROVE  /\ \A t \in TupleOcc(s).masking : t[3] \in Node /\ Hides(t[1], t[3])
           /\ IsMasked(s) => \E e \in Node, m \in Mask : ToSet(s) = {e} /\ Hides(m, e)
<1>1. AreTrees(Node) /\ AreTuples(Tuple, Node) /\ IsHiding(Hiding, Node)
  BY TreesAssumption, TupleAssumption, HidingRules
<1>2. \A t \in TupleOcc(s).masking : t[3] \in Node /\ <<t[1], t[3]>> \in Hiding
  BY <1>1, TuplesRemember
<1>3. IsMasked(s) => \E e \in Node, m \in Mask : ToSet(s) = {e} /\ <<m, e>> \in Hiding
  BY <1>1, TuplesRemember, SMTT(30)
<1>4. QED
  BY <1>2, <1>3, HidingPairs

(* A hidden pair is a mask and an expression that it hides.                *)
LEMMA HiddenPairs ==
    ASSUME NEW s \in Tuple, NEW p \in Hidden(s)
    PROVE  p[2] \in Node /\ Hides(p[1], p[2])
<1>1. p[2] \in Node /\ <<p[1], p[2]>> \in Hiding
  BY TreesAssumption, TupleAssumption, HidingRules, HiddenInTuple
<1>2. QED
  BY <1>1, HidingPairs

-----------------------------------------------------------------------------
(* The exchange of a mask with a node that it hides.                       *)

(* The values of the masks when m takes the value of ctr.                  *)
Swapped(m, ctr, K, M) == (M \ {m}) \cup {x \in {m} : Value(ctr, K, M)}

(* Then ctr takes the value of m, and doing it again leads back.           *)
LEMMA SwappedTwice ==
    ASSUME NEW m, NEW ctr, Hides(m, ctr), NEW K \in Assignments, NEW M \in SUBSET Mask
    PROVE  /\ Swapped(m, ctr, K, M) \in SUBSET Mask
           /\ m \in Swapped(m, ctr, K, M) <=> Value(ctr, K, M)
           /\ Value(ctr, K, Swapped(m, ctr, K, M)) <=> m \in M
           /\ Swapped(m, ctr, K, Swapped(m, ctr, K, M)) = M
<1> DEFINE N == Swapped(m, ctr, K, M)
<1>1. m \in Mask /\ (Value(ctr, K, M \cup {m}) <=> ~Value(ctr, K, M \ {m}))
  BY DEF Hides
<1>2. N \in SUBSET Mask /\ N \ {m} = M \ {m} /\ (m \in N <=> Value(ctr, K, M))
  BY <1>1 DEF Swapped
<1>3. Value(ctr, K, N) <=> m \in M
  <2>1. CASE m \in M
    <3>1. M = M \cup {m}
      BY <2>1
    <3>2. CASE Value(ctr, K, M)
      <4>1. N = M
        BY <1>2, <2>1, <3>2
      <4>2. QED
        BY <2>1, <3>2, <4>1
    <3>3. CASE ~Value(ctr, K, M)
      <4>1. N = M \ {m}
        BY <1>2, <3>3
      <4>2. QED
        BY <1>1, <2>1, <3>1, <3>3, <4>1
    <3>4. QED
      BY <3>2, <3>3
  <2>2. CASE m \notin M
    <3>1. M = M \ {m}
      BY <2>2
    <3>2. CASE Value(ctr, K, M)
      <4>1. N = M \cup {m}
        BY <1>2, <2>2, <3>2
      <4>2. QED
        BY <1>1, <2>2, <3>1, <3>2, <4>1
    <3>3. CASE ~Value(ctr, K, M)
      <4>1. N = M
        BY <1>2, <2>2, <3>3
      <4>2. QED
        BY <2>2, <3>3, <4>1
    <3>4. QED
      BY <3>2, <3>3
  <2>3. QED
    BY <2>1, <2>2
<1> HIDE DEF N
<1>4. Swapped(m, ctr, K, N) = M
  BY <1>2, <1>3 DEF Swapped
<1>5. QED
  BY <1>2, <1>3, <1>4 DEF N

(* An operator on operands that have changed their values changes its own  *)
(* as they do: those that cancel in a sum do not count.                    *)
LEMMA RebuiltValue ==
    ASSUME NEW e \in Node, IsOp(e), NEW f \in [e.args -> Node], Rebuilt(e, f) \in Node,
           NEW K \in Assignments, NEW M \in SUBSET Mask, NEW N \in SUBSET Mask,
           \A c \in e.args : Value(f[c], K, M) <=> Value(c, K, N)
    PROVE  Value(Rebuilt(e, f), K, M) <=> Value(e, K, N)
<1> DEFINE r == Rebuilt(e, f)
           I == {f[c] : c \in e.args}
           T == SetOperands(e, K, N)
           U == SetOperands(r, K, M)
<1>1. /\ r.op = e.op /\ IsOp(r)
      /\ e.op # "BXOR" => r.args = I
      /\ e.op = "BXOR" => r.args = Uncancelled(e.args, f)
  BY DEF Rebuilt, OpNode, IsOp, Uncancelled, Odd
<1>2. IsFiniteSet(e.args) /\ e.op \in {"BXOR", "BAND", "BOR", "BNOT"}
  BY OperandsOfNode
<1>3. Value(r, K, M) <=> Combined(e.op, r.args, U)
  <2> HIDE DEF r
  <2>1. r \in Node
    BY DEF r
  <2>2. QED
    BY <1>1, <2>1, ValueOfOperator
<1>4. Value(e, K, N) <=> Combined(e.op, e.args, T)
  BY ValueOfOperator
<1>5. /\ \A c \in e.args : c \in T <=> Value(f[c], K, M)
      /\ \A d : d \in U <=> d \in r.args /\ Value(d, K, M)
      /\ T \subseteq e.args
  BY DEF SetOperands
<1> HIDE DEF r, T, U
<1>6. CASE e.op # "BXOR"
  <2>1. \A d : d \in U <=> \E c \in e.args : d = f[c] /\ c \in T
    BY <1>1, <1>5, <1>6
  <2>2. (U = {} <=> T = {}) /\ (U = r.args <=> T = e.args)
    <3>1. U = {} <=> T = {}
      BY <1>5, <2>1
    <3>2. U = r.args => T = e.args
      BY <1>1, <1>5, <1>6, <2>1
    <3>3. T = e.args => U = r.args
      BY <1>1, <1>5, <1>6, <2>1
    <3>4. QED
      BY <3>1, <3>2, <3>3
  <2>3. QED
    BY <1>2, <1>3, <1>4, <1>6, <2>2 DEF Combined, r
<1>7. CASE e.op = "BXOR"
  <2> DEFINE P == {d \in I : Value(d, K, M)}
  <2>1. {c \in e.args : f[c] \in P} = T
    BY <1>5
  <2>2. U = Uncancelled(e.args, f) \cap P
    <3> DEFINE V == Uncancelled(e.args, f)
    <3>1. V \subseteq I
      BY DEF Uncancelled
    <3>2. \A d : d \in U <=> d \in V /\ Value(d, K, M)
      BY <1>1, <1>5, <1>7
    <3> HIDE DEF V, I
    <3>3. \A d : d \in U <=> d \in V /\ d \in P
      BY <3>1, <3>2
    <3>4. U = V \cap P
      BY <3>3
    <3>5. QED
      BY <3>4 DEF V
  <2> HIDE DEF P
  <2>3. Odd(T) <=> Odd(U)
    <3> DEFINE S == e.args
    <3>1. IsFiniteSet(S)
      BY <1>2
    <3> HIDE DEF S
    <3>2. Odd({c \in S : f[c] \in P}) <=> Odd(Uncancelled(S, f) \cap P)
      BY <3>1, OddAfterCancelling
    <3>3. QED
      BY <2>1, <2>2, <3>2, Zenon DEF S
  <2>4. QED
    BY <1>3, <1>4, <1>7, <2>3 DEF Combined, Odd, r
<1>8. QED
  BY <1>6, <1>7

(* After the exchange of m and ctr an expression has, for every value of   *)
(* the masks, the value it had when m took that of ctr.                    *)
LEMMA ReplacedValue ==
    ASSUME NEW s \in Tuple, NEW p \in Hidden(s), NEW K \in Assignments, NEW M \in SUBSET Mask
    PROVE  \A e \in NodesOf(s) :
              Value(Replaced(e, p[1], p[2]), K, M) <=> Value(e, K, Swapped(p[1], p[2], K, M))
<1> DEFINE m == p[1]
           ctr == p[2]
           N == Swapped(m, ctr, K, M)
           B == {e \in NodesOf(s) : ~(Value(Replaced(e, m, ctr), K, M) <=> Value(e, K, N))}
<1>1. ctr \in Node /\ Hides(m, ctr)
  BY HiddenPairs
<1>2. N \in SUBSET Mask /\ (m \in N <=> Value(ctr, K, M)) /\ (Value(ctr, K, N) <=> m \in M)
  BY <1>1, SwappedTwice
<1>3. NodesOf(s) \subseteq Node /\ \A n \in NodesOf(s) : Operands(n) \subseteq NodesOf(s)
  BY TupleAssumption DEF AreTuples
<1>4. \A e \in NodesOf(s) : /\ Replaced(e, m, ctr) \in Node
                            /\ Replaced(e, m, ctr)
                                  = ReplacedOf(e, m, ctr, [c \in Operands(e) |-> Replaced(c, m, ctr)])
  BY ReplacedAssumption
<1>5. m \in Mask /\ m \notin K
  BY <1>1, InputsAreNotMasks DEF Hides, Assignments
<1>6. N \ {m} = M \ {m}
  BY DEF Swapped
<1> HIDE DEF m, ctr, N
<1> SUFFICES ASSUME B # {} PROVE FALSE
  BY DEF m, ctr, N
<1>7. B \in SUBSET Node
  BY <1>3
<1>8. PICK e \in B : \A c \in Operands(e) : c \in Node /\ c \notin B
  BY <1>7, LowestNode
<1>9. /\ e \in NodesOf(s) /\ e \in Node /\ ~(Value(Replaced(e, m, ctr), K, M) <=> Value(e, K, N))
      /\ \A c \in Operands(e) : /\ c \in NodesOf(s)
                                /\ Value(Replaced(c, m, ctr), K, M) <=> Value(c, K, N)
  BY <1>3, <1>8
<1> HIDE DEF B
<1> DEFINE f == [c \in Operands(e) |-> Replaced(c, m, ctr)]
<1>10. Replaced(e, m, ctr) = ReplacedOf(e, m, ctr, f) /\ Replaced(e, m, ctr) \in Node
  BY <1>4, <1>9
<1>11. f \in [Operands(e) -> Node] /\ \A c \in Operands(e) : f[c] = Replaced(c, m, ctr)
  BY <1>4, <1>9
<1> HIDE DEF f
<1>12. CASE e = ctr
  <2>1. Replaced(e, m, ctr) = Symb(m)
    BY <1>10, <1>12 DEF ReplacedOf
  <2>2. Value(Symb(m), K, M) <=> m \in K \cup M
    BY <1>10, <2>1, ValueOfLeaf
  <2>3. QED
    BY <1>2, <1>5, <1>9, <1>12, <2>1, <2>2
<1>13. CASE e # ctr /\ e = Symb(m)
  <2>1. Replaced(e, m, ctr) = ctr
    BY <1>10, <1>13 DEF ReplacedOf
  <2>2. Value(Symb(m), K, N) <=> m \in K \cup N
    BY <1>2, <1>9, <1>13, ValueOfLeaf
  <2>3. QED
    BY <1>2, <1>5, <1>9, <1>13, <2>1, <2>2
<1>14. CASE e # ctr /\ e # Symb(m) /\ ~IsOp(e)
  <2>1. Replaced(e, m, ctr) = e
    BY <1>10, <1>14 DEF ReplacedOf
  <2>2. \/ e = Symb(e.symb)
        \/ e = Const(e.cst)
    BY <1>9, <1>14, OperandsOfNode
  <2>3. CASE e = Symb(e.symb)
    <3> DEFINE x == e.symb
    <3>1. e = Symb(x) /\ x # m
      BY <1>14, <2>3
    <3> HIDE DEF x
    <3>2. (Value(e, K, M) <=> x \in K \cup M) /\ (Value(e, K, N) <=> x \in K \cup N)
      BY <1>2, <1>9, <3>1, ValueOfLeaf
    <3>3. QED
      BY <1>6, <1>9, <2>1, <3>1, <3>2
  <2>4. CASE e = Const(e.cst)
    <3> DEFINE b == e.cst
    <3>1. e = Const(b)
      BY <2>4
    <3> HIDE DEF b
    <3>2. (Value(Const(b), K, M) <=> b) /\ (Value(Const(b), K, N) <=> b)
      BY <1>2, <1>9, <3>1, ValueOfLeaf
    <3>3. QED
      BY <1>9, <2>1, <3>1, <3>2
  <2>5. QED
    BY <2>2, <2>3, <2>4
<1>15. CASE e # ctr /\ e # Symb(m) /\ IsOp(e)
  <2>1. Replaced(e, m, ctr) = Rebuilt(e, f)
    BY <1>10, <1>15 DEF ReplacedOf
  <2>2. Operands(e) = e.args
    BY <1>9, <1>15, OperandsOfNode
  <2>3. \A c \in e.args : Value(f[c], K, M) <=> Value(c, K, N)
    BY <1>9, <1>11, <2>2
  <2>4. Value(Rebuilt(e, f), K, M) <=> Value(e, K, N)
    BY <1>2, <1>9, <1>10, <1>11, <1>15, <2>1, <2>2, <2>3, RebuiltValue
  <2>5. QED
    BY <1>9, <2>1, <2>4
<1>16. QED
  BY <1>12, <1>13, <1>14, <1>15

-----------------------------------------------------------------------------
(* Distributions are counts of the values of the masks.                    *)

At(f, o) == {M \in SUBSET Mask : f[M] = o}

Counts(f) == [o \in {f[M] : M \in SUBSET Mask} |-> Cardinality(At(f, o))]

(* There are finitely many values of the masks.                            *)
LEMMA AtFinite == ASSUME NEW f, NEW o PROVE IsFiniteSet(At(f, o))
<1>1. IsFiniteSet(SUBSET Mask)
  BY SymbolsAssumption, FS_SUBSET
<1>2. At(f, o) \subseteq SUBSET Mask
  BY DEF At
<1>3. QED
  BY <1>1, <1>2, FS_Subset

(* Counts agree when they agree on each result.                            *)
LEMMA CountsAgree ==
    ASSUME NEW f, NEW g
    PROVE  Counts(f) = Counts(g) <=> \A o : Cardinality(At(f, o)) = Cardinality(At(g, o))
<1> DEFINE D(h) == {h[M] : M \in SUBSET Mask}
<1>1. \A h : Counts(h) = [o \in D(h) |-> Cardinality(At(h, o))]
  BY DEF Counts
<1>2. \A h, o : o \in D(h) <=> At(h, o) # {}
  BY DEF At
<1> HIDE DEF D
<1>3. ASSUME Counts(f) = Counts(g), NEW o PROVE Cardinality(At(f, o)) = Cardinality(At(g, o))
  <2>1. D(f) = D(g)
    BY <1>1, <1>3
  <2>2. CASE o \in D(f)
    <3>1. Counts(f)[o] = Cardinality(At(f, o)) /\ Counts(g)[o] = Cardinality(At(g, o))
      BY <1>1, <2>1, <2>2
    <3>2. QED
      BY <1>3, <3>1
  <2>3. CASE o \notin D(f)
    BY <1>2, <2>1, <2>3
  <2>4. QED
    BY <2>2, <2>3
<1>4. ASSUME \A o : Cardinality(At(f, o)) = Cardinality(At(g, o)) PROVE Counts(f) = Counts(g)
  <2>1. \A h, o : o \in D(h) <=> Cardinality(At(h, o)) # 0
    BY <1>2, AtFinite, FS_EmptySet
  <2>2. D(f) = D(g)
    BY <1>4, <2>1
  <2>3. Counts(f) = [o \in D(f) |-> Cardinality(At(f, o))] /\ Counts(g) = [o \in D(f) |-> Cardinality(At(g, o))]
    BY <1>1, <2>2
  <2>4. QED
    BY <1>4, <2>3
<1>5. QED
  BY <1>3, <1>4

(* A permutation that turns the results of f into those of g keeps counts. *)
LEMMA CountsPermuted ==
    ASSUME NEW f, NEW g, NEW B \in [SUBSET Mask -> SUBSET Mask],
           \A M \in SUBSET Mask : B[B[M]] = M /\ g[B[M]] = f[M]
    PROVE  Counts(f) = Counts(g)
<1> SUFFICES ASSUME NEW o PROVE Cardinality(At(f, o)) = Cardinality(At(g, o))
  BY CountsAgree
<1> DEFINE S == At(f, o)
           T == At(g, o)
           C == [M \in S |-> B[M]]
<1>1. /\ \A M : M \in S <=> M \in SUBSET Mask /\ f[M] = o
      /\ \A M : M \in T <=> M \in SUBSET Mask /\ g[M] = o
  BY DEF At
<1> HIDE DEF S, T
<1>2. \A M \in SUBSET Mask : B[M] \in SUBSET Mask /\ B[B[M]] = M /\ g[B[M]] = f[M]
  OBVIOUS
<1>3. C \in [S -> T]
  BY <1>1, <1>2
<1>4. \A M, N \in S : C[M] = C[N] => M = N
  BY <1>1, <1>2
<1>5. \A N \in T : \E M \in S : C[M] = N
  <2> SUFFICES ASSUME NEW N \in T PROVE B[N] \in S /\ B[B[N]] = N
    BY Zenon
  <2>1. N \in SUBSET Mask /\ g[N] = o
    BY <1>1
  <2>2. g[B[B[N]]] = f[B[N]]
    BY <1>2, <2>1
  <2>3. QED
    BY <1>1, <1>2, <2>1, <2>2
<1> HIDE DEF C
<1>6. ExistsBijection(S, T)
  <2>1. C \in Bijection(S, T)
    BY <1>3, <1>4, <1>5, Fun_IsBij
  <2>2. QED
    BY <2>1 DEF ExistsBijection
<1>7. QED
  BY <1>6, AtFinite, FS_Bijection DEF S, T

(* Two ways of writing the same results down have the same counts.         *)
LEMMA CountsRelabelled ==
    ASSUME NEW f, NEW g, NEW f2, NEW g2, Counts(f) = Counts(g),
           \A M, N \in SUBSET Mask : /\ f[M] = f[N] <=> f2[M] = f2[N]
                                     /\ g[M] = g[N] <=> g2[M] = g2[N]
                                     /\ f[M] = g[N] <=> f2[M] = g2[N]
    PROVE  Counts(f2) = Counts(g2)
<1> SUFFICES ASSUME NEW o PROVE Cardinality(At(f2, o)) = Cardinality(At(g2, o))
  BY CountsAgree
<1>1. \A r : Cardinality(At(f, r)) = Cardinality(At(g, r))
  BY CountsAgree
<1>2. CASE \E N \in SUBSET Mask : f2[N] = o
  <2>1. PICK N \in SUBSET Mask : f2[N] = o
    BY <1>2
  <2>2. At(f2, o) = At(f, f[N]) /\ At(g2, o) = At(g, f[N])
    BY <2>1 DEF At
  <2>3. QED
    BY <1>1, <2>2
<1>3. CASE \E N \in SUBSET Mask : g2[N] = o
  <2>1. PICK N \in SUBSET Mask : g2[N] = o
    BY <1>3
  <2>2. At(f2, o) = At(f, g[N]) /\ At(g2, o) = At(g, g[N])
    BY <2>1 DEF At
  <2>3. QED
    BY <1>1, <2>2
<1>4. CASE ~(\E N \in SUBSET Mask : f2[N] = o) /\ ~(\E N \in SUBSET Mask : g2[N] = o)
  <2>1. At(f2, o) = {} /\ At(g2, o) = {}
    BY <1>4 DEF At
  <2>2. QED
    BY <2>1
<1>5. QED
  BY <1>2, <1>3, <1>4

ShownFor(s, K) == [M \in SUBSET Mask |-> Shown(s, K, M)]
ObservedFor(E, K) == [M \in SUBSET Mask |-> Observed(E, K, M)]

(* The distributions are such counts.                                      *)
LEMMA DistributionCounts ==
    ASSUME NEW s, NEW E, NEW K
    PROVE  JointDistribution(s, K) = Counts(ShownFor(s, K)) /\ Distribution(E, K) = Counts(ObservedFor(E, K))
<1>1. JointDistribution(s, K) = Counts(ShownFor(s, K))
  <2> DEFINE f == ShownFor(s, K)
  <2>1. \A M \in SUBSET Mask : f[M] = Shown(s, K, M)
    BY DEF ShownFor
  <2> HIDE DEF f
  <2>2. {Shown(s, K, M) : M \in SUBSET Mask} = {f[M] : M \in SUBSET Mask}
    BY <2>1
  <2>3. \A o : {M \in SUBSET Mask : Shown(s, K, M) = o} = At(f, o)
    BY <2>1 DEF At
  <2>4. JointDistribution(s, K) = Counts(f)
    BY <2>2, <2>3 DEF JointDistribution, Counts
  <2>5. QED
    BY <2>4 DEF f
<1>2. Distribution(E, K) = Counts(ObservedFor(E, K))
  <2> DEFINE f == ObservedFor(E, K)
  <2>1. \A M \in SUBSET Mask : f[M] = Observed(E, K, M)
    BY DEF ObservedFor
  <2> HIDE DEF f
  <2>2. {Observed(E, K, M) : M \in SUBSET Mask} = {f[M] : M \in SUBSET Mask}
    BY <2>1
  <2>3. \A o : {M \in SUBSET Mask : Observed(E, K, M) = o} = At(f, o)
    BY <2>1 DEF At
  <2>4. Distribution(E, K) = Counts(f)
    BY <2>2, <2>3 DEF Distribution, Counts
  <2>5. QED
    BY <2>4 DEF f
<1>3. QED
  BY <1>1, <1>2

(* Position by position or expression by expression: the same is revealed. *)
LEMMA JointOrNot ==
    ASSUME NEW s \in Tuple, NEW K, NEW L
    PROVE  JointDistribution(s, K) = JointDistribution(s, L)
              <=> Distribution(ToSet(s), K) = Distribution(ToSet(s), L)
<1> DEFINE E == ToSet(s)
<1>1. /\ \A i \in DOMAIN s : s[i] \in E
      /\ \A e \in E : \E i \in DOMAIN s : e = s[i]
  BY TupleNodes
<1> HIDE DEF E
<1> DEFINE Alike(J, H) ==
              \A M, N \in SUBSET Mask :
                 ShownFor(s, J)[M] = ShownFor(s, H)[N] <=> ObservedFor(E, J)[M] = ObservedFor(E, H)[N]
<1>2. ASSUME NEW J, NEW H PROVE Alike(J, H)
  <2> SUFFICES ASSUME NEW M \in SUBSET Mask, NEW N \in SUBSET Mask
               PROVE  Shown(s, J, M) = Shown(s, H, N) <=> Observed(E, J, M) = Observed(E, H, N)
    BY DEF ShownFor, ObservedFor
  <2>1. Shown(s, J, M) = Shown(s, H, N) <=> \A i \in DOMAIN s : Value(s[i], J, M) <=> Value(s[i], H, N)
    BY DEF Shown
  <2>2. Observed(E, J, M) = Observed(E, H, N) <=> \A e \in E : Value(e, J, M) <=> Value(e, H, N)
    BY DEF Observed
  <2>3. QED
    BY <1>1, <2>1, <2>2
<1>3. Counts(ShownFor(s, K)) = Counts(ShownFor(s, L)) <=> Counts(ObservedFor(E, K)) = Counts(ObservedFor(E, L))
  <2>1. Alike(K, K) /\ Alike(L, L) /\ Alike(K, L)
    <3> HIDE DEF Alike
    <3>1. QED
      BY <1>2
  <2> DEFINE f == ShownFor(s, K)
             g == ShownFor(s, L)
             f2 == ObservedFor(E, K)
             g2 == ObservedFor(E, L)
  <2> HIDE DEF f, g, f2, g2
  <2>2. \A M, N \in SUBSET Mask : /\ f[M] = f[N] <=> f2[M] = f2[N]
                                  /\ g[M] = g[N] <=> g2[M] = g2[N]
                                  /\ f[M] = g[N] <=> f2[M] = g2[N]
    BY <2>1 DEF f, g, f2, g2
  <2>3. Counts(f) = Counts(g) => Counts(f2) = Counts(g2)
    BY <2>2, CountsRelabelled
  <2>4. Counts(f2) = Counts(g2) => Counts(f) = Counts(g)
    BY <2>2, CountsRelabelled
  <2>5. QED
    BY <2>3, <2>4 DEF f, g, f2, g2
<1>4. QED
  BY <1>3, DistributionCounts DEF E

-----------------------------------------------------------------------------
(* Every turn keeps the distribution.                                      *)

SameDistribution(s, t) == \A K \in Assignments : JointDistribution(s, K) = JointDistribution(t, K)

(* simplify keeps every value.                                             *)
LEMMA SimplifiedSame ==
    ASSUME NEW s, \A i \in DOMAIN s : s[i] \in Node, NEW t \in SimplifiedTuples(s)
    PROVE  DOMAIN t = DOMAIN s /\ t \in Tuple /\ SameDistribution(t, s)
<1>1. DOMAIN t = DOMAIN s /\ t \in Tuple /\ \A i \in DOMAIN s : t[i] \in Simplified(s[i])
  BY DEF SimplifiedTuples
<1>2. ASSUME NEW K \in Assignments, NEW M \in SUBSET Mask PROVE Shown(t, K, M) = Shown(s, K, M)
  <2>1. \A i \in DOMAIN s : Value(t[i], K, M) <=> Value(s[i], K, M)
    BY <1>1, SimplifiedAssumption DEF Assignments
  <2>2. QED
    BY <1>1, <2>1 DEF Shown
<1>3. ASSUME NEW K \in Assignments PROVE JointDistribution(t, K) = JointDistribution(s, K)
  BY <1>2 DEF JointDistribution
<1>4. QED
  BY <1>1, <1>3 DEF SameDistribution

(* An exchange of a mask with what it hides permutes the values of the     *)
(* mask.                                                                   *)
LEMMA ReplacedSame ==
    ASSUME NEW s \in Tuple, NEW p \in Hidden(s),
           NEW t, t = [i \in DOMAIN s |-> Replaced(s[i], p[1], p[2])]
    PROVE  SameDistribution(t, s) /\ \A i \in DOMAIN t : t[i] \in Node
<1>1. Hides(p[1], p[2])
  BY HiddenPairs
<1>2. \A i \in DOMAIN t : t[i] \in Node
  BY TupleNodes, ReplacedAssumption
<1>3. ASSUME NEW K \in Assignments PROVE Counts(ShownFor(t, K)) = Counts(ShownFor(s, K))
  <2> DEFINE B == [M \in SUBSET Mask |-> Swapped(p[1], p[2], K, M)]
             f == ShownFor(t, K)
             g == ShownFor(s, K)
  <2>1. \A M \in SUBSET Mask : /\ B[M] = Swapped(p[1], p[2], K, M) /\ B[M] \in SUBSET Mask
                               /\ Swapped(p[1], p[2], K, B[M]) = M
    BY <1>1, SwappedTwice
  <2>2. B \in [SUBSET Mask -> SUBSET Mask]
    BY <2>1
  <2>4. ASSUME NEW M \in SUBSET Mask PROVE Shown(t, K, M) = Shown(s, K, B[M])
    <3>1. \A i \in DOMAIN s : Value(t[i], K, M) <=> Value(s[i], K, B[M])
      BY <2>1, TupleNodes, ReplacedValue
    <3>2. DOMAIN t = DOMAIN s
      OBVIOUS
    <3> HIDE DEF B
    <3>3. QED
      BY <3>1, <3>2 DEF Shown
  <2>5. \A M \in SUBSET Mask : B[B[M]] = M /\ g[B[M]] = f[M]
    BY <2>1, <2>4 DEF ShownFor
  <2> HIDE DEF B, f, g
  <2>6. Counts(f) = Counts(g)
    BY <2>2, <2>5, CountsPermuted
  <2>7. QED
    BY <2>6 DEF f, g
<1>4. QED
  BY <1>2, <1>3, DistributionCounts DEF SameDistribution

-----------------------------------------------------------------------------
(* Tuples with the same distribution have the same effective inputs.       *)

(* An input is effective when it changes the distribution for some value   *)
(* of all the others.                                                      *)
LEMMA EffectiveInputs ==
    ASSUME NEW E, E \subseteq Node
    PROVE  Effective(E) = {x \in Secret \cup Share :
                              \E K \in Assignments : Distribution(E, K) # Distribution(E, K \cup {x})}
<1> DEFINE I == InputsIn(E)
<1>1. I \subseteq Secret \cup Share
  BY DEF InputsIn
<1>2. \A K \in Assignments : Distribution(E, K) = Distribution(E, K \cap I)
  BY NodesSupported, DistributionOfInputs DEF Assignments
<1>3. Effective(E) = {x \in I : \E K \in SUBSET (I \ {x}) : Distribution(E, K) # Distribution(E, K \cup {x})}
  BY DEF Effective
<1> HIDE DEF I
<1>4. ASSUME NEW x \in Secret \cup Share, NEW K \in Assignments, Distribution(E, K) # Distribution(E, K \cup {x})
      PROVE  x \in Effective(E)
  <2>1. K \cup {x} \in Assignments
    BY DEF Assignments
  <2>2. Distribution(E, K \cap I) # Distribution(E, (K \cup {x}) \cap I)
    BY <1>2, <1>4, <2>1
  <2>3. x \in I /\ x \notin K
    <3>1. CASE x \notin I
      <4>1. (K \cup {x}) \cap I = K \cap I
        BY <3>1
      <4>2. QED
        BY <2>2, <4>1
    <3>2. CASE x \in K
      <4>1. K \cup {x} = K
        BY <3>2
      <4>2. QED
        BY <1>4, <4>1
    <3>3. QED
      BY <3>1, <3>2
  <2>4. (K \cup {x}) \cap I = (K \cap I) \cup {x} /\ K \cap I \in SUBSET (I \ {x})
    BY <2>3
  <2>5. \E J \in SUBSET (I \ {x}) : Distribution(E, J) # Distribution(E, J \cup {x})
    BY <2>2, <2>4
  <2>6. QED
    BY <1>3, <2>3, <2>5
<1>5. ASSUME NEW x \in Effective(E)
      PROVE  x \in Secret \cup Share /\ \E K \in Assignments : Distribution(E, K) # Distribution(E, K \cup {x})
  BY <1>1, <1>3 DEF Assignments
<1>6. QED
  BY <1>4, <1>5

(* The same distributions, the same effective inputs.                      *)
LEMMA EffectiveSame ==
    ASSUME NEW s \in Tuple, NEW t \in Tuple, SameDistribution(s, t)
    PROVE  Effective(ToSet(s)) = Effective(ToSet(t))
<1>1. ToSet(s) \subseteq Node /\ ToSet(t) \subseteq Node
  BY TupleNodes
<1>2. ASSUME NEW K \in Assignments, NEW L \in Assignments
      PROVE  Distribution(ToSet(s), K) = Distribution(ToSet(s), L)
                <=> Distribution(ToSet(t), K) = Distribution(ToSet(t), L)
  <2>1. JointDistribution(s, K) = JointDistribution(t, K) /\ JointDistribution(s, L) = JointDistribution(t, L)
    BY DEF SameDistribution
  <2>2. QED
    BY <2>1, JointOrNot
<1>3. \A x \in Secret \cup Share : \A K \in Assignments : K \cup {x} \in Assignments
  BY DEF Assignments
<1>4. \A x \in Secret \cup Share : \A K \in Assignments :
         Distribution(ToSet(s), K) # Distribution(ToSet(s), K \cup {x})
            <=> Distribution(ToSet(t), K) # Distribution(ToSet(t), K \cup {x})
  BY <1>2, <1>3
<1>5. {x \in Secret \cup Share : \E K \in Assignments : Distribution(ToSet(s), K) # Distribution(ToSet(s), K \cup {x})}
    = {x \in Secret \cup Share : \E K \in Assignments : Distribution(ToSet(t), K) # Distribution(ToSet(t), K \cup {x})}
  BY <1>4
<1>6. QED
  BY <1>1, <1>5, EffectiveInputs

(* An expression that a mask hides reveals nothing.                        *)
LEMMA HiddenRevealsNothing ==
    ASSUME NEW e \in Node, NEW m, Hides(m, e)
    PROVE  Effective({e}) = {}
<1>1. m \in Mask
  BY DEF Hides
<1>2. ASSUME NEW K \in Assignments, NEW L \in Assignments
      PROVE  Counts(ObservedFor({e}, K)) = Counts(ObservedFor({e}, L))
  <2> DEFINE Flipped(M) == IF m \in M THEN M \ {m} ELSE M \cup {m}
             B == [M \in SUBSET Mask |-> IF Value(e, K, M) <=> Value(e, L, M) THEN M ELSE Flipped(M)]
             f == ObservedFor({e}, K)
             g == ObservedFor({e}, L)
  <2>1. ASSUME NEW M \in SUBSET Mask
        PROVE  /\ Flipped(M) \in SUBSET Mask /\ Flipped(Flipped(M)) = M
               /\ \A J \in Assignments : Value(e, J, Flipped(M)) <=> ~Value(e, J, M)
    <3>1. Flipped(M) \in SUBSET Mask /\ Flipped(Flipped(M)) = M
      BY <1>1
    <3>2. ASSUME NEW J \in Assignments PROVE Value(e, J, Flipped(M)) <=> ~Value(e, J, M)
      <4>1. Value(e, J, M \cup {m}) <=> ~Value(e, J, M \ {m})
        BY DEF Hides
      <4>2. CASE m \in M
        <5>1. M \cup {m} = M /\ Flipped(M) = M \ {m}
          BY <4>2
        <5>2. QED
          BY <4>1, <5>1
      <4>3. CASE m \notin M
        <5>1. M \ {m} = M /\ Flipped(M) = M \cup {m}
          BY <4>3
        <5>2. QED
          BY <4>1, <5>1
      <4>4. QED
        BY <4>2, <4>3
    <3>3. QED
      BY <3>1, <3>2
  <2> HIDE DEF Flipped
  <2>2. ASSUME NEW M \in SUBSET Mask
        PROVE  B[M] \in SUBSET Mask /\ B[B[M]] = M /\ (Value(e, L, B[M]) <=> Value(e, K, M))
    <3>1. CASE Value(e, K, M) <=> Value(e, L, M)
      BY <3>1
    <3>2. CASE ~(Value(e, K, M) <=> Value(e, L, M))
      <4>1. B[M] = Flipped(M)
        BY <3>2
      <4>2. Flipped(M) \in SUBSET Mask
        BY <2>1
      <4>3. ~(Value(e, K, Flipped(M)) <=> Value(e, L, Flipped(M)))
        BY <2>1, <3>2
      <4>4. B[Flipped(M)] = Flipped(Flipped(M))
        BY <4>2, <4>3
      <4>5. QED
        BY <2>1, <3>2, <4>1, <4>4
    <3>3. QED
      BY <3>1, <3>2
  <2>3. B \in [SUBSET Mask -> SUBSET Mask]
    BY <2>2
  <2> HIDE DEF B
  <2>4. \A M \in SUBSET Mask : Observed({e}, L, B[M]) = Observed({e}, K, M)
    BY <2>2 DEF Observed
  <2>5. \A M \in SUBSET Mask : B[B[M]] = M /\ g[B[M]] = f[M]
    BY <2>2, <2>4 DEF ObservedFor
  <2> HIDE DEF f, g
  <2>6. Counts(f) = Counts(g)
    BY <2>3, <2>5, CountsPermuted
  <2>7. QED
    BY <2>6 DEF f, g
<1>3. \A K, L \in Assignments : Distribution({e}, K) = Distribution({e}, L)
  BY <1>2, DistributionCounts
<1>4. \A x \in Secret \cup Share : \A K \in Assignments : K \cup {x} \in Assignments
  BY DEF Assignments
<1> DEFINE E == {e}
<1>5. E \subseteq Node
  OBVIOUS
<1>6. \A K, L \in Assignments : Distribution(E, K) = Distribution(E, L)
  BY <1>3
<1> HIDE DEF E
<1>7. Effective(E) = {x \in Secret \cup Share :
                         \E K \in Assignments : Distribution(E, K) # Distribution(E, K \cup {x})}
  BY <1>5, EffectiveInputs
<1>8. Effective(E) = {}
  BY <1>4, <1>6, <1>7
<1>9. QED
  BY <1>8 DEF E

-----------------------------------------------------------------------------
(* What the enumeration says of a tuple.                                   *)

(* The effective inputs are of the kind the property is about.             *)
LEMMA EffectiveKind ==
    ASSUME NEW q \in Queries, NEW s \in Tuples(q)
    PROVE  Effective(ToSet(s)) \subseteq IF q.secProp = "TPS" THEN Secret \ Share ELSE Share \ Secret
<1>1. Effective(ToSet(s)) \subseteq InputsIn(ToSet(s))
  BY DEF Effective
<1>2. InputsIn(ToSet(s)) \subseteq IF q.secProp = "TPS" THEN Secret \ Share ELSE Share \ Secret
  BY TuplesAssumption
<1>3. QED
  BY <1>1, <1>2

(* It depends on the effective inputs alone.                               *)
LEMMA HoldsByEffective ==
    ASSUME query \in Queries, NEW E
    PROVE  HoldsOf(E) <=>
              CASE query.secProp = "TPS" -> Effective(E) = {}
                [] query.secProp = "NI" ->
                     \A s \in Secret : Cardinality(Effective(E) \cap SharesOf(s)) <= query.maxShareOcc
                [] query.secProp = "RNI" ->
                     \A s \in Secret : Cardinality(Effective(E) \cap SharesOf(s)) + query.diff < NbShares
                [] query.secProp \in {"PINI", "OPINI"} ->
                     Cardinality({ShareNum(sh) : sh \in Effective(E)} \ query.outputIndexes) <= query.maxShareOcc
<1>1. CASE query.secProp = "TPS"
  BY <1>1 DEF HoldsOf, IsTPSWithExev
<1>2. CASE query.secProp = "NI"
  BY <1>2 DEF HoldsOf, IsNIWithExev
<1>3. CASE query.secProp = "RNI"
  <2>1. query.diff \in Nat /\ query.diff < NbShares
    BY <1>3, QueriesAssumption
  <2>2. \A s \in Secret : InputsIn(E) \cap SharesOf(s) = {} => Effective(E) \cap SharesOf(s) = {}
    BY DEF Effective
  <2>3. \A s \in Secret : InputsIn(E) \cap SharesOf(s) = {} =>
           Cardinality(Effective(E) \cap SharesOf(s)) + query.diff < NbShares
    BY <2>1, <2>2, NbSharesAssumption, FS_EmptySet
  <2>4. QED
    BY <1>3, <2>3 DEF HoldsOf, IsRNIWithExev
<1>4. CASE query.secProp \in {"PINI", "OPINI"}
  BY <1>4 DEF HoldsOf, IsPINIWithExev, EffectiveIndexes
<1>5. QED
  BY <1>1, <1>2, <1>3, <1>4, QueriesAssumption

(* A tuple that reveals nothing has the property.                          *)
LEMMA NothingHolds ==
    ASSUME query \in Queries, NEW E, Effective(E) = {}
    PROVE  HoldsOf(E)
<1>1. \A s : Effective(E) \cap SharesOf(s) = {}
  OBVIOUS
<1>2. {ShareNum(sh) : sh \in Effective(E)} \ query.outputIndexes = {}
  OBVIOUS
<1>3. Cardinality({}) = 0
  BY FS_EmptySet
<1>4. CASE query.secProp = "TPS"
  BY <1>4, HoldsByEffective
<1>5. CASE query.secProp = "NI"
  <2>1. 0 <= query.maxShareOcc
    BY <1>5, QueriesAssumption
  <2>2. QED
    BY <1>1, <1>3, <1>5, <2>1, HoldsByEffective
<1>6. CASE query.secProp = "RNI"
  <2>1. 0 + query.diff < NbShares
    BY <1>6, QueriesAssumption, NbSharesAssumption
  <2>2. QED
    BY <1>1, <1>3, <1>6, <2>1, HoldsByEffective
<1>7. CASE query.secProp \in {"PINI", "OPINI"}
  <2>1. 0 <= query.maxShareOcc
    BY <1>7, QueriesAssumption
  <2>2. QED
    BY <1>2, <1>3, <1>7, <2>1, HoldsByEffective
<1>8. QED
  BY <1>4, <1>5, <1>6, <1>7, QueriesAssumption

(* The indexes that occur include those that are effective.                *)
LEMMA OccurringIndexes ==
    ASSUME query \in Queries, asked \in Tuples(query), query.secProp # "TPS",
           Effective(ToSet(roots)) = Effective(ToSet(asked))
    PROVE  LET occurring == IndexesOf(Inputs, query.outputIndexes)
               effective == EffectiveIndexes(ToSet(asked)) \ query.outputIndexes
           IN  /\ effective \subseteq occurring
               /\ occurring \subseteq 0 .. NbShares - 1
               /\ IsFiniteSet(occurring) /\ Cardinality(occurring) \in Nat
               /\ IsFiniteSet(effective) /\ Cardinality(effective) \in Nat
               /\ Cardinality(effective) <= Cardinality(occurring)
<1> DEFINE occurring == IndexesOf(Inputs, query.outputIndexes)
           effective == EffectiveIndexes(ToSet(asked)) \ query.outputIndexes
<1>1. Effective(ToSet(asked)) \subseteq Share
  BY EffectiveKind
<1>2. Effective(ToSet(asked)) \subseteq Inputs
  BY DEF Effective, Inputs
<1>3. effective \subseteq occurring
  BY <1>1, <1>2 DEF EffectiveIndexes, IndexesOf
<1>4. occurring \subseteq 0 .. NbShares - 1
  BY ShareNumAssumption DEF IndexesOf
<1>5. IsFiniteSet(0 .. NbShares - 1)
  BY NbSharesAssumption, FS_Interval
<1> HIDE DEF occurring, effective
<1>6. IsFiniteSet(occurring) /\ IsFiniteSet(effective) /\ Cardinality(effective) <= Cardinality(occurring)
  BY <1>3, <1>4, <1>5, FS_Subset
<1>7. Cardinality(occurring) \in Nat /\ Cardinality(effective) \in Nat
  BY <1>6, FS_CardinalityType
<1>8. QED
  BY <1>3, <1>4, <1>6, <1>7 DEF occurring, effective

(* When few enough inputs occur, few enough are effective.                 *)
LEMMA FewEnoughHolds ==
    ASSUME query \in Queries, asked \in Tuples(query), FewEnough,
           Effective(ToSet(roots)) = Effective(ToSet(asked))
    PROVE  Holds
<1> DEFINE E == ToSet(asked)
<1>1. Effective(E) \subseteq Inputs
  BY DEF Effective, Inputs
<1>2. Effective(E) \subseteq IF query.secProp = "TPS" THEN Secret \ Share ELSE Share \ Secret
  BY EffectiveKind
<1>3. Holds <=> HoldsOf(E)
  BY DEF Holds
<1> HIDE DEF E
<1>4. ASSUME NEW s
      PROVE  /\ Cardinality(Effective(E) \cap SharesOf(s)) <= Cardinality(Inputs \cap SharesOf(s))
             /\ Cardinality(Effective(E) \cap SharesOf(s)) \in Nat /\ Cardinality(Inputs \cap SharesOf(s)) \in Nat
  <2>1. IsFiniteSet(Inputs \cap SharesOf(s))
    <3>1. Inputs \cap SharesOf(s) \subseteq Share
      BY DEF SharesOf
    <3>2. QED
      BY <3>1, SymbolsAssumption, FS_Subset
  <2>2. Effective(E) \cap SharesOf(s) \subseteq Inputs \cap SharesOf(s)
    BY <1>1
  <2>3. QED
    BY <2>1, <2>2, FS_Subset, FS_CardinalityType
<1>5. CASE query.secProp = "TPS"
  <2>1. Effective(E) = {}
    BY <1>1, <1>2, <1>5 DEF FewEnough
  <2>2. QED
    BY <1>3, <2>1, NothingHolds
<1>6. CASE query.secProp = "NI"
  <2>1. \A s \in Secret : Cardinality(Inputs \cap SharesOf(s)) <= query.maxShareOcc
    BY <1>6 DEF FewEnough
  <2>2. query.maxShareOcc \in Nat
    BY <1>6, QueriesAssumption
  <2>3. ASSUME NEW s \in Secret PROVE Cardinality(Effective(E) \cap SharesOf(s)) <= query.maxShareOcc
    <3> DEFINE a == Cardinality(Effective(E) \cap SharesOf(s))
               b == Cardinality(Inputs \cap SharesOf(s))
    <3>1. a <= b /\ a \in Nat /\ b \in Nat
      BY <1>4
    <3>2. b <= query.maxShareOcc
      BY <2>1
    <3> HIDE DEF a, b
    <3>3. a <= query.maxShareOcc
      BY <2>2, <3>1, <3>2
    <3>4. QED
      BY <3>3 DEF a
  <2>4. QED
    BY <1>3, <1>6, <2>3, HoldsByEffective
<1>7. CASE query.secProp = "RNI"
  <2>1. \A s \in Secret : Inputs \cap SharesOf(s) # {} =>
           Cardinality(Inputs \cap SharesOf(s)) + query.diff < NbShares
    BY <1>7 DEF FewEnough
  <2>2. query.diff \in Nat /\ query.diff < NbShares /\ NbShares \in Nat
    BY <1>7, QueriesAssumption, NbSharesAssumption
  <2>3. ASSUME NEW s \in Secret
        PROVE  Cardinality(Effective(E) \cap SharesOf(s)) + query.diff < NbShares
    <3> DEFINE a == Cardinality(Effective(E) \cap SharesOf(s))
               b == Cardinality(Inputs \cap SharesOf(s))
    <3>1. a <= b /\ a \in Nat /\ b \in Nat
      BY <1>4
    <3>2. b = 0 \/ b + query.diff < NbShares
      BY <2>1, FS_EmptySet
    <3> HIDE DEF a, b
    <3>3. a + query.diff < NbShares
      BY <2>2, <3>1, <3>2
    <3>4. QED
      BY <3>3 DEF a
  <2>4. QED
    BY <1>3, <1>7, <2>3, HoldsByEffective
<1>8. CASE query.secProp = "PINI"
  <2> DEFINE occurring == IndexesOf(Inputs, query.outputIndexes)
             effective == EffectiveIndexes(E) \ query.outputIndexes
  <2>1. Cardinality(occurring) <= query.maxShareOcc
    BY <1>8 DEF FewEnough
  <2>2. Cardinality(effective) <= Cardinality(occurring) /\ Cardinality(occurring) \in Nat /\ Cardinality(effective) \in Nat
    BY <1>8, OccurringIndexes DEF E
  <2>3. query.maxShareOcc \in Nat
    BY <1>8, QueriesAssumption
  <2> HIDE DEF occurring, effective
  <2>4. Cardinality(effective) <= query.maxShareOcc
    BY <2>1, <2>2, <2>3
  <2>5. QED
    BY <1>3, <1>8, <2>4, HoldsByEffective DEF effective, EffectiveIndexes
<1>9. CASE query.secProp = "OPINI"
  BY <1>9 DEF FewEnough
<1>10. QED
  BY <1>5, <1>6, <1>7, <1>8, <1>9, QueriesAssumption

-----------------------------------------------------------------------------
(* The inductive invariant: the loop works on a tuple that has, for every  *)
(* value of the inputs, the joint distribution of the tuple asked about.   *)

CallInv == query \in Queries /\ asked \in Tuples(query) /\ asked \in Tuple /\ roots \in Tuple

SameInv == SameDistribution(roots, asked)

NoneYet == pc # "done" => additionalInputIndexes = {}

IInv ==
    /\ TypeOK
    /\ CallInv
    /\ SameInv
    /\ NoneYet
    /\ PositiveIsRight
    /\ NegativeIsRight
    /\ AdditionalIndexesSuffice

(* The call starts with the tuple asked about.                             *)
LEMMA InitIInv == Init => IInv
<1> SUFFICES ASSUME Init PROVE IInv
  OBVIOUS
<1>1. CallInv
  BY TuplesAssumption DEF Init, CallInv
<1>2. SameInv
  BY DEF Init, SameInv, SameDistribution
<1>3. TypeOK
  BY DEF Init, TypeOK
<1>4. NoneYet /\ PositiveIsRight /\ NegativeIsRight /\ AdditionalIndexesSuffice
  BY DEF Init, NoneYet, PositiveIsRight, NegativeIsRight, AdditionalIndexesSuffice
<1>5. QED
  BY <1>1, <1>2, <1>3, <1>4 DEF IInv

(* Another tuple of the same distribution and length, before the verdict.  *)
LEMMA AnotherTuple ==
    ASSUME IInv, pc # "done", pc' # "done", roots' \in Tuple, DOMAIN roots' = DOMAIN roots,
           SameDistribution(roots', roots), UNCHANGED <<query, asked, verdict, additionalInputIndexes>>,
           masksTaken' \subseteq Mask, pc' \in {"simplify", "loop"},
           pc' = "simplify" => turns' = 0 /\ masksTaken' = {},
           turns' \in Nat, turns' = 0 <=> masksTaken' = {}
    PROVE  IInv'
<1>1. CallInv'
  BY DEF IInv, CallInv
<1>2. SameInv'
  BY DEF IInv, SameInv, SameDistribution
<1>3. Len(roots') = Len(roots)
  <2>1. /\ DOMAIN roots = 1 .. Len(roots) /\ Len(roots) \in Nat
        /\ DOMAIN roots' = 1 .. Len(roots') /\ Len(roots') \in Nat
    BY TupleNodes DEF IInv, CallInv
  <2>2. QED
    BY <2>1
<1>4. TypeOK'
  BY <1>3 DEF IInv, TypeOK
<1>5. NoneYet' /\ PositiveIsRight' /\ NegativeIsRight' /\ AdditionalIndexesSuffice'
  BY DEF IInv, NoneYet, PositiveIsRight, NegativeIsRight, AdditionalIndexesSuffice
<1>6. QED
  BY <1>1, <1>2, <1>4, <1>5 DEF IInv

(* checkPropertyWrapper.                                                   *)
LEMMA SimplifyTupleInv == IInv /\ SimplifyTuple => IInv'
<1> SUFFICES ASSUME IInv, SimplifyTuple PROVE IInv'
  OBVIOUS
<1>1. \A i \in DOMAIN roots : roots[i] \in Node
  BY TupleNodes DEF IInv, CallInv
<1>2. roots' \in SimplifiedTuples(roots)
  BY DEF SimplifyTuple
<1>3. DOMAIN roots' = DOMAIN roots /\ roots' \in Tuple /\ SameDistribution(roots', roots)
  BY <1>1, <1>2, SimplifiedSame
<1>4. /\ pc = "simplify" /\ pc' = "loop"
      /\ UNCHANGED <<query, masksTaken, verdict, additionalInputIndexes, asked, turns>>
  BY DEF SimplifyTuple
<1>5. masksTaken \subseteq Mask /\ turns \in Nat /\ (turns = 0 <=> masksTaken = {})
  BY DEF IInv, TypeOK
<1>6. QED
  BY <1>3, <1>4, <1>5, AnotherTuple

(* An exchange.                                                            *)
LEMMA ReplaceInv == IInv /\ Replace => IInv'
<1> SUFFICES ASSUME IInv, Replace PROVE IInv'
  OBVIOUS
<1>1. PICK p \in Exchanges(roots, masksTaken) :
         /\ masksTaken' = masksTaken \cup {p[1]}
         /\ roots' \in SimplifiedTuples([i \in DOMAIN roots |-> Replaced(roots[i], p[1], p[2])])
  BY DEF Replace
<1> DEFINE t == [i \in DOMAIN roots |-> Replaced(roots[i], p[1], p[2])]
<1>2. roots \in Tuple /\ p \in Hidden(roots)
  BY ExchangesHidden DEF IInv, CallInv
<1>3. SameDistribution(t, roots) /\ \A i \in DOMAIN t : t[i] \in Node
  BY <1>2, ReplacedSame
<1>4. DOMAIN t = DOMAIN roots /\ roots' \in SimplifiedTuples(t)
  BY <1>1
<1> HIDE DEF t
<1>5. DOMAIN roots' = DOMAIN t /\ roots' \in Tuple /\ SameDistribution(roots', t)
  BY <1>3, <1>4, SimplifiedSame
<1>6. SameDistribution(roots', roots)
  BY <1>3, <1>5 DEF SameDistribution
<1>7. p[1] \in Mask
  BY <1>2, HiddenPairs DEF Hides
<1>8. /\ pc = "loop" /\ turns' = turns + 1
      /\ UNCHANGED <<query, pc, verdict, additionalInputIndexes, asked>>
  BY DEF Replace
<1>9. masksTaken \subseteq Mask /\ turns \in Nat
  BY DEF IInv, TypeOK
<1>10. masksTaken' \subseteq Mask /\ masksTaken' # {} /\ turns' \in Nat /\ turns' # 0
  BY <1>1, <1>7, <1>8, <1>9
<1>11. QED
  BY <1>4, <1>5, <1>6, <1>8, <1>10, AnotherTuple

(* The tuple of the loop has the effective inputs of the one asked about.  *)
LEMMA SameEffective == IInv => Effective(ToSet(roots)) = Effective(ToSet(asked))
BY EffectiveSame DEF IInv, CallInv, SameInv

(* A verdict is right when it is yes, and when it is no and false          *)
(* positives are not wanted; what it hands back has to suffice.            *)
LEMMA ReturnInv ==
    ASSUME IInv, pc = "loop", NEW v \in BOOLEAN, Return(v),
           additionalInputIndexes' \subseteq 0 .. NbShares - 1,
           v => Holds, query.noFalsePositive /\ ~v => ~Holds,
           v /\ query.secProp = "OPINI" =>
              /\ EffectiveIndexes(ToSet(asked)) \subseteq query.outputIndexes \cup additionalInputIndexes'
              /\ additionalInputIndexes' \cap query.outputIndexes = {}
              /\ Cardinality(additionalInputIndexes') <= query.maxShareOcc
    PROVE  IInv'
<1>1. verdict' = v /\ pc' = "done" /\ UNCHANGED <<roots, query, masksTaken, asked, turns>>
  BY DEF Return
<1>2. CallInv' /\ SameInv'
  BY <1>1 DEF IInv, CallInv, SameInv
<1>3. TypeOK' /\ NoneYet'
  BY <1>1 DEF IInv, TypeOK, NoneYet
<1>4. Holds' <=> Holds
  BY <1>1 DEF Holds, HoldsOf
<1>5. PositiveIsRight' /\ NegativeIsRight'
  BY <1>1, <1>4 DEF PositiveIsRight, NegativeIsRight
<1>6. AdditionalIndexesSuffice'
  BY <1>1 DEF AdditionalIndexesSuffice
<1>7. QED
  BY <1>2, <1>3, <1>5, <1>6 DEF IInv

(* Few enough secrets or shares occur.                                     *)
LEMMA FewEnoughInv == IInv /\ FewEnoughOccurrences => IInv'
<1> SUFFICES ASSUME IInv, FewEnoughOccurrences PROVE IInv'
  OBVIOUS
<1>1. pc = "loop" /\ FewEnough /\ Return(TRUE) /\ additionalInputIndexes' = additionalInputIndexes
  BY DEF FewEnoughOccurrences
<1>2. Holds
  BY <1>1, SameEffective, FewEnoughHolds DEF IInv, CallInv
<1>3. query.secProp # "OPINI"
  BY <1>1 DEF FewEnough
<1>4. additionalInputIndexes \subseteq 0 .. NbShares - 1
  BY DEF IInv, TypeOK
<1>5. QED
  BY <1>1, <1>2, <1>3, <1>4, ReturnInv

(* A tuple that a mask hides reveals nothing.                              *)
LEMMA MaskedEffective == IInv /\ IsMasked(roots) => Effective(ToSet(asked)) = {}
<1> SUFFICES ASSUME IInv, IsMasked(roots) PROVE Effective(ToSet(asked)) = {}
  OBVIOUS
<1>1. roots \in Tuple
  BY DEF IInv, CallInv
<1>2. PICK e \in Node, m \in Mask : ToSet(roots) = {e} /\ Hides(m, e)
  BY <1>1, TupleRemembers
<1>3. Effective({e}) = {}
  BY <1>2, HiddenRevealsNothing
<1>4. QED
  BY <1>2, <1>3, SameEffective

(* A mask hides all of it.                                                 *)
LEMMA RootMaskedInv == IInv /\ RootMasked => IInv'
<1> SUFFICES ASSUME IInv, RootMasked PROVE IInv'
  OBVIOUS
<1>1. pc = "loop" /\ IsMasked(roots) /\ Return(TRUE) /\ additionalInputIndexes' = additionalInputIndexes
  BY DEF RootMasked
<1>2. roots \in Tuple /\ query \in Queries
  BY DEF IInv, CallInv
<1>3. Effective(ToSet(asked)) = {}
  BY <1>1, MaskedEffective
<1>4. Holds
  BY <1>2, <1>3, NothingHolds DEF Holds
<1>5. additionalInputIndexes = {}
  BY <1>1 DEF IInv, NoneYet
<1>6. EffectiveIndexes(ToSet(asked)) = {}
  BY <1>3 DEF EffectiveIndexes
<1>7. query.secProp = "OPINI" => Cardinality({}) <= query.maxShareOcc
  BY <1>2, QueriesAssumption, FS_EmptySet
<1>8. QED
  BY <1>1, <1>4, <1>5, <1>6, <1>7, ReturnInv

(* The enumeration of the tuple of the loop says what that of the tuple    *)
(* asked about would.                                                      *)
LEMMA HoldsSame == IInv => (HoldsOf(ToSet(roots)) <=> Holds)
<1> SUFFICES ASSUME IInv PROVE HoldsOf(ToSet(roots)) <=> HoldsOf(ToSet(asked))
  BY DEF Holds
<1>1. query \in Queries /\ Effective(ToSet(roots)) = Effective(ToSet(asked))
  BY SameEffective DEF IInv, CallInv
<1>2. QED
  BY <1>1, HoldsByEffective

(* No mask is left: the enumeration, unless false positives are allowed.   *)
LEMMA NoMaskInv == IInv /\ NoMaskToTake => IInv'
<1> SUFFICES ASSUME IInv, NoMaskToTake PROVE IInv'
  OBVIOUS
<1> DEFINE v == query.noFalsePositive /\ HoldsOf(ToSet(roots))
<1>1. pc = "loop" /\ query.secProp # "OPINI" /\ Return(v) /\ additionalInputIndexes' = additionalInputIndexes
  BY DEF NoMaskToTake, NoMaskLeft
<1>2. v \in BOOLEAN /\ (v => Holds) /\ (query.noFalsePositive /\ ~v => ~Holds)
  BY HoldsSame
<1>3. additionalInputIndexes \subseteq 0 .. NbShares - 1
  BY DEF IInv, TypeOK
<1> HIDE DEF v
<1>4. QED
  BY <1>1, <1>2, <1>3, ReturnInv

(* The same for OPINI, with the indexes handed back.                       *)
LEMMA NoMaskOPINIInv == IInv /\ NoMaskToTakeOPINI => IInv'
<1> SUFFICES ASSUME IInv, NoMaskToTakeOPINI PROVE IInv'
  OBVIOUS
<1> DEFINE occurring == IndexesOf(Inputs, query.outputIndexes)
           effective == EffectiveIndexes(ToSet(asked)) \ query.outputIndexes
<1>1. query \in Queries /\ asked \in Tuples(query) /\ Effective(ToSet(roots)) = Effective(ToSet(asked))
  BY SameEffective DEF IInv, CallInv
<1>2. EffectiveIndexes(ToSet(roots)) = EffectiveIndexes(ToSet(asked))
  BY <1>1 DEF EffectiveIndexes
<1>3. query.secProp = "OPINI" /\ query.maxShareOcc \in Nat /\ pc = "loop"
  BY <1>1, QueriesAssumption DEF NoMaskToTakeOPINI, NoMaskLeft
<1>4. IF Cardinality(occurring) <= query.maxShareOcc
      THEN Return(TRUE) /\ additionalInputIndexes' = occurring
      ELSE IF query.noFalsePositive
      THEN Return(Cardinality(effective) <= query.maxShareOcc) /\ additionalInputIndexes' = effective
      ELSE Return(FALSE) /\ additionalInputIndexes' = additionalInputIndexes
  BY <1>2 DEF NoMaskToTakeOPINI
<1>5. /\ effective \subseteq occurring /\ occurring \subseteq 0 .. NbShares - 1
      /\ Cardinality(occurring) \in Nat /\ Cardinality(effective) \in Nat
      /\ Cardinality(effective) <= Cardinality(occurring)
  BY <1>1, <1>3, OccurringIndexes
<1>6. Holds <=> Cardinality(effective) <= query.maxShareOcc
  BY <1>1, <1>3, HoldsByEffective DEF Holds, EffectiveIndexes
<1>7. /\ EffectiveIndexes(ToSet(asked)) \subseteq query.outputIndexes \cup effective
      /\ occurring \cap query.outputIndexes = {} /\ effective \cap query.outputIndexes = {}
  BY DEF IndexesOf
<1> HIDE DEF occurring, effective
<1>8. CASE Cardinality(occurring) <= query.maxShareOcc
  <2>1. Holds
    BY <1>3, <1>5, <1>6, <1>8
  <2>2. Return(TRUE) /\ additionalInputIndexes' = occurring
    BY <1>4, <1>8
  <2>3. QED
    BY <1>3, <1>5, <1>7, <1>8, <2>1, <2>2, ReturnInv
<1>9. CASE ~(Cardinality(occurring) <= query.maxShareOcc) /\ query.noFalsePositive
  <2> DEFINE v == Cardinality(effective) <= query.maxShareOcc
  <2>1. v \in BOOLEAN /\ (v <=> Holds)
    BY <1>6
  <2>2. Return(v) /\ additionalInputIndexes' = effective
    BY <1>4, <1>9
  <2>3. v => Cardinality(effective) <= query.maxShareOcc
    OBVIOUS
  <2> HIDE DEF v
  <2>4. QED
    BY <1>3, <1>5, <1>7, <2>1, <2>2, <2>3, ReturnInv
<1>10. CASE ~(Cardinality(occurring) <= query.maxShareOcc) /\ ~query.noFalsePositive
  <2>1. Return(FALSE) /\ additionalInputIndexes' = additionalInputIndexes
    BY <1>4, <1>10
  <2>2. additionalInputIndexes \subseteq 0 .. NbShares - 1
    BY DEF IInv, TypeOK
  <2>3. QED
    BY <1>3, <1>10, <2>1, <2>2, ReturnInv
<1>11. QED
  BY <1>8, <1>9, <1>10

(* Every step keeps the invariant.                                         *)
LEMMA NextIInv == IInv /\ [Next]_vars => IInv'
<1> SUFFICES ASSUME IInv, [Next]_vars PROVE IInv'
  OBVIOUS
<1>1. CASE UNCHANGED vars
  BY <1>1 DEF vars, IInv, TypeOK, CallInv, SameInv, NoneYet, PositiveIsRight, NegativeIsRight,
              AdditionalIndexesSuffice, Holds, HoldsOf
<1>2. CASE Returned
  BY <1>1, <1>2 DEF Returned
<1>3. CASE SimplifyTuple
  BY <1>3, SimplifyTupleInv
<1>4. CASE FewEnoughOccurrences
  BY <1>4, FewEnoughInv
<1>5. CASE RootMasked
  BY <1>5, RootMaskedInv
<1>6. CASE Replace
  BY <1>6, ReplaceInv
<1>7. CASE NoMaskToTake
  BY <1>7, NoMaskInv
<1>8. CASE NoMaskToTakeOPINI
  BY <1>8, NoMaskOPINIInv
<1>9. QED
  BY <1>1, <1>2, <1>3, <1>4, <1>5, <1>6, <1>7, <1>8 DEF Next

(* The invariant holds in every state of every call.                       *)
THEOREM Invariance == Spec => []IInv
<1>1. QED
  BY InitIInv, NextIInv, PTL DEF Spec

(* Type correctness: among others, a tuple keeps its length, and the       *)
(* indexes handed back are indexes of shares.                              *)
THEOREM TypeCorrect == Spec => []TypeOK
<1>1. IInv => TypeOK
  BY DEF IInv
<1>2. QED
  BY <1>1, Invariance, PTL

(* A positive verdict of checkProperty is right, whatever the tuple and    *)
(* however many masks: the enumeration of all values agrees.               *)
THEOREM PositiveCorrect == Spec => []PositiveIsRight
<1>1. IInv => PositiveIsRight
  BY DEF IInv
<1>2. QED
  BY <1>1, Invariance, PTL

(* With noFalsePositive a negative one is right as well.                   *)
THEOREM NegativeCorrect == Spec => []NegativeIsRight
<1>1. IInv => NegativeIsRight
  BY DEF IInv
<1>2. QED
  BY <1>1, Invariance, PTL

(* The indexes handed back for OPINI are enough, new, and few enough.      *)
THEOREM AdditionalIndexesCorrect == Spec => []AdditionalIndexesSuffice
<1>1. IInv => AdditionalIndexesSuffice
  BY DEF IInv
<1>2. QED
  BY <1>1, Invariance, PTL

(* Every turn keeps the joint distribution of the tuple, for each value of *)
(* the inputs.                                                             *)
THEOREM DistributionPreserved == Spec => DistributionKept
<1>1. IInv /\ IInv' /\ [Next]_vars =>
         [\A K \in SUBSET InputsIn(ToSet(asked)) :
             JointDistribution(roots', K) = JointDistribution(roots, K)]_vars
  <2> SUFFICES ASSUME IInv, IInv', [Next]_vars, NEW K \in SUBSET InputsIn(ToSet(asked))
               PROVE  JointDistribution(roots', K) = JointDistribution(roots, K)
    OBVIOUS
  <2>1. K \in Assignments
    BY DEF InputsIn, Assignments
  <2>2. asked' = asked
    BY DEF Next, Returned, SimplifyTuple, FewEnoughOccurrences, RootMasked, Replace, NoMaskToTake,
           NoMaskToTakeOPINI, Return, vars
  <2>3. JointDistribution(roots, K) = JointDistribution(asked, K)
    BY <2>1 DEF IInv, SameInv, SameDistribution
  <2>4. JointDistribution(roots', K) = JointDistribution(asked', K)
    BY <2>1 DEF IInv, SameInv, SameDistribution
  <2>5. QED
    BY <2>2, <2>3, <2>4
<1>2. QED
  BY <1>1, Invariance, PTL DEF Spec, DistributionKept

-----------------------------------------------------------------------------
(* What the callers rely on.                                               *)

(* Opini counts as checkProperty does.                                     *)
LEMMA RoundCounts == \A S : Round!Cardinality(S) = Cardinality(S)
BY DEF Cardinality, Round!Cardinality

(* A round waits as long as its call has not returned.                     *)
LEMMA RoundWaits ==
    ASSUME pc # "done", pc' # "done", UNCHANGED <<query, asked, verdict, additionalInputIndexes>>
    PROVE  UNCHANGED Round!vars
BY DEF Round!vars, Round!callVars

(* A call that returns is what the round has found.                        *)
LEMMA RoundReturns ==
    ASSUME pc = "loop", NEW v \in BOOLEAN, Return(v)
    PROVE  Round!Found(v, additionalInputIndexes')
<1>1. verdict' = v /\ pc' = "done" /\ UNCHANGED <<query, asked>>
  BY DEF Return
<1>2. QED
  BY <1>1 DEF Round!Found, Round!callVars

(* A tuple that a mask hides needs nothing.                                *)
LEMMA RoundMasked ==
    ASSUME IInv, RootMasked
    PROVE  Round!AnalyseMasked
<1>1. pc = "loop" /\ IsMasked(roots) /\ Return(TRUE) /\ additionalInputIndexes' = {}
  BY DEF RootMasked, IInv, NoneYet
<1>2. EffectiveIndexes(ToSet(asked)) = {}
  BY <1>1, MaskedEffective DEF EffectiveIndexes
<1>3. Round!Found(TRUE, {})
  BY <1>1, RoundReturns
<1>4. QED
  BY <1>1, <1>2, <1>3 DEF Round!AnalyseMasked, RoundNeeded

(* The indexes that occur when no mask is left include all those needed.   *)
LEMMA RoundOccurs ==
    ASSUME IInv, query.secProp = "OPINI", NoMaskToTakeOPINI
    PROVE  Round!AnalyseOccurring
<1> DEFINE J == query.outputIndexes
           I == {ShareNum(sh) : sh \in Inputs \cap Share}
           needed == EffectiveIndexes(ToSet(asked))
           n == query.maxShareOcc
<1>1. query \in Queries /\ asked \in Tuples(query) /\ Effective(ToSet(roots)) = Effective(ToSet(asked))
  BY SameEffective DEF IInv, CallInv
<1>2. pc = "loop" /\ additionalInputIndexes = {}
  BY DEF IInv, NoneYet, NoMaskToTakeOPINI, NoMaskLeft
<1>3. IF Cardinality(I \ J) <= n
      THEN Return(TRUE) /\ additionalInputIndexes' = I \ J
      ELSE IF query.noFalsePositive
      THEN Return(Cardinality(needed \ J) <= n) /\ additionalInputIndexes' = needed \ J
      ELSE Return(FALSE) /\ additionalInputIndexes' = {}
  BY <1>1, <1>2 DEF NoMaskToTakeOPINI, IndexesOf, EffectiveIndexes
<1>4. I \in RoundOccurring(asked, J)
  <2>1. Effective(ToSet(asked)) \subseteq Inputs \cap Share
    BY <1>1, EffectiveKind DEF Effective, Inputs
  <2>2. I \subseteq 0 .. NbShares - 1
    BY ShareNumAssumption
  <2>3. QED
    BY <2>1, <2>2 DEF RoundOccurring, RoundNeeded, EffectiveIndexes
<1>5. needed = RoundNeeded(asked, J)
  BY DEF RoundNeeded
<1>6. query.outputIndexes = J /\ query.maxShareOcc = n
  OBVIOUS
<1> HIDE DEF I, J, needed, n
<1>7. SUFFICES
         IF Cardinality(I \ J) <= n
         THEN Round!Found(TRUE, I \ J)
         ELSE IF query.noFalsePositive
         THEN Round!Found(Cardinality(needed \ J) <= n, needed \ J)
         ELSE Round!Found(FALSE, {})
  BY <1>2, <1>4, <1>5, <1>6, RoundCounts DEF Round!AnalyseOccurring
<1>8. CASE Cardinality(I \ J) <= n
  BY <1>2, <1>3, <1>8, RoundReturns
<1>9. CASE ~(Cardinality(I \ J) <= n) /\ query.noFalsePositive
  <2> DEFINE v == Cardinality(needed \ J) <= n
  <2>1. v \in BOOLEAN
    OBVIOUS
  <2>2. Return(v) /\ additionalInputIndexes' = needed \ J
    BY <1>3, <1>9
  <2>3. Round!Found(v, needed \ J)
    <3> HIDE DEF v
    <3>1. QED
      BY <1>2, <2>1, <2>2, RoundReturns
  <2>4. QED
    BY <1>9, <2>3
<1>10. CASE ~(Cardinality(I \ J) <= n) /\ ~query.noFalsePositive
  BY <1>2, <1>3, <1>10, RoundReturns
<1>11. QED
  BY <1>8, <1>9, <1>10

(* Every step of a call with OPINI is a step of the round, or none.        *)
LEMMA RoundSteps ==
    ASSUME IInv, IInv', [Next]_vars, query.secProp = "OPINI"
    PROVE  [Round!AnalyseMasked \/ Round!AnalyseOccurring]_(Round!vars)
<1>1. CASE UNCHANGED vars
  BY <1>1 DEF vars, Round!vars, Round!callVars
<1>2. CASE Returned
  BY <1>1, <1>2 DEF Returned
<1>3. CASE SimplifyTuple
  BY <1>3, RoundWaits DEF SimplifyTuple
<1>4. CASE FewEnoughOccurrences
  BY <1>4 DEF FewEnoughOccurrences, FewEnough
<1>5. CASE RootMasked
  BY <1>5, RoundMasked
<1>6. CASE Replace
  BY <1>6, RoundWaits DEF Replace
<1>7. CASE NoMaskToTake
  BY <1>7 DEF NoMaskToTake
<1>8. CASE NoMaskToTakeOPINI
  BY <1>8, RoundOccurs
<1>9. QED
  BY <1>1, <1>2, <1>3, <1>4, <1>5, <1>6, <1>7, <1>8 DEF Next

(* A call of checkProperty with OPINI implements the analysis of a round.  *)
THEOREM RoundImplemented == Spec => ImplementsRound
<1>1. IInv /\ IInv' /\ [Next]_vars =>
         [query.secProp = "OPINI" => [Round!AnalyseMasked \/ Round!AnalyseOccurring]_(Round!vars)]_vars
  BY RoundSteps
<1>2. QED
  BY <1>1, Invariance, PTL DEF Spec, ImplementsRound

(* More probes never need less: what opini_internal counts on when it adds *)
(* outputs, round after round (NeededAssumption of Opini).                 *)
THEOREM MoreProbesNeedMore ==
    ASSUME NEW E, NEW F, E \subseteq F
    PROVE  EffectiveIndexes(E) \subseteq EffectiveIndexes(F)
<1>1. Effective(E) \subseteq Effective(F)
  BY MoreRevealsMore
<1>2. QED
  BY <1>1 DEF EffectiveIndexes

(* A property that a set of probes has is one of all its subsets: what     *)
(* bartheOpt counts on, when it settles the tuples inside a set by asking  *)
(* once, whichever property is asked for.                                  *)
THEOREM FewerProbesHold ==
    ASSUME query \in Queries, NEW E, NEW F, E \subseteq F, HoldsOf(F),
           InputsIn(F) \subseteq IF query.secProp = "TPS" THEN Secret ELSE Share
    PROVE  HoldsOf(E)
<1>1. Effective(E) \subseteq Effective(F)
  BY MoreRevealsMore
<1>2. CASE query.secProp = "TPS"
  BY <1>1, <1>2, HoldsByEffective
<1>3. ASSUME NEW s
      PROVE  /\ Cardinality(Effective(E) \cap SharesOf(s)) \in Nat
             /\ Cardinality(Effective(F) \cap SharesOf(s)) \in Nat
             /\ Cardinality(Effective(E) \cap SharesOf(s)) <= Cardinality(Effective(F) \cap SharesOf(s))
  <2>1. IsFiniteSet(Effective(F) \cap SharesOf(s))
    <3>1. Effective(F) \cap SharesOf(s) \subseteq Share
      BY DEF SharesOf
    <3>2. QED
      BY <3>1, SymbolsAssumption, FS_Subset
  <2>2. Effective(E) \cap SharesOf(s) \subseteq Effective(F) \cap SharesOf(s)
    BY <1>1
  <2>3. QED
    BY <2>1, <2>2, FS_Subset, FS_CardinalityType
<1>4. CASE query.secProp = "NI"
  <2>1. query.maxShareOcc \in Nat
    BY <1>4, QueriesAssumption
  <2>2. \A s \in Secret : Cardinality(Effective(F) \cap SharesOf(s)) <= query.maxShareOcc
    BY <1>4, HoldsByEffective
  <2>3. ASSUME NEW s \in Secret PROVE Cardinality(Effective(E) \cap SharesOf(s)) <= query.maxShareOcc
    <3> DEFINE a == Cardinality(Effective(E) \cap SharesOf(s))
               b == Cardinality(Effective(F) \cap SharesOf(s))
    <3>1. a \in Nat /\ b \in Nat /\ a <= b
      BY <1>3
    <3>2. b <= query.maxShareOcc
      BY <2>2
    <3> HIDE DEF a, b
    <3>3. a <= query.maxShareOcc
      BY <2>1, <3>1, <3>2
    <3>4. QED
      BY <3>3 DEF a
  <2>4. QED
    BY <1>4, <2>3, HoldsByEffective
<1>5. CASE query.secProp = "RNI"
  <2>1. query.diff \in Nat
    BY <1>5, QueriesAssumption
  <2>2. \A s \in Secret : Cardinality(Effective(F) \cap SharesOf(s)) + query.diff < NbShares
    BY <1>5, HoldsByEffective
  <2>3. ASSUME NEW s \in Secret PROVE Cardinality(Effective(E) \cap SharesOf(s)) + query.diff < NbShares
    <3> DEFINE a == Cardinality(Effective(E) \cap SharesOf(s))
               b == Cardinality(Effective(F) \cap SharesOf(s))
    <3>1. a \in Nat /\ b \in Nat /\ a <= b
      BY <1>3
    <3>2. b + query.diff < NbShares
      BY <2>2
    <3> HIDE DEF a, b
    <3>3. a + query.diff < NbShares
      BY <2>1, <3>1, <3>2, NbSharesAssumption
    <3>4. QED
      BY <3>3 DEF a
  <2>4. QED
    BY <1>5, <2>3, HoldsByEffective
<1>6. CASE query.secProp \in {"PINI", "OPINI"}
  <2>1. query.maxShareOcc \in Nat
    BY <1>6, QueriesAssumption
  <2> DEFINE S(G) == {ShareNum(sh) : sh \in Effective(G)} \ query.outputIndexes
  <2>2. S(E) \subseteq S(F)
    BY <1>1
  <2>3. IsFiniteSet(S(F))
    <3>1. S(F) \subseteq 0 .. NbShares - 1
      BY <1>6, ShareNumAssumption DEF Effective
    <3>2. IsFiniteSet(0 .. NbShares - 1)
      BY NbSharesAssumption, FS_Interval
    <3>3. QED
      BY <3>1, <3>2, FS_Subset
  <2>4. Cardinality(S(E)) \in Nat /\ Cardinality(S(F)) \in Nat /\ Cardinality(S(E)) <= Cardinality(S(F))
    BY <2>2, <2>3, FS_Subset, FS_CardinalityType
  <2>5. Cardinality(S(F)) <= query.maxShareOcc
    BY <1>6, HoldsByEffective
  <2>6. Cardinality(S(E)) <= query.maxShareOcc
    <3> HIDE DEF S
    <3>1. QED
      BY <2>1, <2>4, <2>5
  <2>7. QED
    BY <1>6, <2>6, HoldsByEffective
<1>7. QED
  BY <1>2, <1>4, <1>5, <1>6, QueriesAssumption

(* A family of sets tells the tuples inside E that lack the property, by   *)
(* inclusion alone, as bartheOpt has it.                                   *)
THEOREM LeakingSetsTell ==
    ASSUME query \in Queries, NEW E, NEW S, S \subseteq E,
           InputsIn(E) \subseteq IF query.secProp = "TPS" THEN Secret ELSE Share
    PROVE  HoldsOf(S) <=> \A L \in {L \in SUBSET E : ~HoldsOf(L)} : ~(L \subseteq S)
<1>1. InputsIn(S) \subseteq IF query.secProp = "TPS" THEN Secret ELSE Share
  BY DEF InputsIn
<1>2. ASSUME HoldsOf(S), NEW L, L \subseteq S PROVE HoldsOf(L)
  BY <1>1, <1>2, FewerProbesHold
<1>3. QED
  BY <1>2
=============================================================================
