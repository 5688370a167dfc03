-------------------------- MODULE Observation_proofs --------------------------
(***************************************************************************)
(* What a set of observed expressions reveals (ConcreteEvaluation), proved *)
(* for every expression algebra: more observations never reveal less, and  *)
(* inputs that do not occur are not revealed.  With it, the facts about    *)
(* counting that the verdicts rest on.                                     *)
(***************************************************************************)
EXTENDS ConcreteEvaluation, FiniteSetTheorems, FunctionTheorems, TLAPS

-----------------------------------------------------------------------------
(* What is observed depends on the inputs that occur.                      *)

(* The value of e depends on the symbols in e and on nothing else.         *)
Supported(e) ==
    \A K \in SUBSET (Secret \cup Share), M \in SUBSET Mask :
        Value(e, K, M) <=> Value(e, K \cap Symbols(e), M \cap Symbols(e))

(* A distribution depends on the inputs that occur and on nothing else.    *)
LEMMA DistributionOfInputs ==
    ASSUME NEW E, \A e \in E : Supported(e), NEW K \in SUBSET (Secret \cup Share)
    PROVE  Distribution(E, K) = Distribution(E, K \cap InputsIn(E))
<1> DEFINE L == K \cap InputsIn(E)
<1>1. L \in SUBSET (Secret \cup Share)
  OBVIOUS
<1>2. ASSUME NEW e \in E, NEW M \in SUBSET Mask PROVE Value(e, K, M) <=> Value(e, L, M)
  <2>1. K \cap Symbols(e) = L \cap Symbols(e)
    BY DEF InputsIn
  <2>2. Value(e, K, M) <=> Value(e, K \cap Symbols(e), M \cap Symbols(e))
    BY DEF Supported
  <2>3. Value(e, L, M) <=> Value(e, L \cap Symbols(e), M \cap Symbols(e))
    BY <1>1 DEF Supported
  <2>4. QED
    BY <2>1, <2>2, <2>3
<1>3. \A M \in SUBSET Mask : Observed(E, K, M) = Observed(E, L, M)
  BY <1>2 DEF Observed
<1> HIDE DEF L
<1>4. Distribution(E, K) = Distribution(E, L)
  BY <1>3 DEF Distribution
<1>5. QED
  BY <1>4 DEF L

(* No probe, no effective input.                                           *)
LEMMA NothingObserved == Effective({}) = {}
<1>1. \A K : Distribution({}, K) = [o \in {{} : M \in SUBSET Mask} |-> Cardinality({M \in SUBSET Mask : {} = o})]
  BY DEF Distribution, Observed
<1>2. QED
  BY <1>1 DEF Effective

-----------------------------------------------------------------------------
(* Observing more never reveals less.                                      *)

(* The values of the masks for which E shows o.                            *)
Showing(E, J, o) == {M \in SUBSET Mask : Observed(E, J, M) = o}

(* A permutation of the values of the masks under which E shows for L what *)
(* it shows for K.                                                         *)
Matches(B, E, K, L) ==
    /\ B \in [SUBSET Mask -> SUBSET Mask]
    /\ \A M, N \in SUBSET Mask : B[M] = B[N] => M = N
    /\ \A N \in SUBSET Mask : \E M \in SUBSET Mask : B[M] = N
    /\ \A M \in SUBSET Mask : Observed(E, L, B[M]) = Observed(E, K, M)

(* When two values of the inputs give the same distribution, the values of *)
(* the masks can be permuted so that the observations agree one by one.    *)
LEMMA PermutationOfMasks ==
    ASSUME NEW F, NEW K, NEW L, Distribution(F, K) = Distribution(F, L)
    PROVE  \E B : Matches(B, F, K, L)
<1> DEFINE D == {Observed(F, K, M) : M \in SUBSET Mask}
<1>1. DOMAIN Distribution(F, K) = D
  BY DEF Distribution
<1>2. DOMAIN Distribution(F, L) = {Observed(F, L, M) : M \in SUBSET Mask}
  BY DEF Distribution
<1>3. D = {Observed(F, L, M) : M \in SUBSET Mask}
  BY <1>1, <1>2
<1> HIDE DEF D
<1>4. ASSUME NEW o \in D
      PROVE  ExistsBijection(Showing(F, K, o), Showing(F, L, o))
  <2>1. Distribution(F, K)[o] = Cardinality(Showing(F, K, o))
    BY DEF Distribution, Showing, D
  <2>2. Distribution(F, L)[o] = Cardinality(Showing(F, L, o))
    BY <1>3 DEF Distribution, Showing
  <2>3. IsFiniteSet(SUBSET Mask)
    BY SymbolsAssumption, FS_SUBSET
  <2>4. IsFiniteSet(Showing(F, K, o)) /\ IsFiniteSet(Showing(F, L, o))
    BY <2>3, FS_Subset DEF Showing
  <2>5. QED
    BY <2>1, <2>2, <2>4, FS_SameCardinalityBij
<1> DEFINE b == [o \in D |-> CHOOSE f : f \in Bijection(Showing(F, K, o), Showing(F, L, o))]
           B == [M \in SUBSET Mask |-> b[Observed(F, K, M)][M]]
<1>5. \A o \in D : b[o] \in Bijection(Showing(F, K, o), Showing(F, L, o))
  BY <1>4 DEF ExistsBijection
<1> HIDE DEF b
<1>6. ASSUME NEW o \in D
      PROVE  /\ b[o] \in [Showing(F, K, o) -> Showing(F, L, o)]
             /\ \A M, N \in Showing(F, K, o) : b[o][M] = b[o][N] => M = N
             /\ \A N \in Showing(F, L, o) : \E M \in Showing(F, K, o) : b[o][M] = N
  BY <1>5, Fun_BijectionProperties
<1>7. \A M \in SUBSET Mask : Observed(F, K, M) \in D /\ M \in Showing(F, K, Observed(F, K, M))
  BY DEF Showing, D
<1>8. \A M \in SUBSET Mask : B[M] \in Showing(F, L, Observed(F, K, M))
  BY <1>6, <1>7
<1>9. \A M \in SUBSET Mask : B[M] \in SUBSET Mask /\ Observed(F, L, B[M]) = Observed(F, K, M)
  BY <1>8 DEF Showing
<1>10. \A M, N \in SUBSET Mask : B[M] = B[N] => M = N
  <2> SUFFICES ASSUME NEW M \in SUBSET Mask, NEW N \in SUBSET Mask, B[M] = B[N] PROVE M = N
    OBVIOUS
  <2>1. Observed(F, K, M) = Observed(F, K, N)
    BY <1>9
  <2>2. B[M] = b[Observed(F, K, M)][M] /\ B[N] = b[Observed(F, K, M)][N]
    BY <2>1
  <2> HIDE DEF B
  <2>3. QED
    BY <1>6, <1>7, <2>1, <2>2
<1>11. \A N \in SUBSET Mask : \E M \in SUBSET Mask : B[M] = N
  <2> SUFFICES ASSUME NEW N \in SUBSET Mask PROVE \E M \in SUBSET Mask : B[M] = N
    OBVIOUS
  <2> DEFINE o == Observed(F, L, N)
  <2>1. o \in D /\ N \in Showing(F, L, o)
    BY <1>3 DEF Showing
  <2>2. PICK M \in Showing(F, K, o) : b[o][M] = N
    BY <1>6, <2>1
  <2>3. M \in SUBSET Mask /\ Observed(F, K, M) = o
    BY <2>2 DEF Showing
  <2>4. B[M] = N
    BY <2>2, <2>3
  <2>5. QED
    BY <2>3, <2>4
<1>12. B \in [SUBSET Mask -> SUBSET Mask]
  BY <1>9
<1>13. Matches(B, F, K, L)
  BY <1>9, <1>10, <1>11, <1>12 DEF Matches
<1> HIDE DEF B
<1>14. QED
  BY <1>13

(* When F shows the same for K and L, so does a part of F.                 *)
LEMMA SameDistributionOfFewer ==
    ASSUME NEW E, NEW F, E \subseteq F, NEW K, NEW L, Distribution(F, K) = Distribution(F, L)
    PROVE  Distribution(E, K) = Distribution(E, L)
<1>1. PICK B : Matches(B, F, K, L)
  BY PermutationOfMasks
<1>2. /\ B \in [SUBSET Mask -> SUBSET Mask]
      /\ \A M, N \in SUBSET Mask : B[M] = B[N] => M = N
      /\ \A N \in SUBSET Mask : \E M \in SUBSET Mask : B[M] = N
      /\ \A M \in SUBSET Mask : Observed(F, L, B[M]) = Observed(F, K, M)
  BY <1>1 DEF Matches
<1>3. \A J : \A M \in SUBSET Mask : Observed(E, J, M) = Observed(F, J, M) \cap E
  BY DEF Observed
<1>4. \A M \in SUBSET Mask : Observed(E, L, B[M]) = Observed(E, K, M)
  <2> TAKE M \in SUBSET Mask
  <2>1. B[M] \in SUBSET Mask /\ Observed(F, L, B[M]) = Observed(F, K, M)
    BY <1>2
  <2>2. QED
    BY <1>3, <2>1
<1>5. ASSUME NEW o PROVE Cardinality(Showing(E, K, o)) = Cardinality(Showing(E, L, o))
  <2> DEFINE f == [M \in Showing(E, K, o) |-> B[M]]
  <2>1. IsFiniteSet(Showing(E, K, o))
    BY SymbolsAssumption, FS_SUBSET, FS_Subset DEF Showing
  <2>2. f \in [Showing(E, K, o) -> Showing(E, L, o)]
    BY <1>2, <1>4 DEF Showing
  <2>3. \A M, N \in Showing(E, K, o) : f[M] = f[N] => M = N
    BY <1>2 DEF Showing
  <2>4. \A N \in Showing(E, L, o) : \E M \in Showing(E, K, o) : f[M] = N
    <3> SUFFICES ASSUME NEW N \in Showing(E, L, o)
                 PROVE  \E M \in Showing(E, K, o) : f[M] = N
      OBVIOUS
    <3>1. PICK M \in SUBSET Mask : B[M] = N
      BY <1>2 DEF Showing
    <3>2. M \in Showing(E, K, o)
      BY <1>4, <3>1 DEF Showing
    <3>3. QED
      BY <3>1, <3>2
  <2> HIDE DEF f
  <2>5. f \in Bijection(Showing(E, K, o), Showing(E, L, o))
    BY <2>2, <2>3, <2>4, Fun_IsBij
  <2>6. ExistsBijection(Showing(E, K, o), Showing(E, L, o))
    BY <2>5 DEF ExistsBijection
  <2>7. QED
    BY <2>1, <2>6, FS_Bijection
<1>6. {Observed(E, K, M) : M \in SUBSET Mask} = {Observed(E, L, M) : M \in SUBSET Mask}
  <2>1. ASSUME NEW M \in SUBSET Mask PROVE \E N \in SUBSET Mask : Observed(E, L, N) = Observed(E, K, M)
    BY <1>2, <1>4
  <2>2. ASSUME NEW N \in SUBSET Mask PROVE \E M \in SUBSET Mask : Observed(E, K, M) = Observed(E, L, N)
    <3>1. PICK M \in SUBSET Mask : B[M] = N
      BY <1>2
    <3>2. QED
      BY <1>4, <3>1
  <2>3. QED
    BY <2>1, <2>2
<1>7. \A J : Distribution(E, J) = [o \in {Observed(E, J, M) : M \in SUBSET Mask} |-> Cardinality(Showing(E, J, o))]
  BY DEF Distribution, Showing
<1>8. QED
  BY <1>5, <1>6, <1>7

(* A symbol that changes the distribution of an observation changes that   *)
(* of any larger one.                                                      *)
LEMMA MoreRevealsMore ==
    ASSUME NEW E, NEW F, E \subseteq F
    PROVE  Effective(E) \subseteq Effective(F)
<1> SUFFICES ASSUME NEW s \in Effective(E) PROVE s \in Effective(F)
  OBVIOUS
<1>1. InputsIn(E) \subseteq InputsIn(F)
  BY DEF InputsIn
<1>2. PICK K \in SUBSET (InputsIn(E) \ {s}) : Distribution(E, K) # Distribution(E, K \cup {s})
  BY DEF Effective
<1>3. Distribution(F, K) # Distribution(F, K \cup {s})
  BY <1>2, SameDistributionOfFewer
<1>4. s \in InputsIn(F) /\ K \in SUBSET (InputsIn(F) \ {s})
  BY <1>1 DEF Effective
<1>5. QED
  BY <1>3, <1>4 DEF Effective

-----------------------------------------------------------------------------
(* Counting.                                                               *)

(* Gates that each hold at most one share of a secret hold together at     *)
(* most as many shares of it as there are gates.                           *)
LEMMA OneShareEach ==
    ASSUME NEW R, IsFiniteSet(R), NEW S, IsFiniteSet(S), NEW F, F \in [R -> SUBSET S],
           \A g \in R : \A x, y \in F[g] : x = y,
           NEW X, X \subseteq S, \A x \in X : \E g \in R : x \in F[g]
    PROVE  Cardinality(X) <= Cardinality(R)
<1>1. IsFiniteSet(X)
  BY FS_Subset
<1>2. Cardinality(X) \in Nat /\ Cardinality(R) \in Nat
  BY <1>1, FS_CardinalityType
<1> DEFINE h == [x \in X |-> CHOOSE g \in R : x \in F[g]]
<1>3. h \in [X -> R] /\ \A x \in X : x \in F[h[x]]
  OBVIOUS
<1> HIDE DEF h
<1>4. ASSUME Cardinality(R) < Cardinality(X) PROVE FALSE
  <2>1. \E x, y \in X : x # y /\ h[x] = h[y]
    BY <1>1, <1>3, <1>4, FS_PigeonHole
  <2>2. QED
    BY <1>3, <2>1
<1>5. QED
  BY <1>2, <1>4

(* A finite set counts what it has inside and outside of another one.      *)
LEMMA Split ==
    ASSUME NEW T, IsFiniteSet(T), NEW V
    PROVE  /\ IsFiniteSet(T \cap V) /\ IsFiniteSet(T \ V)
           /\ Cardinality(T) \in Nat /\ Cardinality(T \cap V) \in Nat /\ Cardinality(T \ V) \in Nat
           /\ Cardinality(T) = Cardinality(T \cap V) + Cardinality(T \ V)
<1>1. IsFiniteSet(T \cap V) /\ IsFiniteSet(T \ V)
  BY FS_Intersection, FS_Difference
<1>2. Cardinality(T) \in Nat /\ Cardinality(T \cap V) \in Nat /\ Cardinality(T \ V) \in Nat
  BY <1>1, FS_CardinalityType
<1>3. Cardinality(T \ V) = Cardinality(T) - Cardinality(T \cap V)
  BY FS_Difference
<1>4. QED
  BY <1>1, <1>2, <1>3

(* A part of a finite set can be filled up to any size.                    *)
LEMMA Fill ==
    \A S, A, n : /\ IsFiniteSet(S) /\ A \in SUBSET S /\ n \in Nat
                 /\ Cardinality(A) <= n /\ n <= Cardinality(S)
                 => \E B \in SUBSET S : A \subseteq B /\ Cardinality(B) = n
<1> SUFFICES ASSUME NEW S, IsFiniteSet(S), NEW A \in SUBSET S, NEW n \in Nat,
                    Cardinality(A) <= n, n <= Cardinality(S)
             PROVE  \E B \in SUBSET S : A \subseteq B /\ Cardinality(B) = n
  OBVIOUS
<1> DEFINE D == S \ A
           d == Cardinality(D)
           k == n - Cardinality(A)
<1>1. /\ IsFiniteSet(A) /\ IsFiniteSet(D)
      /\ Cardinality(A) \in Nat /\ d \in Nat
      /\ Cardinality(S) = Cardinality(A) + d
  <2>1. S \cap A = A
    OBVIOUS
  <2>2. QED
    BY <2>1, Split
<1>2. k \in 0 .. d
  BY <1>1
<1>3. PICK f \in Bijection(1 .. d, D) : TRUE
  BY <1>1, FS_CardinalityType DEF ExistsBijection
<1> HIDE DEF d, k, D
<1>4. f \in [1 .. d -> D] /\ \A i, j \in 1 .. d : f[i] = f[j] => i = j
  BY ONLY f \in Bijection(1 .. d, D), Fun_BijectionProperties
<1> DEFINE C == {f[i] : i \in 1 .. k}
           g == [i \in 1 .. k |-> f[i]]
<1>5. 1 .. k \subseteq 1 .. d
  BY <1>1, <1>2
<1>6. C \subseteq D
  BY <1>4, <1>5
<1>7. g \in [1 .. k -> C] /\ (\A i, j \in 1 .. k : g[i] = g[j] => i = j) /\ (\A c \in C : \E i \in 1 .. k : g[i] = c)
  BY <1>4, <1>5
<1> HIDE DEF g, C
<1>8. g \in Bijection(1 .. k, C)
  BY <1>7, Fun_IsBij
<1>9. Cardinality(C) = k
  BY <1>2, <1>8, FS_CountingElements DEF ExistsBijection
<1>10. IsFiniteSet(C)
  BY <1>1, <1>6, FS_Subset
<1>11. A \cap C = {} /\ A \cup C \in SUBSET S
  BY <1>6 DEF D
<1>12. Cardinality(A \cup C) = Cardinality(A) + Cardinality(C) - Cardinality(A \cap C)
  BY <1>1, <1>10, FS_Union
<1>13. Cardinality(A \cap C) = 0
  BY <1>11, FS_EmptySet
<1>14. Cardinality(A \cup C) = n
  BY <1>1, <1>9, <1>12, <1>13 DEF k
<1>15. QED
  BY <1>11, <1>14

(* A union is no larger than its parts together.                           *)
LEMMA UnionFits ==
    ASSUME NEW A, NEW B, IsFiniteSet(A), IsFiniteSet(B)
    PROVE  /\ IsFiniteSet(A \cup B)
           /\ Cardinality(A) \in Nat /\ Cardinality(B) \in Nat /\ Cardinality(A \cup B) \in Nat
           /\ Cardinality(A \cup B) <= Cardinality(A) + Cardinality(B)
           /\ A \cap B = {} => Cardinality(A \cup B) = Cardinality(A) + Cardinality(B)
<1>1. IsFiniteSet(A \cup B) /\ IsFiniteSet(A \cap B)
  BY FS_Union, FS_Intersection
<1>2. /\ Cardinality(A) \in Nat /\ Cardinality(B) \in Nat
      /\ Cardinality(A \cup B) \in Nat /\ Cardinality(A \cap B) \in Nat
  BY <1>1, FS_CardinalityType
<1>3. Cardinality(A \cup B) = Cardinality(A) + Cardinality(B) - Cardinality(A \cap B)
  BY FS_Union
<1>4. A \cap B = {} => Cardinality(A \cap B) = 0
  BY FS_EmptySet
<1>5. QED
  BY <1>1, <1>2, <1>3, <1>4

(* A part is no larger than the whole.                                     *)
LEMMA PartFits ==
    ASSUME NEW B, IsFiniteSet(B), NEW A, A \subseteq B
    PROVE  /\ IsFiniteSet(A)
           /\ Cardinality(A) \in Nat /\ Cardinality(B) \in Nat
           /\ Cardinality(A) <= Cardinality(B)
BY FS_Subset, FS_CardinalityType

(* What a function takes on a finite set is no larger than the set, and as *)
(* large when the function is injective there.                             *)
LEMMA ImageFits ==
    ASSUME NEW V, IsFiniteSet(V), NEW f, NEW X, X = {f[v] : v \in V}
    PROVE  /\ IsFiniteSet(X)
           /\ Cardinality(X) \in Nat /\ Cardinality(V) \in Nat
           /\ Cardinality(X) <= Cardinality(V)
           /\ (\A v, w \in V : f[v] = f[w] => v = w) => Cardinality(X) = Cardinality(V)
<1> DEFINE g == [v \in V |-> f[v]]
<1>1. g \in [V -> X] /\ (\A x \in X : \E v \in V : g[v] = x) /\ \A v \in V : g[v] = f[v]
  OBVIOUS
<1> HIDE DEF g
<1>2. g \in Surjection(V, X)
  BY <1>1, Fun_IsSurj
<1>3. IsFiniteSet(X) /\ Cardinality(X) <= Cardinality(V)
  BY <1>2, FS_Surjection
<1>4. ASSUME \A v, w \in V : f[v] = f[w] => v = w PROVE Cardinality(X) = Cardinality(V)
  <2>1. g \in Bijection(V, X)
    BY <1>1, <1>4, Fun_IsBij
  <2>2. QED
    BY <2>1, FS_Bijection DEF ExistsBijection
<1>5. QED
  BY <1>3, <1>4, FS_CardinalityType
=============================================================================
