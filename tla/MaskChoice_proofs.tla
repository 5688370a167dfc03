-------------------------- MODULE MaskChoice_proofs --------------------------
(***************************************************************************)
(* What nodes remember of the masks below them is right, whatever their    *)
(* values are: given the masks that hide a node by itself (a mask hides    *)
(* itself, a sum is hidden by what hides a single one of its operands, a   *)
(* negation by what hides its operand), all that Node::OpNode records, and *)
(* all that checkProperty exchanges, is a mask with a node that it hides.  *)
(***************************************************************************)
EXTENDS MaskChoice, WellFoundedInduction, NaturalsInduction, FiniteSetTheorems, TLAPS

-----------------------------------------------------------------------------
(* Induction on trees.                                                     *)

(* A set of natural numbers has a least element.                           *)
LEMMA LeastNumber ==
    ASSUME NEW S \in SUBSET Nat, S # {}
    PROVE  \E n \in S : \A k \in S : n <= k
<1>1. IsWellFoundedOn(OpToRel(<, Nat), Nat)
  BY NatLessThanWellFounded
<1>2. PICK x \in S : \A y \in Nat : <<y, x>> \in OpToRel(<, Nat) => ~(y \in S)
  BY <1>1, WFMin
<1>3. \A y \in Nat : y < x => <<y, x>> \in OpToRel(<, Nat)
  BY DEF OpToRel
<1>4. ASSUME NEW y \in S PROVE x <= y
  <2>1. y \in Nat /\ x \in Nat
    OBVIOUS
  <2>2. ~(y < x)
    BY <1>2, <1>3, <2>1
  <2>3. QED
    BY <2>1, <2>2
<1>5. QED
  BY <1>4

(* Every nonempty set of finite trees holds one none of whose operands is  *)
(* in it.                                                                  *)
LEMMA LowestTree ==
    ASSUME NEW S, AreTrees(S), NEW B \in SUBSET S, B # {}
    PROVE  \E n \in B : \A c \in Operands(n) : c \in S /\ c \notin B
<1> DEFINE D == {Height(n) : n \in B}
<1>1. D \in SUBSET Nat /\ D # {}
  BY DEF AreTrees
<1>2. PICK k \in D : \A j \in D : k <= j
  BY <1>1, LeastNumber
<1>3. PICK n \in B : k = Height(n)
  BY <1>2
<1>4. \A c \in B : Height(n) <= Height(c)
  BY <1>2, <1>3
<1>5. \A c \in Operands(n) : c \in S /\ Height(c) < Height(n)
  BY DEF AreTrees
<1>6. \A c \in S : Height(c) \in Nat
  BY DEF AreTrees
<1>7. \A c \in Operands(n) : c \notin B
  BY <1>4, <1>5, <1>6
<1>8. QED
  BY <1>5, <1>7

-----------------------------------------------------------------------------
(* What a node remembers of the masks.                                     *)

KnownOps == {"SYMB", "CONST", "BXOR", "PLUS", "BNOT", "UMINUS", "BAND", "BOR"}

(* The pairs of H, a mask and a node of S, follow the rules by which a     *)
(* mask comes to hide a node.                                              *)
IsHiding(H, S) ==
    /\ \A m, n : <<m, n>> \in H => m \in Mask
    /\ \A n \in S :
          /\ n.op \in KnownOps
          /\ n.op = "SYMB" /\ n.symb \in Mask => <<n.symb, n>> \in H
          /\ \A m : \A c \in Operands(n) :
                <<m, c>> \in H =>
                   /\ n.op \in {"BNOT", "UMINUS"} => <<m, n>> \in H
                   /\ /\ n.op \in {"BXOR", "PLUS"} /\ Copies(c, n) = 1
                      /\ \A d \in Operands(n) \ {c} : m \notin Symbols(d)
                      => <<m, n>> \in H

(* What n remembers is true.                                               *)
RemembersRight(n, H, S) ==
    /\ \A t \in Occ(n).currently : <<t[1], n>> \in H
    /\ \A t \in Occ(n).preserved : <<t[1], n>> \in H
    /\ \A t \in Occ(n).masking : t[3] \in S /\ <<t[1], t[3]>> \in H
    /\ \A m \in Symbols(n) \cap Mask : m \in MasksIn(Occ(n))

(* What is remembered of an operand is passed on.                          *)
LEMMA RememberedOperands ==
    ASSUME NEW n, NEW D
    PROVE  /\ \A t \in MaskingBelow(Remembering(D)) : \E c \in D : t \in Occ(c).masking
           /\ \A c \in D : Occ(c).masking \subseteq MaskingBelow(Remembering(D))
           /\ \A c \in D : \A t \in Occ(c).other : <<t[1], Under(t[2], n)>> \in OtherBelow(n, Remembering(D))
           /\ \A r \in Kept(Remembering(D)) :
                 \E c \in D : /\ r.operand = [node |-> c, occ |-> Occ(c)]
                              /\ \E t \in Occ(c).currently : r.mask = t[1] /\ r.base = t[2]
           /\ \A r \in New(n, Remembering(D)) :
                 \E c \in D : /\ r.operand = [node |-> c, occ |-> Occ(c)]
                              /\ \E t \in Occ(c).preserved : r.mask = t[1]
<1> DEFINE R == Remembering(D)
<1>1. \A o \in R : \E c \in D : o = [node |-> c, occ |-> Occ(c)] /\ o.node = c /\ o.occ = Occ(c)
  BY DEF Remembering
<1>2. \A c \in D : [node |-> c, occ |-> Occ(c)] \in R
  BY DEF Remembering
<1> HIDE DEF R
<1>3. \A t \in MaskingBelow(R) : \E c \in D : t \in Occ(c).masking
  BY <1>1 DEF MaskingBelow
<1>4. ASSUME NEW c \in D PROVE Occ(c).masking \subseteq MaskingBelow(R)
  <2> DEFINE o == [node |-> c, occ |-> Occ(c)]
  <2>1. o \in R /\ o.occ = Occ(c)
    BY <1>2
  <2> HIDE DEF o
  <2>2. QED
    BY <2>1 DEF MaskingBelow
<1>5. ASSUME NEW c \in D, NEW t \in Occ(c).other PROVE <<t[1], Under(t[2], n)>> \in OtherBelow(n, R)
  <2> DEFINE o == [node |-> c, occ |-> Occ(c)]
  <2>1. o \in R /\ o.occ = Occ(c)
    BY <1>2
  <2> HIDE DEF o
  <2>2. t \in UNION {p.occ.other : p \in R}
    BY <2>1
  <2>3. QED
    BY <2>2 DEF OtherBelow
<1>6. ASSUME NEW r \in Kept(R)
      PROVE  \E c \in D : /\ r.operand = [node |-> c, occ |-> Occ(c)]
                          /\ \E t \in Occ(c).currently : r.mask = t[1] /\ r.base = t[2]
  <2>1. PICK o \in R : \E t \in o.occ.currently : r = [mask |-> t[1], base |-> t[2], operand |-> o]
    BY DEF Kept
  <2>2. PICK t \in o.occ.currently : r = [mask |-> t[1], base |-> t[2], operand |-> o]
    BY <2>1
  <2>3. QED
    BY <1>1, <2>2
<1>7. ASSUME NEW r \in New(n, R)
      PROVE  \E c \in D : /\ r.operand = [node |-> c, occ |-> Occ(c)]
                          /\ \E t \in Occ(c).preserved : r.mask = t[1]
  <2>1. PICK o \in R : \E t \in o.occ.preserved : r = [mask |-> t[1], parent |-> Under(t[2], n), operand |-> o]
    BY DEF New
  <2>2. PICK t \in o.occ.preserved : r = [mask |-> t[1], parent |-> Under(t[2], n), operand |-> o]
    BY <2>1
  <2>3. QED
    BY <1>1, <2>2
<1>8. QED
  BY <1>3, <1>4, <1>5, <1>6, <1>7 DEF R

(* What a sum takes to hide it does.                                       *)
LEMMA AloneHides ==
    ASSUME NEW S, NEW H, IsHiding(H, S), NEW n \in S, n.op \in {"BXOR", "PLUS"},
           \A c \in Operands(n) : RemembersRight(c, H, S),
           NEW r, NEW c \in Operands(n), r.operand = [node |-> c, occ |-> Occ(c)],
           <<r.mask, c>> \in H, Alone(r.mask, r.operand, n, Remembering(Operands(n)))
    PROVE  <<r.mask, n>> \in H
<1>1. ASSUME NEW d \in Operands(n) \ {c} PROVE r.mask \notin Symbols(d)
  <2> DEFINE p == [node |-> d, occ |-> Occ(d)]
  <2>1. p \in Remembering(Operands(n)) /\ p # r.operand /\ p.occ = Occ(d)
    BY DEF Remembering
  <2> HIDE DEF p
  <2>2. r.mask \notin MasksIn(Occ(d))
    BY <2>1 DEF Alone
  <2>3. r.mask \in Mask
    BY DEF IsHiding
  <2>4. QED
    BY <2>2, <2>3 DEF RemembersRight
<1>2. r.operand.node = c
  OBVIOUS
<1>3. Copies(c, n) = 1
  BY <1>2 DEF Alone
<1> DEFINE m == r.mask
<1>4. <<m, c>> \in H /\ \A d \in Operands(n) \ {c} : m \notin Symbols(d)
  BY <1>1
<1> HIDE DEF m
<1>5. <<m, n>> \in H
  BY <1>3, <1>4 DEF IsHiding
<1>6. QED
  BY <1>5 DEF m

(* A node on nodes that remember what is true remembers what is true.      *)
LEMMA RememberedOfOperator ==
    ASSUME NEW S, AreTrees(S), NEW H, IsHiding(H, S), NEW n \in S, n.op \notin {"SYMB", "CONST"},
           \A c \in Operands(n) : RemembersRight(c, H, S)
    PROVE  RemembersRight(n, H, S)
<1> DEFINE R == Remembering(Operands(n))
           kept == AloneIn(Kept(R), n, R)
           new == AloneIn(New(n, R), n, R)
<1>1. n.op \in {"BXOR", "PLUS", "BNOT", "UMINUS", "BAND", "BOR"}
  BY DEF IsHiding, KnownOps
<1>2. Occ(n) = OccOf(n, R)
  BY DEF AreTrees
<1>3. /\ n.op \in {"BXOR", "PLUS"} => Occ(n) = SumOcc(n, R)
      /\ n.op \in {"BNOT", "UMINUS"} => Occ(n) = NegationOcc(n, R)
      /\ n.op \in {"BAND", "BOR"} => Occ(n) = ProductOcc(n, R)
  BY <1>1, <1>2 DEF OccOf
<1>4. /\ \A t \in MaskingBelow(R) : t[3] \in S /\ <<t[1], t[3]>> \in H
      /\ \A r \in Kept(R) : \E c \in Operands(n) : r.operand = [node |-> c, occ |-> Occ(c)] /\ <<r.mask, c>> \in H
      /\ \A r \in New(n, R) : \E c \in Operands(n) : r.operand = [node |-> c, occ |-> Occ(c)] /\ <<r.mask, c>> \in H
  <2>1. \A t \in MaskingBelow(R) : \E c \in Operands(n) : t \in Occ(c).masking
    BY RememberedOperands
  <2>2. ASSUME NEW r \in Kept(R)
        PROVE  \E c \in Operands(n) : r.operand = [node |-> c, occ |-> Occ(c)] /\ <<r.mask, c>> \in H
    <3>1. PICK c \in Operands(n) : r.operand = [node |-> c, occ |-> Occ(c)] /\ \E t \in Occ(c).currently : r.mask = t[1] /\ r.base = t[2]
      BY RememberedOperands
    <3>2. QED
      BY <3>1 DEF RemembersRight
  <2>3. ASSUME NEW r \in New(n, R)
        PROVE  \E c \in Operands(n) : r.operand = [node |-> c, occ |-> Occ(c)] /\ <<r.mask, c>> \in H
    <3>1. PICK c \in Operands(n) : r.operand = [node |-> c, occ |-> Occ(c)] /\ \E t \in Occ(c).preserved : r.mask = t[1]
      BY RememberedOperands
    <3>2. QED
      BY <3>1 DEF RemembersRight
  <2> HIDE DEF R
  <2>4. QED
    BY <2>1, <2>2, <2>3 DEF RemembersRight
<1>5. ASSUME NEW m \in Symbols(n) \cap Mask,
             NEW other, other = Occ(n).other,
             MaskingBelow(R) \subseteq Occ(n).masking,
             \A t \in OtherBelow(n, R) : t \in other \/ \E u \in Occ(n).masking : u[1] = t[1]
      PROVE  m \in MasksIn(Occ(n))
  <2>1. PICK c \in Operands(n) : m \in Symbols(c)
    BY <1>1 DEF AreTrees
  <2>2. PICK t \in Occ(c).masking \cup Occ(c).other : t[1] = m
    BY <2>1 DEF RemembersRight, MasksIn
  <2>3. CASE t \in Occ(c).masking
    <3>1. t \in Occ(n).masking
      BY <1>5, <2>3, RememberedOperands
    <3>2. QED
      BY <2>2, <3>1 DEF MasksIn
  <2>4. CASE t \in Occ(c).other
    <3>1. <<t[1], Under(t[2], n)>> \in OtherBelow(n, R)
      BY <2>4, RememberedOperands
    <3>2. PICK u \in Occ(n).masking \cup Occ(n).other : u[1] = t[1]
      BY <1>5, <3>1
    <3>3. QED
      BY <2>2, <3>2 DEF MasksIn
  <2>5. QED
    BY <2>2, <2>3, <2>4
<1>6. CASE n.op \in {"BXOR", "PLUS"}
  <2>1. \A r \in kept \cup new : <<r.mask, n>> \in H
    <3> SUFFICES ASSUME NEW r \in kept \cup new PROVE <<r.mask, n>> \in H
      OBVIOUS
    <3>1. (r \in Kept(R) \/ r \in New(n, R)) /\ Alone(r.mask, r.operand, n, R)
      BY DEF AloneIn
    <3>2. PICK c \in Operands(n) : r.operand = [node |-> c, occ |-> Occ(c)] /\ <<r.mask, c>> \in H
      BY <1>4, <3>1
    <3>3. QED
      BY <1>6, <3>1, <3>2, AloneHides
  <2> HIDE DEF kept, new
  <2>1a. Occ(n) = SumOcc(n, R)
    BY <1>3, <1>6
  <2>1b. Occ(n).masking = MaskingBelow(R) \cup Above(kept, n) \cup HiddenBy(new, n)
    BY <2>1a DEF SumOcc, kept, new
  <2>1c. Occ(n).other = OtherBelow(n, R) \ {<<r.mask, r.parent>> : r \in new}
    BY <2>1a DEF SumOcc, kept, new
  <2>1d. Occ(n).currently = {<<r.mask, r.base>> : r \in kept} \cup {<<r.mask, n>> : r \in new}
    BY <2>1a DEF SumOcc, kept, new
  <2>1e. Occ(n).preserved = {}
    BY <2>1a DEF SumOcc, kept, new
  <2>2. /\ \A t \in HiddenBy(new, n) : \E r \in new : t = <<r.mask, n, n, 0>>
        /\ \A r \in new : <<r.mask, n, n, 0>> \in HiddenBy(new, n)
    BY DEF HiddenBy
  <2>3. \A t \in Occ(n).currently : <<t[1], n>> \in H
    BY <2>1, <2>1d
  <2>4. \A t \in Above(kept, n) : \E r \in kept : t[3] = n /\ t[1] = r.mask
    BY DEF Above
  <2>5. \A t \in Occ(n).masking : t[3] \in S /\ <<t[1], t[3]>> \in H
    <3> HIDE DEF R
    <3> SUFFICES ASSUME NEW t \in Occ(n).masking PROVE t[3] \in S /\ <<t[1], t[3]>> \in H
      OBVIOUS
    <3>1. CASE t \in MaskingBelow(R)
      BY <1>4, <3>1
    <3>2. CASE t \in Above(kept, n)
      BY <2>1, <2>4, <3>2
    <3>3. CASE t \in HiddenBy(new, n)
      BY <2>1, <2>2, <3>3
    <3>4. QED
      BY <2>1b, <3>1, <3>2, <3>3
  <2>6. \A t \in OtherBelow(n, R) : t \in Occ(n).other \/ \E u \in Occ(n).masking : u[1] = t[1]
    <3> HIDE DEF R
    <3> SUFFICES ASSUME NEW t \in OtherBelow(n, R), t \notin Occ(n).other
                 PROVE  \E u \in Occ(n).masking : u[1] = t[1]
      OBVIOUS
    <3>1. PICK r \in new : t = <<r.mask, r.parent>>
      BY <2>1c
    <3>2. <<r.mask, n, n, 0>> \in Occ(n).masking
      BY <2>1b, <2>2
    <3>3. QED
      BY <3>1, <3>2
  <2>7. \A m \in Symbols(n) \cap Mask : m \in MasksIn(Occ(n))
    BY <1>5, <2>1b, <2>6
  <2>8. QED
    BY <2>1e, <2>3, <2>5, <2>7 DEF RemembersRight
<1>7. CASE n.op \in {"BNOT", "UMINUS"}
  <2>1. \A r \in Kept(R) \cup New(n, R) : <<r.mask, n>> \in H
    <3> HIDE DEF R
    <3> SUFFICES ASSUME NEW r \in Kept(R) \cup New(n, R) PROVE <<r.mask, n>> \in H
      OBVIOUS
    <3>1. PICK c \in Operands(n) : <<r.mask, c>> \in H
      BY <1>4
    <3>2. QED
      BY <1>7, <3>1 DEF IsHiding
  <2> HIDE DEF R
  <2>2. /\ Occ(n).masking = MaskingBelow(R) \cup Above(Kept(R), n)
        /\ Occ(n).other = OtherBelow(n, R)
        /\ Occ(n).currently = {<<r.mask, r.base>> : r \in Kept(R)}
        /\ Occ(n).preserved = {<<r.mask, r.parent>> : r \in New(n, R)}
    BY <1>3, <1>7 DEF NegationOcc
  <2>3. \A t \in Occ(n).currently \cup Occ(n).preserved : <<t[1], n>> \in H
    BY <2>1, <2>2
  <2>4. \A t \in Above(Kept(R), n) : \E r \in Kept(R) : t[3] = n /\ t[1] = r.mask
    BY DEF Above
  <2>5. \A t \in Occ(n).masking : t[3] \in S /\ <<t[1], t[3]>> \in H
    <3>1. \A t \in Above(Kept(R), n) : t[3] \in S /\ <<t[1], t[3]>> \in H
      BY <2>1, <2>4
    <3>2. QED
      BY <1>4, <2>2, <3>1
  <2>6. \A m \in Symbols(n) \cap Mask : m \in MasksIn(Occ(n))
    BY <1>5, <2>2
  <2>7. QED
    BY <2>3, <2>5, <2>6 DEF RemembersRight
<1>8. CASE n.op \in {"BAND", "BOR"}
  <2>1. /\ Occ(n).masking = MaskingBelow(R) /\ Occ(n).other = OtherBelow(n, R)
        /\ Occ(n).currently = {} /\ Occ(n).preserved = {}
    BY <1>3, <1>8 DEF ProductOcc
  <2> HIDE DEF R
  <2>2. \A m \in Symbols(n) \cap Mask : m \in MasksIn(Occ(n))
    BY <1>5, <2>1
  <2>3. QED
    BY <1>4, <2>1, <2>2 DEF RemembersRight
<1>9. QED
  BY <1>1, <1>6, <1>7, <1>8

(* A mask is hidden by itself, and nothing else is remembered of a leaf.   *)
LEMMA RememberedOfLeaf ==
    ASSUME NEW S, AreTrees(S), NEW H, IsHiding(H, S), NEW n \in S, n.op \in {"SYMB", "CONST"}
    PROVE  RemembersRight(n, H, S)
<1>1. Occ(n) = OccOf(n, Remembering(Operands(n)))
  BY DEF AreTrees
<1>2. CASE n.op = "SYMB" /\ n.symb \in Mask
  <2> DEFINE s == n.symb
  <2>1. Occ(n) = MaskOcc(s)
    BY <1>1, <1>2 DEF OccOf
  <2>2. Symbols(n) = {s}
    BY <1>2 DEF AreTrees
  <2>3. <<s, n>> \in H
    BY <1>2 DEF IsHiding
  <2> HIDE DEF s
  <2>4. /\ Occ(n).masking = {} /\ Occ(n).currently = {}
        /\ Occ(n).other = {<<s, NoParent>>} /\ Occ(n).preserved = {<<s, NoParent>>}
    BY <2>1 DEF MaskOcc
  <2>5. s \in MasksIn(Occ(n))
    BY <2>4 DEF MasksIn
  <2>6. \A t \in Occ(n).preserved : t[1] = s
    BY <2>4
  <2>7. QED
    BY <2>2, <2>3, <2>4, <2>5, <2>6 DEF RemembersRight
<1>3. CASE ~(n.op = "SYMB" /\ n.symb \in Mask)
  <2>1. Occ(n) = LeafOcc
    BY <1>1, <1>3 DEF OccOf
  <2>2. Symbols(n) \cap Mask = {}
    <3>1. CASE n.op = "SYMB"
      <4>1. Symbols(n) = {n.symb}
        BY <3>1 DEF AreTrees
      <4>2. QED
        BY <1>3, <3>1, <4>1
    <3>2. CASE n.op = "CONST"
      <4>1. Operands(n) = {}
        BY <3>2 DEF Operands, IsLeaf
      <4>2. Symbols(n) = UNION {Symbols(c) : c \in Operands(n)}
        BY <3>2 DEF AreTrees
      <4>3. QED
        BY <4>1, <4>2
    <3>3. QED
      BY <3>1, <3>2
  <2>3. QED
    BY <2>1, <2>2 DEF RemembersRight, LeafOcc
<1>4. QED
  BY <1>2, <1>3

(* Every expression remembers what is true.                                *)
THEOREM TreesRememberRight ==
    ASSUME NEW S, AreTrees(S), NEW H, IsHiding(H, S)
    PROVE  \A n \in S : RemembersRight(n, H, S)
<1> DEFINE B == {n \in S : ~RemembersRight(n, H, S)}
<1> SUFFICES ASSUME B # {} PROVE FALSE
  OBVIOUS
<1>0. B \in SUBSET S
  OBVIOUS
<1> HIDE DEF B
<1>1. PICK n \in B : \A c \in Operands(n) : c \in S /\ c \notin B
  BY <1>0, LowestTree
<1>2. n \in S /\ ~RemembersRight(n, H, S) /\ \A c \in Operands(n) : RemembersRight(c, H, S)
  BY <1>1 DEF B
<1>3. n.op \notin {"SYMB", "CONST"}
  BY <1>2, RememberedOfLeaf
<1>4. QED
  BY <1>2, <1>3, RememberedOfOperator

-----------------------------------------------------------------------------
(* Tuples.                                                                 *)

(* The expressions of a tuple.                                             *)
LEMMA ExpressionsOfTuple ==
    ASSUME NEW S, NEW T, AreTuples(T, S), NEW s \in T
    PROVE  /\ s \in Seq(S) /\ DOMAIN s = 1 .. Len(s) /\ Len(s) \in Nat /\ Len(s) # 0
           /\ \A i \in DOMAIN s : s[i] \in S /\ s[i] \in NodesOf(s) /\ s[i] \in ToSet(s)
           /\ \A e \in ToSet(s) : e \in S /\ \E i \in DOMAIN s : e = s[i]
<1>1. /\ s \in Seq(S) /\ s # <<>>
      /\ NodesOf(s) \subseteq S /\ ToSet(s) \subseteq NodesOf(s)
  BY DEF AreTuples
<1>2. \A i \in DOMAIN s : s[i] \in ToSet(s)
  BY DEF ToSet
<1>3. \A e \in ToSet(s) : \E i \in DOMAIN s : e = s[i]
  BY DEF ToSet
<1>4. QED
  BY <1>1, <1>2, <1>3

(* What the node of the loop remembers is true as well: a mask that hides  *)
(* all of the tuple hides its only expression.                             *)
LEMMA TuplesRemember ==
    ASSUME NEW S, AreTrees(S), NEW H, IsHiding(H, S), NEW T, AreTuples(T, S), NEW s \in T
    PROVE  /\ \A t \in TupleOcc(s).masking : t[3] \in S /\ <<t[1], t[3]>> \in H
           /\ IsMasked(s) => \E e \in S, m \in Mask : ToSet(s) = {e} /\ <<m, e>> \in H
<1>0. \A n \in S : RemembersRight(n, H, S)
  BY TreesRememberRight
<1>1. CASE IsConcat(s)
  <2> DEFINE n == OpNode("CONCAT", ToSet(s))
             R == Remembering(ToSet(s))
  <2>1. TupleOcc(s) = OccOf(n, R)
    BY <1>1 DEF TupleOcc
  <2>2. n.op = "CONCAT"
    BY DEF OpNode
  <2> HIDE DEF n
  <2>3. TupleOcc(s) = ProductOcc(n, R)
    BY <2>1, <2>2 DEF OccOf
  <2>4. TupleOcc(s).masking = MaskingBelow(R) /\ TupleOcc(s).currently = {}
    BY <2>3 DEF ProductOcc
  <2>5. ASSUME NEW t \in TupleOcc(s).masking PROVE t[3] \in S /\ <<t[1], t[3]>> \in H
    <3>0. \A u \in MaskingBelow(R) : \E c \in ToSet(s) : u \in Occ(c).masking
      BY RememberedOperands
    <3> HIDE DEF R
    <3>1. PICK c \in ToSet(s) : t \in Occ(c).masking
      BY <2>4, <3>0
    <3>2. c \in S
      BY ExpressionsOfTuple
    <3>3. QED
      BY <1>0, <3>1, <3>2 DEF RemembersRight
  <2>6. QED
    BY <2>4, <2>5 DEF IsMasked
<1>2. CASE ~IsConcat(s)
  <2>0. Len(s) \in Nat /\ Len(s) # 0 /\ ~(Len(s) > 1) /\ DOMAIN s = 1 .. Len(s)
    BY <1>2, ExpressionsOfTuple DEF IsConcat
  <2>1. DOMAIN s = {1}
    BY <2>0
  <2>2. ToSet(s) = {s[1]} /\ s[1] \in S
    BY <2>1, ExpressionsOfTuple
  <2>3. TupleOcc(s) = Occ(s[1]) /\ RemembersRight(s[1], H, S)
    BY <1>0, <1>2, <2>2 DEF TupleOcc
  <2>4. ASSUME IsMasked(s) PROVE \E e \in S, m \in Mask : ToSet(s) = {e} /\ <<m, e>> \in H
    <3>1. PICK t \in Occ(s[1]).currently : TRUE
      BY <2>3, <2>4 DEF IsMasked
    <3>2. <<t[1], s[1]>> \in H
      BY <2>3, <3>1 DEF RemembersRight
    <3>3. t[1] \in Mask
      BY <3>2 DEF IsHiding
    <3>4. QED
      BY <2>2, <3>2, <3>3
  <2>5. QED
    BY <2>3, <2>4 DEF RemembersRight
<1>3. QED
  BY <1>1, <1>2

(* A hidden pair is a mask and an expression that it hides.                *)
LEMMA HiddenInTuple ==
    ASSUME NEW S, AreTrees(S), NEW H, IsHiding(H, S), NEW T, AreTuples(T, S),
           NEW s \in T, NEW p \in Hidden(s)
    PROVE  p[2] \in S /\ <<p[1], p[2]>> \in H
<1>1. PICK t \in TupleOcc(s).masking : p = <<t[1], t[3]>>
  BY DEF Hidden
<1>2. p[1] = t[1] /\ p[2] = t[3]
  BY <1>1
<1>3. QED
  BY <1>2, TuplesRemember

(* The loop exchanges a mask with a node that it hides.                    *)
LEMMA ExchangesHidden ==
    ASSUME NEW s, NEW used, NEW p \in Exchanges(s, used)
    PROVE  p \in Hidden(s)
<1> DEFINE occ == TupleOcc(s)
           preferred == {m \in Candidates(occ, s, used) : \A m2 \in Candidates(occ, s, used) : Preferred(m, m2, occ)}
<1>1. p \in UNION {{<<m, ctr>> : ctr \in NodesToReplace(m, occ, s)} : m \in preferred}
  BY DEF Exchanges
<1>2. PICK m \in preferred : \E ctr \in NodesToReplace(m, occ, s) : p = <<m, ctr>>
  BY <1>1
<1>3. PICK ctr \in NodesToReplace(m, occ, s) : p = <<m, ctr>>
  BY <1>2
<1> HIDE DEF occ
<1>4. \E t \in occ.masking : t[1] = m /\ t[3] = ctr
  BY <1>3 DEF NodesToReplace
<1>5. QED
  BY <1>3, <1>4 DEF Hidden, occ
=============================================================================
