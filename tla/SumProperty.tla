----------------------------- MODULE SumProperty -----------------------------
(***************************************************************************)
(* checkProperty (src/src/tps.cpp) on tuples of sums of words: TPS of      *)
(* expressions made with + and - from secrets and masks of a few bits.     *)
(* The loop exchanges a mask m with a sum that m hides, as it does for     *)
(* bits; but m + k put for m and m for m + k is not the way back: that     *)
(* would be m - k.                                                         *)
(*                                                                         *)
(* A sum holds the bag of its operands.  Constants other than 0 are left   *)
(* out: checkProperty removes them from sums.                              *)
(***************************************************************************)
EXTENDS MaskChoice

CONSTANTS
    WordWidth,              \* bound: bits of a word
    WordSymbol,             \* bound: the symbols that occur
    SumNode,                \* bound: the expressions there are
    SumTuple,               \* bound: the tuples the loop may come to
    WordValue(_, _),        \* WordValue(n, v): see WordValueOf
    PartialSum(_, _, _),    \* PartialSum(n, P, v): the sum of the operands of n at P
    ReplacedSum(_, _, _),   \* ReplacedSum(e, m, ctr): see ReplacedSumOf
    SimplifiedSum(_),       \* the expression that simplify returns
    SumTuples               \* the tuples asked about, simplified

VARIABLES
    sumRoots,               \* the expressions of the tuple
    exact,                  \* noFalsePositive
    taken,                  \* the masks already chosen
    answer,                 \* what the call returns, "none" before
    sumsAsked,              \* history: the tuple the call was made with
    involutive              \* history: the exchanges made are their own way back

sumVars == <<sumRoots, exact, taken, answer, sumsAsked, involutive>>

-----------------------------------------------------------------------------
(* Words, and their sums that wrap around.                                 *)

WordCount == 2 ^ WordWidth
Words == 0 .. WordCount - 1

ASSUME WordWidthAssumption == WordWidth \in Nat \ {0} /\ WordCount \in Nat \ {0}

Plus(a, b) == IF a + b < WordCount THEN a + b ELSE a + b - WordCount
Opposite(a) == IF a = 0 THEN 0 ELSE WordCount - a

-----------------------------------------------------------------------------
(* Expressions: finite trees of sums and negations.                        *)

Zero == Const(FALSE)
Sum(b) == [op |-> "PLUS", args |-> b]
Neg(e) == [op |-> "UMINUS", args |-> [x \in {e} |-> 1]]
TheOperand(e) == CHOOSE x \in Operands(e) : TRUE

(* Where the operands of n are: an operand, and the which of its copies.   *)
Positions(n) == UNION {{<<c, i>> : i \in 1 .. Copies(c, n)} : c \in Operands(n)}

ASSUME SumNodeAssumption ==
    \A n \in SumNode :
        \/ n = Zero
        \/ \E s \in Secret \cup Mask : n = Symb(s)
        \/ \E e \in SumNode : n = Neg(e)
        \/ /\ n.op = "PLUS" /\ n = Sum(n.args) /\ IsFiniteSet(DOMAIN n.args)
           /\ \A c \in DOMAIN n.args : n.args[c] \in Nat \ {0}

ASSUME SumTreesAssumption == AreTrees(SumNode) /\ AreTuples(SumTuple, SumNode) /\ SumTuples \subseteq SumTuple

ASSUME WordSymbolAssumption == \A n \in SumNode : Symbols(n) \subseteq WordSymbol

(* What an expression means (getExpValueRec): v gives the words of the     *)
(* symbols.                                                                *)
WordValueOf(n, v) ==
    CASE n.op = "SYMB"   -> v[n.symb]
      [] n.op = "CONST"  -> 0
      [] n.op = "UMINUS" -> Opposite(WordValue(TheOperand(n), v))
      [] n.op = "PLUS"   -> PartialSum(n, Positions(n), v)

ASSUME WordValueAssumption ==
    \A n \in SumNode : \A v \in [WordSymbol -> Words] : WordValue(n, v) = WordValueOf(n, v)

(* The operands may be added in any order.                                 *)
ASSUME PartialSumAssumption ==
    \A n \in SumNode : \A v \in [WordSymbol -> Words] :
        /\ PartialSum(n, {}, v) = 0
        /\ \A P \in SUBSET Positions(n) : \A p \in P :
              PartialSum(n, P, v) = Plus(WordValue(p[1], v), PartialSum(n, P \ {p}, v))

(* simplify keeps the value.                                               *)
ASSUME SimplifiedSumAssumption ==
    \A n \in SumNode : LET r == SimplifiedSum(n)
                        IN  \A v \in [WordSymbol -> Words] : WordValue(r, v) = WordValue(n, v)

-----------------------------------------------------------------------------
(* getReplacedGraph.                                                       *)

(* The node made of the replaced operands, equal ones added up.            *)
RebuiltSum(e, replaced) ==
    [op |-> e.op,
     args |-> [d \in {replaced[c] : c \in Operands(e)} |->
                  Cardinality({p \in Positions(e) : replaced[p[1]] = d})]]

(* Mutant: the other occurrences of the mask are left as they are.         *)
ReplacedSumOneWay(e, m, ctr, replaced) ==
    IF e = ctr THEN Symb(m)
    ELSE IF IsLeaf(e) THEN e
    ELSE RebuiltSum(e, replaced)

(* m and ctr exchanged in e; replaced[c] is what the operand c becomes.    *)
ReplacedSumOf(e, m, ctr, replaced) ==
    IF e = ctr THEN Symb(m)
    ELSE IF e = Symb(m) THEN ctr
    ELSE IF IsLeaf(e) THEN e
    ELSE RebuiltSum(e, replaced)

ASSUME ReplacedSumAssumption ==
    \A s \in SumTuple : \A p \in Hidden(s) : \A e \in NodesOf(s) :
        /\ ReplacedSum(e, p[1], p[2]) \in SumNode
        /\ ReplacedSum(e, p[1], p[2])
              = ReplacedSumOf(e, p[1], p[2], [c \in Operands(e) |-> ReplacedSum(c, p[1], p[2])])

After(s, m, ctr) == [i \in DOMAIN s |-> SimplifiedSum(ReplacedSum(s[i], m, ctr))]

-----------------------------------------------------------------------------
(* isTPSWithExev: what the tuple s shows for all values of the masks, when *)
(* the secrets are k, and when they are anything.                          *)

SecretWords == [WordSymbol \ Mask -> Words]
MaskWords == [WordSymbol \cap Mask -> Words]

Joined(k, w) == [x \in WordSymbol |-> IF x \in Mask THEN w[x] ELSE k[x]]

ShownWords(s, k, w) == [i \in DOMAIN s |-> WordValue(s[i], Joined(k, w))]

WordDistribution(s, k) ==
    [o \in {ShownWords(s, k, w) : w \in MaskWords} |->
        Cardinality({w \in MaskWords : ShownWords(s, k, w) = o})]

WordsAreTPS(s) ==
    LET distributions == {WordDistribution(s, k) : k \in SecretWords}
    IN  \A d1, d2 \in distributions : d1 = d2

-----------------------------------------------------------------------------
(* The loop.                                                               *)

SymbolsOfTuple(s) == UNION {Symbols(s[i]) : i \in DOMAIN s}

NoSecretLeft == SymbolsOfTuple(sumRoots) \cap Secret = {}

AnswerSum(a) ==
    /\ answer' = a
    /\ UNCHANGED <<sumRoots, exact, taken, sumsAsked, involutive>>

(* No secret occurs, or a mask hides the whole tuple.                      *)
SumsHide ==
    /\ answer = "none"
    /\ NoSecretLeft \/ IsMasked(sumRoots)
    /\ AnswerSum("yes")

(* Putting ctr for m in ctr gives m back, whatever the values are.         *)
IsInvolution(m, ctr) ==
    \A v \in [WordSymbol -> Words] : WordValue(ctr, [v EXCEPT ![m] = WordValue(ctr, v)]) = v[m]

(* m occurs nowhere but in ctr: going down from the roots without passing  *)
(* through ctr, one stays among nodes N that are not m.                    *)
OnlyIn(m, ctr, s) ==
    \E N \in SUBSET NodesOf(s) :
        /\ ToSet(s) \subseteq N /\ Symb(m) \notin N
        /\ \A e \in N \ {ctr} : Operands(e) \subseteq N

IsHarmless(m, ctr, s) == OnlyIn(m, ctr, s) \/ IsInvolution(m, ctr)

ExchangeSums ==
    /\ answer = "none"
    /\ ~NoSecretLeft
    /\ \E p \in Exchanges(sumRoots, taken) :
         /\ taken' = taken \cup {p[1]}
         /\ sumRoots' = After(sumRoots, p[1], p[2])
         /\ sumRoots' \in SumTuple
         /\ involutive' = (involutive /\ IsHarmless(p[1], p[2], sumRoots))
    /\ UNCHANGED <<exact, answer, sumsAsked>>

NoExchangeLeft ==
    /\ answer = "none"
    /\ ~NoSecretLeft
    /\ ~IsMasked(sumRoots)
    /\ Exchanges(sumRoots, taken) = {}
    /\ AnswerSum(IF exact /\ WordsAreTPS(sumRoots) THEN "yes" ELSE "no")

SumInit ==
    /\ sumsAsked \in SumTuples
    /\ sumRoots = sumsAsked
    /\ exact \in BOOLEAN
    /\ taken = {}
    /\ answer = "none"
    /\ involutive = TRUE

SumReturned == answer # "none" /\ UNCHANGED sumVars

SumNext ==
    \/ SumReturned
    \/ SumsHide
    \/ ExchangeSums
    \/ NoExchangeLeft

SumSpec == SumInit /\ [][SumNext]_sumVars

-----------------------------------------------------------------------------
(* README.md:313: tps verifies the property; a yes must never be wrong.    *)
SumPositiveIsRight == answer = "yes" => WordsAreTPS(sumsAsked)

(* As long as every exchange is its own way back, or the mask occurs only  *)
(* in the sum it is exchanged with, a yes is right, and with               *)
(* noFalsePositive a no as well.                                           *)
SumVerdictExact ==
    involutive =>
        /\ answer = "yes" => WordsAreTPS(sumsAsked)
        /\ answer = "no" /\ exact => ~WordsAreTPS(sumsAsked)

(* Such an exchange, with the simplification that follows, leaves the      *)
(* joint distribution of the tuple as it is for all values of the secrets: *)
(* all occurrences are exchanged at once.                                  *)
HarmlessExchangeKeepsDistribution ==
    answer = "none" =>
        \A p \in Exchanges(sumRoots, taken) :
            IsHarmless(p[1], p[2], sumRoots) =>
                \A k \in SecretWords :
                    WordDistribution(After(sumRoots, p[1], p[2]), k) = WordDistribution(sumRoots, k)
=============================================================================
