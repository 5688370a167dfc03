------------------------------- MODULE Constants -------------------------------
(***************************************************************************)
(* Constants of any width (src/src/node.cpp, and getExpValue in            *)
(* src/src/concrev.cpp): a constant is kept in limbs of 64 bits, the       *)
(* lowest first, the bits above its width in the last limb being 0.  A     *)
(* limb has LimbWidth bits here, and a limb operation is what uint64_t     *)
(* arithmetic is: modulo 2^LimbWidth.                                      *)
(***************************************************************************)
EXTENDS Integers, FiniteSets, SequencesExt
LOCAL INSTANCE Bitwise

CONSTANT LimbWidth          \* bits of a limb, 64 in the code

ASSUME LimbWidthAssumption == LimbWidth \in Nat \ {0}

-----------------------------------------------------------------------------
(* Limbs.                                                                  *)
Base == 2 ^ LimbWidth
Limb == 0 .. Base - 1

NbLimbs(width) == (width + LimbWidth - 1) \div LimbWidth
Indexes(width) == 0 .. NbLimbs(width) - 1

Constant(width, limbs) == [width |-> width, cst |-> limbs]

Left(x, k) == (x * 2 ^ k) % Base                \* x << k, for k < LimbWidth
Right(x, k) == x \div 2 ^ k                     \* x >> k
Low(x, k) == x % 2 ^ k                          \* x & ((1 << k) - 1)
Inverted(x) == Base - 1 - x                     \* ~x

(* The bits above the width, if any, are dropped from the last limb.       *)
Normalized(width, limbs) ==
    IF width % LimbWidth = 0 THEN limbs
    ELSE [limbs EXCEPT ![NbLimbs(width) - 1] = Low(@, width % LimbWidth)]

TopWidth(x) == ((x.width - 1) % LimbWidth) + 1  \* bits in the last limb
IsNegative(x) == Right(x.cst[NbLimbs(x.width) - 1], TopWidth(x) - 1) = 1

-----------------------------------------------------------------------------
(* Sums: limb by limb with a carry.                                        *)

(* Mutant: limbs are added on their own.                                   *)
PlusUncarried(x, y) ==
    Constant(x.width, Normalized(x.width, [i \in Indexes(x.width) |-> (x.cst[i] + y.cst[i]) % Base]))

(* getExpValue adds the operands one by one; res is the sum so far.        *)
Plus(x, y) ==
    LET sum[i \in -1 .. NbLimbs(x.width) - 1] ==
            IF i = -1 THEN [limb |-> 0, carry |-> 0]
            ELSE LET limb == (x.cst[i] + y.cst[i] + sum[i - 1].carry) % Base
                 IN  [limb |-> limb, carry |-> IF limb < y.cst[i] THEN 1 ELSE 0]
    IN  Constant(x.width, Normalized(x.width, [i \in Indexes(x.width) |-> sum[i].limb]))

Minus(x, y) ==
    LET diff[i \in -1 .. NbLimbs(x.width) - 1] ==
            IF i = -1 THEN [limb |-> 0, carry |-> 1]
            ELSE LET carry == diff[i - 1].carry
                     limb == (x.cst[i] + Inverted(y.cst[i]) + carry) % Base
                 IN  [limb |-> limb,
                      carry |-> IF limb < x.cst[i] \/ (carry = 1 /\ limb = x.cst[i]) THEN 1 ELSE 0]
    IN  Constant(x.width, Normalized(x.width, [i \in Indexes(x.width) |-> diff[i].limb]))

UMinus(x) ==
    LET opposite[i \in -1 .. NbLimbs(x.width) - 1] ==
            IF i = -1 THEN [limb |-> 0, carry |-> 1]
            ELSE LET limb == (Inverted(x.cst[i]) + opposite[i - 1].carry) % Base
                 IN  [limb |-> limb, carry |-> IF limb < Inverted(x.cst[i]) THEN 1 ELSE 0]
    IN  Constant(x.width, Normalized(x.width, [i \in Indexes(x.width) |-> opposite[i].limb]))

BNot(x) == Constant(x.width, Normalized(x.width, [i \in Indexes(x.width) |-> Inverted(x.cst[i])]))

-----------------------------------------------------------------------------
(* Shifts by shval bits: by whole limbs, and by the rest of the bits.      *)

(* The limb that two neighbours make when they are shifted right.          *)
Joined(x, i, k) == Right(x.cst[i], k) | Left(x.cst[i + 1], LimbWidth - k)

LShL(x, shval) ==
    LET by == shval \div LimbWidth
        rem == shval % LimbWidth
        Shifted(i) == CASE i < by -> 0
                        [] i >= by /\ rem = 0 -> x.cst[i - by]
                        [] i = by /\ rem # 0 -> Left(x.cst[0], rem)
                        [] i > by /\ rem # 0 -> Joined(x, i - by - 1, LimbWidth - rem)
    IN  Constant(x.width, Normalized(x.width, [i \in Indexes(x.width) |-> Shifted(i)]))

LShR(x, shval) ==
    LET by == shval \div LimbWidth
        rem == shval % LimbWidth
        last == NbLimbs(x.width) - 1
        Shifted(i) == CASE i + by > last -> 0
                        [] i + by <= last /\ rem = 0 -> x.cst[i + by]
                        [] i + by = last /\ rem # 0 -> Right(x.cst[last], rem)
                        [] i + by < last /\ rem # 0 -> Joined(x, i + by, rem)
    IN  Constant(x.width, Normalized(x.width, [i \in Indexes(x.width) |-> Shifted(i)]))

(* The sign comes in from above the last limb's own bits.                  *)
AShR(x, shval) ==
    LET by == shval \div LimbWidth
        rem == shval % LimbWidth
        last == NbLimbs(x.width) - 1
        sign == IF IsNegative(x) THEN Base - 1 ELSE 0
        Above(k) == IF IsNegative(x) THEN Base - 2 ^ k ELSE 0       \* the bits from k on
        Shifted(i) == CASE i + by > last -> sign
                        [] i + by = last /\ rem = 0 -> x.cst[last] | Above(TopWidth(x))
                        [] i + by = last /\ 0 < rem /\ rem < TopWidth(x) ->
                               Right(x.cst[last], rem) | Above(TopWidth(x) - 1 - rem)
                        [] i + by = last /\ rem >= TopWidth(x) -> Right(x.cst[last], rem) | sign
                        [] i + by < last /\ rem = 0 -> x.cst[i + by]
                        [] i + by < last /\ rem # 0 -> Joined(x, i + by, rem)
    IN  Constant(x.width, Normalized(x.width, [i \in Indexes(x.width) |-> Shifted(i)]))

-----------------------------------------------------------------------------
(* Concatenation and extraction, limb by limb at any bit offset.           *)

(* ConstNodeFromExtract.                                                   *)
Extract(msb, lsb, x) ==
    LET width == msb - lsb + 1
        bit == lsb % LimbWidth
        remBits(i) == width - i * LimbWidth
        from(i) == lsb \div LimbWidth + i
        Got(i) == IF bit = 0 THEN x.cst[from(i)]
                  ELSE IF remBits(i) + bit > LimbWidth THEN Joined(x, from(i), bit)
                  ELSE Right(x.cst[from(i)], bit)
        Kept(i) == IF remBits(i) < LimbWidth THEN Low(Got(i), remBits(i)) ELSE Got(i)
    IN  Constant(width, [i \in Indexes(width) |-> Kept(i)])

(* Where the next bit of a concatenation goes: limb limbIdx, bit bitIdx.   *)
Advance(pos, bits) ==
    LET to == pos.bitIdx + bits
    IN  [limbIdx |-> pos.limbIdx + to \div LimbWidth, bitIdx |-> to % LimbWidth]

(* Mutant: what does not fit in the limb is lost.                          *)
PutUnsplit(res, pos, limb, bits) == [res EXCEPT ![pos.limbIdx] = @ | Left(limb, pos.bitIdx)]

(* The bits of a limb are put there, and what does not fit in the next.    *)
Put(res, pos, limb, bits) ==
    LET put == [res EXCEPT ![pos.limbIdx] = @ | Left(limb, pos.bitIdx)]
    IN  IF pos.bitIdx + bits <= LimbWidth THEN put
        ELSE [put EXCEPT ![pos.limbIdx + 1] = Right(limb, LimbWidth - pos.bitIdx)]

(* ConstNodeFromConcat: the lowest operand first.                          *)
Concat(x, y) ==
    LET width == x.width + y.width
        Bits(z, j) == IF j = NbLimbs(z.width) - 1 THEN TopWidth(z) ELSE LimbWidth
        Pieces(z) == [j \in 1 .. NbLimbs(z.width) |-> [limb |-> z.cst[j - 1], bits |-> Bits(z, j - 1)]]
        Step(piece, acc) == [res |-> Put(acc.res, acc.pos, piece.limb, piece.bits),
                             pos |-> Advance(acc.pos, piece.bits)]
        Start == [res |-> [i \in Indexes(width) |-> 0], pos |-> [limbIdx |-> 0, bitIdx |-> 0]]
    IN  Constant(width, FoldLeft(LAMBDA acc, piece : Step(piece, acc), Start, Pieces(x) \o Pieces(y)).res)

RotateRight(x, shval) ==
    Concat(Extract(x.width - 1, shval, x), Extract(shval - 1, 0, x))

(* ConstNodeFromZeroExt.                                                   *)
ZeroExt(bits, x) ==
    Constant(x.width + bits,
             [i \in Indexes(x.width + bits) |-> IF i < NbLimbs(x.width) THEN x.cst[i] ELSE 0])

(* SignExt: ones up to the new width in the last limb of x, and in those   *)
(* above it.                                                               *)
SignExt(bits, x) ==
    LET last == NbLimbs(x.width) - 1
        bit == x.width % LimbWidth
        width == x.width + bits
        Ones(from, n) == IF IsNegative(x) THEN 2 ^ (from + n) - 2 ^ from ELSE 0
        OnesIn(i) ==
            CASE i < last -> 0
              [] i = last /\ bit = 0 -> 0
              [] i = last /\ bit # 0 /\ bit + bits < LimbWidth -> Ones(bit, bits)
              [] i = last /\ bit # 0 /\ bit + bits >= LimbWidth -> Ones(bit, LimbWidth - bit)
              [] i > last -> LET left == width - i * LimbWidth
                             IN  Ones(0, IF left < LimbWidth THEN left ELSE LimbWidth)
    IN  Constant(width, [i \in Indexes(width) |->
                            IF i <= last THEN x.cst[i] | OnesIn(i) ELSE OnesIn(i)])
=============================================================================
