---------------------------- MODULE SymbolTable ----------------------------
(***************************************************************************)
(* The symbols of a program (src/src/utils_private.cpp): secrets, shares   *)
(* of secrets, and random masks.  There are no public inputs.              *)
(***************************************************************************)
EXTENDS Integers, FiniteSets

CONSTANTS
    Secret,             \* the secret variables, symbols of type 'S'
    Share,              \* the shares of secrets, symbols of type 'A'
    Mask,               \* the random masks, symbols of type 'M'
    OrigSecret(_),      \* the secret a share belongs to
    ShareNum(_),        \* the index of a share among those of its secret
    NbShares,           \* how many shares each secret has
    Symbols(_)          \* the symbols that occur in an expression

ASSUME SymbolsAssumption == IsFiniteSet(Share) /\ IsFiniteSet(Mask)
ASSUME NbSharesAssumption == NbShares \in Nat
ASSUME InputsAreNotMasks == (Secret \cup Share) \cap Mask = {}

(* A share is known by its secret and its index; getRealShares numbers the *)
(* shares of a secret from 0 on.                                           *)
ASSUME ShareNumAssumption ==
    /\ \A sh \in Share : ShareNum(sh) \in 0 .. NbShares - 1
    /\ \A sh, sh2 \in Share :
          OrigSecret(sh) = OrigSecret(sh2) /\ ShareNum(sh) = ShareNum(sh2) => sh = sh2
=============================================================================
