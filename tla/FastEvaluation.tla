--------------------------- MODULE FastEvaluation ---------------------------
(***************************************************************************)
(* isTPSWithExev, isNIWithExev, ... (src/src/concrev.cpp) as they are      *)
(* computed, with compiled expressions: the symbols that can be left out   *)
(* of the search for effective shares are, and TPS compares with the       *)
(* distribution for secrets that are 0 only.  ConcreteEvaluation says what *)
(* they mean.  The tuple is a sequence of expressions.                     *)
(***************************************************************************)
EXTENDS FastCircuit, SymbolTable

MaskRegs(fc) == SetToSeq(VarRegs(fc, Mask))

Occurring(s, V) == V \cap UNION {SymbolsOf(s[i]) : i \in DOMAIN s}

Distribs(s) ==
    LET fc == Compile(s)
    IN  {FastGetDistrib(fc, K, MaskRegs(fc)) : K \in SUBSET VarRegs(fc, Secret)}

(* getDistribWithExev, without public symbols: every distribution is the   *)
(* one for secrets that are 0; rud, and uniform.                           *)
IsTPSWithExev(s) == Cardinality(Distribs(s)) = 1

Rud(s) == IsTPSWithExev(s) /\ \A distrib \in Distribs(s) : Cardinality(Range(distrib)) = 1

(* The share s changes the distribution for some values of the others.     *)
ShareIsEffective(fc, P, sharesWithFixedVal, sReg) ==
    \E F \in SUBSET sharesWithFixedVal :
        FastGetDistrib(fc, P \cup F, MaskRegs(fc)) # FastGetDistrib(fc, P \cup F \cup {sReg}, MaskRegs(fc))

GetEffectiveShares(s, publicVars, shareVars) ==
    LET fc == Compile(s)
    IN  {sh \in shareVars :
            \E P \in SUBSET VarRegs(fc, publicVars) :
                ShareIsEffective(fc, P, VarRegs(fc, shareVars \ {sh}), fc.node2reg[Symb(sh)])}

Shares(s, secret) == {sh \in Occurring(s, Share) : OrigSecret(sh) = secret}

(* The shares of the secrets of which too many occur are looked at; those  *)
(* of the others are public.  tooMany: the sets of shares that are.        *)
EffectiveOf(s, tooMany) ==
    LET shareVars == {sh \in Occurring(s, Share) : Shares(s, OrigSecret(sh)) \in tooMany}
    IN  GetEffectiveShares(s, Occurring(s, Share) \ shareVars, shareVars)

NoSecretHas(s, tooMany) ==
    \A secret \in {OrigSecret(sh) : sh \in Occurring(s, Share)} :
        {sh \in EffectiveOf(s, tooMany) : OrigSecret(sh) = secret} \notin tooMany

IsNIWithExev(s, maxShareOcc) ==
    NoSecretHas(s, {S \in SUBSET Share : Cardinality(S) > maxShareOcc})

IsRNIWithExev(s, diff) ==
    NoSecretHas(s, {S \in SUBSET Share : Cardinality(S) + diff >= NbShares})

EffectiveIndexes(s) ==
    {ShareNum(sh) : sh \in GetEffectiveShares(s, {}, Occurring(s, Share))}

IsPINIWithExev(s, maxShareOcc, outputIndexes) ==
    Cardinality(EffectiveIndexes(s) \ outputIndexes) <= maxShareOcc
=============================================================================
