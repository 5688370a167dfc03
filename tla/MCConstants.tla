----------------------------- MODULE MCConstants -----------------------------
EXTENDS ConstantProgram

(* Operations that give the right limbs at every width.                    *)
EveryWidth ==
    {"BNOT", "UMINUS", "MINUS", "LSHL", "LSHR", "ROR", "EXTRACT", "ZEXT", "SEXT", "CONCAT"}

(* PLUS does in one or two limbs; ASHR within one, or when the top limb    *)
(* is full.                                                                *)
MCOps(width) ==
    EveryWidth
    \cup (IF width <= 2 * LimbWidth THEN {"PLUS"} ELSE {})
    \cup (IF width <= LimbWidth \/ width % LimbWidth = 0 THEN {"ASHR"} ELSE {})

(* Each of them alone, for the widths at which it is wrong.                *)
OnlyAShR(width) == {"ASHR"}
OnlyPlus(width) == {"PLUS"}
=============================================================================
