---------------------------- MODULE MCNodeStore ----------------------------
EXTENDS NodeStore

(* A symbol w of several bits, of which one is shown: w0 and its           *)
(* extraction x0; the concatenation c of the bits; the complements nw and  *)
(* nc of the symbol and of the concatenation.                              *)
MCBitOf(s, i) == "w0"
MCExtractOf(s, i) == "x0"
MCConcatOf(s) == "c"
MCOperands(e) ==
    CASE e \in {"x0", "nw"} -> <<"w">>
      [] e = "c" -> <<"w0">>
      [] e = "nc" -> <<"c">>
MCWideIn(e) == IF e \in {"w", "x0", "nw"} THEN {"w"} ELSE {}

Classes == {{"w", "c"}, {"x0", "w0"}, {"nw", "nc"}}
MCEqual(e, f) == e = f \/ {e, f} \in Classes

AllCalls == [bitDecompose : BOOLEAN, noFalsePositive : BOOLEAN]
SafeCallsOnly == {c \in AllCalls : c.noFalsePositive => c.bitDecompose}
=============================================================================
