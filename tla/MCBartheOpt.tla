---------------------------- MODULE MCBartheOpt ----------------------------
EXTENDS BartheOpt

(* Up to four expressions of which one or two sets leak: up to the names   *)
(* of the expressions, two sets are two intervals.                         *)
Intervals(n) == {a .. b : a, b \in 1 .. n} \ {{}}

MCGadget ==
    UNION {[exps : {1 .. n}, leaking : {{L, M} : L, M \in Intervals(n)} \cup {{}}] : n \in 0 .. 4}
=============================================================================
