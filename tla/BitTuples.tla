------------------------------ MODULE BitTuples ------------------------------
(***************************************************************************)
(* The tuples of one-bit expressions that checkProperty works on, with     *)
(* simplify (Simplify), the replaced graph, the occurrences of masks and   *)
(* the compiled enumeration (FastEvaluation) as they are computed.         *)
(***************************************************************************)
EXTENDS CheckProperty, MaskOccurrences, Simplify

CONSTANT LogLanes           \* bound: see FastCircuit

EvalNode(e, K, M) == Eval(e, K \cup M)

(* getReplacedGraphRec.                                                    *)
RECURSIVE ReplacedGraph(_, _, _)
ReplacedGraph(e, m, ctr) ==
    ReplacedOf(e, m, ctr, [c \in Operands(e) |-> ReplacedGraph(c, m, ctr)])

(* The compiled enumeration, which checkProperty calls.                    *)
Fast == INSTANCE FastEvaluation

(* What the compiled enumeration says of the tuple of the loop.            *)
Enumerated ==
    CASE query.secProp = "TPS"  -> Fast!IsTPSWithExev(roots)
      [] query.secProp = "NI"   -> Fast!IsNIWithExev(roots, query.maxShareOcc)
      [] query.secProp = "RNI"  -> Fast!IsRNIWithExev(roots, query.diff)
      [] query.secProp \in {"PINI", "OPINI"} ->
           Fast!IsPINIWithExev(roots, query.maxShareOcc, query.outputIndexes)

(* The values of the tuple are equally likely, whatever the inputs are.    *)
Uniform(s) ==
    \A K \in SUBSET InputsIn(ToSet(s)) :
        LET distribution == Distribution(ToSet(s), K)
        IN  Cardinality(DOMAIN distribution) = 2 ^ Len(s) /\ Cardinality(Range(distribution)) = 1

(* The enumeration is right wherever the loop may have got to: registers   *)
(* shared by equal nodes, lanes that no value of the masks uses, masks     *)
(* that fill several words, shares that are not looked at because too few  *)
(* of them occur, change nothing of what a tuple reveals, nor of whether   *)
(* it is uniform.                                                          *)
EnumerationExact ==
    pc = "loop" =>
        /\ Enumerated <=> HoldsOf(ToSet(roots))
        /\ query.secProp = "OPINI" => Fast!EffectiveIndexes(roots) = EffectiveIndexes(ToSet(roots))
        /\ query.secProp = "TPS" => (Fast!Rud(roots) <=> Uniform(roots))
=============================================================================
