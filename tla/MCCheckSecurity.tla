-------------------------- MODULE MCCheckSecurity --------------------------
(***************************************************************************)
(* Small gadgets for TLC: every circuit of at most MaxElements elements on *)
(* the given input wires, every choice of the outputs among the last       *)
(* elements, every property and order asked for.                           *)
(***************************************************************************)
EXTENDS CheckSecurity, Expressions

CONSTANT Products   \* the products expressions are built from

MCExp == SUBSET Products

MCMaskingMaskOcc(e) == MaskingIn(Mask, e)
MCOtherMaskOcc(e) == OtherIn(Mask, e)

(* The shares of secret "a" are "a0", "a1", ..., those of "b" "b0", ...    *)
SharesByNum == [a |-> <<"a0", "a1", "a2">>, b |-> <<"b0", "b1", "b2">>]

MCOrigSecret(sh) ==
    CHOOSE s \in DOMAIN SharesByNum : \E i \in 1 .. 3 : SharesByNum[s][i] = sh

MCShareNum(sh) ==
    (CHOOSE i \in 1 .. 3 : \E s \in DOMAIN SharesByNum : SharesByNum[s][i] = sh) - 1

InputsA2 == <<Node("a0"), Node("a1"), Node("m0")>>
InputsAS == <<Node("a"), Node("a0"), Node("a1"), Node("m0")>>
InputsS == <<Node("a"), Node("m0")>>
InputsA3 == <<Node("a0"), Node("a1"), Node("a2"), Node("m0")>>
InputsAB == <<Node("a0"), Node("a1"), Node("b0"), Node("b1"), Node("m0")>>

ProductsS == {{"a"}, {"m0"}}
ProductsA2 == {{"a0"}, {"a1"}, {"m0"}}
ProductsA3 == {{"a0"}, {"a1"}, {"a2"}, {"m0"}}
ProductsAB == {{x} : x \in {"a", "a0", "a1", "b0", "b1", "m0"}}
                  \cup {{x, y} : x \in {"a0", "a1"}, y \in {"b0", "b1"}}

SmallGadgets == {InputsAS, InputsAB}
GadgetS == {InputsS}
GadgetA2 == {InputsA2}
GadgetA3 == {InputsA3}

CallsFor(secProps, orders, glitchModes, outputLists) ==
    [secProp : secProps, order : orders, withGlitches : glitchModes, outputList : outputLists]

(* Shares of one secret, a mask and the explicit secret: one output of two *)
(* shares (the other order is the same with a0 for a1 and a1 for a0), or a *)
(* single output wire.  Shares of two secrets and a mask: one output of    *)
(* two shares, of which one may be the mask itself, as in a fresh sharing. *)
SmallCalls(nodes, n) ==
    CASE n <= Len(nodes) -> {}
      [] n > Len(nodes) /\ nodes = InputsAS ->
            CallsFor({"TPS", "NI", "SNI", "RNI", "PINI"}, {1, 2}, BOOLEAN,
                     {<<<<n>>>>, <<<<n - 1, n>>>>})
      [] n > Len(nodes) /\ nodes = InputsAB ->
            CallsFor({"NI", "SNI", "RNI", "PINI"}, {1}, {FALSE},
                     {<<<<n - 1, n>>>>, <<<<Len(nodes), n>>>>})

(* One output of three shares, the first of them the mask.                 *)
Order2Calls(nodes, n) ==
    IF n <= Len(nodes) THEN {}
    ELSE CallsFor({"NI", "SNI", "RNI", "PINI", "OPINI"}, {2}, BOOLEAN,
                  {<<<<Len(nodes), n - 1, n>>>>})

(* The passes switched off: full tuples, of one probe and of two.          *)
FullTuplesCalls(nodes, n) ==
    IF n <= Len(nodes) THEN {}
    ELSE CallsFor({"NI", "SNI", "RNI", "PINI", "OPINI"}, {1, 2}, {FALSE},
                  {<<<<Len(nodes), n - 1, n>>>>})

GlitchCalls(nodes, n) ==
    IF n <= Len(nodes) THEN {} ELSE CallsFor({"NI"}, {1}, {TRUE}, {<<<<n>>>>})

(* Two probes asked for, of gates that glitches include in one another.    *)
FewGatesCalls(nodes, n) ==
    IF n <= Len(nodes) THEN {} ELSE CallsFor({"TPS"}, {2}, {TRUE}, {<<<<n>>>>})

RedundantCalls(nodes, n) ==
    IF n <= Len(nodes) THEN {} ELSE CallsFor({"NI"}, {2}, {FALSE}, {<<<<n>>>>})
=============================================================================
