------------------------------- MODULE MCValues -------------------------------
(***************************************************************************)
(* A program builds expressions of one-bit symbols or computes with        *)
(* constants: one kind of program in a run.                                *)
(***************************************************************************)
EXTENDS MCSimplify, MCConstants

VARIABLE ofSymbols      \* which kind

allVars == <<ofSymbols, vars, constantVars>>

NoExpression ==
    /\ program = CHOOSE p \in Programs : TRUE
    /\ exp = CHOOSE e \in program.operands : TRUE
    /\ meaning = Meaning(exp)
    /\ ops = 0

NoConstant == number = 0 /\ c = Of(number, 1)

ValuesInit ==
    \/ ofSymbols = TRUE /\ Init /\ NoConstant
    \/ ofSymbols = FALSE /\ ConstantInit /\ NoExpression

ValuesNext ==
    \/ ofSymbols /\ Next /\ UNCHANGED <<ofSymbols, constantVars>>
    \/ ~ofSymbols /\ ConstantNext /\ UNCHANGED <<ofSymbols, vars>>

ValuesSpec == ValuesInit /\ [][ValuesNext]_allVars
=============================================================================
