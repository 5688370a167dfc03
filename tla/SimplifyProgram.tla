-------------------------- MODULE SimplifyProgram --------------------------
(***************************************************************************)
(* A program that builds an expression operator by operator, and calls     *)
(* simplify on it whenever it wants to.                                    *)
(***************************************************************************)
EXTENDS FastCircuit

CONSTANTS
    Symbol,     \* the symbols of the programs, one bit wide
    Programs    \* bound: for each kind of program, the binary operators it
                \* uses, the expressions it combines with them, and how many
                \* operators it applies at most to build one expression

ASSUME ProgramsAssumption == \A p \in Programs : p.maxOps \in Nat

VARIABLES
    program,    \* the kind of program that is running
    exp,        \* the node the program holds
    meaning,    \* history: the assignments that set what the program wrote
    ops         \* operators applied so far

vars == <<program, exp, meaning, ops>>

Meaning(e) == {T \in SUBSET Symbol : Eval(e, T)}

Init ==
    /\ program \in Programs
    /\ exp \in program.operands
    /\ meaning = Meaning(exp)
    /\ ops = 0

Combine(op, e) ==
    /\ ops < program.maxOps
    /\ ops' = ops + 1
    /\ exp' = NodeOf(op, <<exp, e>>)
    /\ meaning' = CASE op = "BXOR" -> (meaning \ Meaning(e)) \cup (Meaning(e) \ meaning)
                    [] op = "BAND" -> meaning \cap Meaning(e)
                    [] op = "BOR"  -> meaning \cup Meaning(e)
    /\ UNCHANGED program

Negate ==
    /\ ops < program.maxOps
    /\ ops' = ops + 1
    /\ exp' = Not(exp)
    /\ meaning' = (SUBSET Symbol) \ meaning
    /\ UNCHANGED program

SimplifyExp ==
    /\ exp' \in Simplify(exp)
    /\ exp' # exp
    /\ UNCHANGED <<program, meaning, ops>>

Next ==
    \/ \E op \in program.ops, e \in program.operands : Combine(op, e)
    \/ Negate
    \/ SimplifyExp

Spec == Init /\ [][Next]_vars

(* simplify never changes what an expression means: whatever the program   *)
(* built, in however many steps and simplifying in between, and in         *)
(* whatever order the operands come, the node has the value of what was    *)
(* written.  The verdicts of the tool are about the simplified nodes only. *)
ValuePreserved == Meaning(exp) = meaning

(* compareExpsWithExev tells the expression from each other one exactly    *)
(* when they mean something else, whichever symbols occur in one of them   *)
(* only.  Constants are out of question here: it calls any two of them     *)
(* equal, having no symbol to put in res.                                  *)
ComparisonExact ==
    \A e \in program.operands :
        SymbolsOf(exp) \cup SymbolsOf(e) # {}
            => (CompareExpsWithExev(exp, e) <=> Meaning(exp) = Meaning(e))
=============================================================================
