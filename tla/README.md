# Verification of VerifMSI++

TLA+ models of VerifMSI++ (the C++ library in `src/`), the configurations that
model-check them with TLC, and proofs checked by TLAPS. Paths such as
`hw.cpp:842` are under `src/src/`, `hw.hpp` and the like under `src/include/`;
`README.md:307` is the program's own README.

## 1. The system

VerifMSI++ decides whether a masked implementation leaks. A program declares
symbols (secrets, shares of secrets, random masks), builds expressions or a
circuit from them, and asks whether a tuple of expressions, or every tuple of
wires of the circuit, has a security property at an order:

| property | what may be known of the observed tuple |
| --- | --- |
| TPS | its distribution does not depend on the secrets |
| NI | it depends on at most *order* shares of each secret |
| SNI | the same, where probes on outputs allow no share |
| RNI | the shares missing of each secret are more than the probes missing to *order* |
| PINI | it depends on the share indexes of the probed outputs and one more per internal probe |
| OPINI | the same, where every index used adds the outputs of that index to the tuple |

The library runs in a single thread and persists nothing. What makes it hard
is not concurrency; it is that a verdict is the product of many rewriting and
pruning steps, each of which must be harmless, in an order that hashes and
addresses decide: sets of nodes are ordered by hash (`node.cpp:260`), sets of
gates by address (`hw.cpp:842`), ties between masks by address (`tps.cpp:397`).

### Components

| component | source | state | operations | called by |
| --- | --- | --- | --- | --- |
| nodes | `node.cpp`, `node.hpp` | the cache of nodes, the table of symbols, what each node remembers (simplification, bits, mask occurrences), temporary nodes | constructors, operators on constants, `setModeTempNodes`, `cleanup` | everything |
| simplification | `simplify.cpp` | the simplified form kept on a node | `simplify`, `factorize`, `getBitDecomposition` | gates, `tps.cpp`, programs |
| circuits | `hw.cpp`, `hw.hpp` | the elements allocated | `inputGate`, `xorGate`, ..., `Register` | programs |
| gadget verification | `hw.cpp:635-1290` | gates to verify, leaking tuples | `checkSecurity` | programs |
| the other enumeration | `hw.cpp:427-629` | the sets of two recursions | `bartheOpt` | `checkSecurity` with `BARTHE_OPT` |
| tuple verification | `tps.cpp` | the rewritten tuple, masks taken | `tps`, `ni`, `rni`, `pini` and their `NoFalsePositive` versions | `checkSecurity`, `check_leakage.cpp` |
| output probing isolation | `tps.cpp:589-634` | the caller's `outputIndexes`, the allowance left | `opini` | the same |
| word or bit analysis | `check_leakage.cpp` | the mark `wordAnalysisHasFailedOnSubExp` | `checkOPINIVal`, ... | programs |
| exhaustive evaluation | `concrev.cpp` | compiled instructions and registers | `isTPSWithExev`, ..., `compareExpsWithExev`, `getExpValue` | `tps.cpp`, programs |
| symbols and utilities | `utils.cpp`, `utils_private.cpp` | the tables of symbols and shares | `getRealShares`, `verifMSICleanup` | everything |

`PROJECT.json` lists them all, with those that are not modelled.

### What is hard, and what makes each component correct

* **Gadget verification.** Five passes remove probes, each for its own reason
  and for its own list of properties, from what the former left. The tuples of
  the rest are enumerated at sizes and allowances meant to make up for what
  was removed. Correct means: no leak is reported exactly when *every* set of
  at most order probes has the property.
* **bartheOpt.** Two mutually recursive functions share their sets by
  reference: a set that has the property is extended, and everything inside it
  counts as settled. Correct means: no tuple is skipped that leaks, the answer
  is that of the plain enumeration of full tuples, and the search ends.
* **Tuple verification.** The loop exchanges a mask with a node it hides until
  few enough secrets occur. Correct means: the joint distribution of the tuple
  never changes, the loop ends, and the verdict agrees with the enumeration
  (a yes always, a no with `NoFalsePositive`).
* **Exhaustive evaluation.** Expressions are compiled to instructions and
  evaluated for many values of the masks at once; shares that cannot matter
  are not looked at. Correct means: what it says is what the distributions are.
* **Output probing isolation.** Rounds of analysis that spend an allowance and
  grow the caller's set. Correct means: a yes leaves a set that suffices for
  itself, within the allowance; the loop ends.
* **Word or bit analysis.** Several calls of `opini` share one `outputIndexes`
  and one mark per node. Correct means: the answer to a question is the same
  whatever was asked before.
* **Nodes.** Nodes built during a verification may be deleted at its end,
  while nodes remember one another. Correct means: no pointer outlives the
  node it points to, every node is deleted once, and an expression has one
  lasting node, since nodes are compared by address.
* **Simplification.** Rules rewrite operands in place while they are compared
  with each other. Correct means: the value never changes.
* **Constants.** Limbs of 64 bits with widths that straddle them. Correct
  means: the limbs hold the number, at every width.

The list `hazards` of `PROJECT.json` names the places, with the properties
that are about them.

## 2. The modules

| module | models | variables | actions |
| --- | --- | --- | --- |
| `SymbolTable` | secrets, shares with their secret and index, masks (`utils_private.cpp`) | | |
| `HWElements` | circuits (`hw.cpp:29-419`) | `hwElements`: what each element computes and lets a probe observe | `BuildInput`, `BuildGate` |
| `ConcreteEvaluation` | what the `is*WithExev` mean (`concrev.cpp:708-1360`) | | |
| `CheckSecurity` | `checkSecurity` (`hw.cpp:635-1290`), `verifMSICleanup` | `pc`, `call`, `reachable`, `gatesToVerify`, `pending`, `toRemove`, `leakingHwe` | `CheckSecurity`, `VisitIncludedProbe`, `EraseIncludedProbes`, `RemoveInputSharesProbes`, `RemoveAiBiProbes`, `RemoveAiBjProbes`, `RemoveRedundantProbes`, `VerifyTuples`, `Cleanup` |
| `TupleVerdict` | what is promised of any search for a leaking tuple | `leaks`, `exact`, `verdict` | `Secure`, `Leak` |
| `BartheOpt` | `bartheOpt`, `check`, `extend`, `choose` (`hw.cpp:427-629`) | `reducedGatesExp`, `leaking`, `order`, `withGlitches`, `exact`; the calls `pending`, the one at work: `current`, `yc`, `rest`; `pc`, `verdict` | `Abort`, `TooFew`, `Check`, `Extend`, `Split`, `Return` |
| `Expressions` | the normal form of small one-bit expressions | | |
| `Nodes` | the nodes of one-bit expressions (`node.hpp`) | | |
| `Simplify` | `simplifyCore`, `factorize` for BXOR, BAND, BOR, BNOT | | `Simplify(e)` is the set of the nodes that simplify may return |
| `SimplifyProgram` | a program that builds and simplifies | `program`, `exp`, `meaning`, `ops` | `Combine`, `Negate`, `SimplifyExp` |
| `FastCircuit` | the compilation of expressions and their evaluation on registers (`concrev.cpp:349-1034`) | | |
| `FastEvaluation` | `is*WithExev`, `compareExpsWithExev` as they are computed (`concrev.cpp:708-1413`) | | |
| `WordProgram` | a program that adds and multiplies words and asks `getDistribWithExev` | `exp`, `ops` | `Combine`, `TakeBit` |
| `MaskChoice` | what a node makes of the occurrences of masks its operands remember (`node.cpp:288-500`), the choice of a mask and of a node (`tps.cpp:235-412`) | | |
| `MaskOccurrences` | these occurrences, the symbols and the nodes below a node, from the leaves up | | |
| `CheckProperty` | `checkPropertyWrapper`, `checkProperty` (`tps.cpp:44-586`) on bits | `roots`, `query`, `masksTaken`, `pc`, `verdict`, `additionalInputIndexes` | `SimplifyTuple`, `FewEnoughOccurrences`, `RootMasked`, `Replace`, `NoMaskToTake`, `NoMaskToTakeOPINI` |
| `BitTuples` | `checkProperty` with `simplify`, `getReplacedGraph` and the compiled enumeration as they are computed | | |
| `SumProperty` | the same loop for TPS on sums and differences of words | `sumRoots`, `exact`, `taken`, `answer` | `SumsHide`, `ExchangeSums`, `NoExchangeLeft`, `SumReturned` |
| `WordTuples` | `SumProperty` with the values, `simplify` on sums and `getReplacedGraph` as they are computed | | |
| `Opini` | `opini_internal` (`tps.cpp:589-617`) | `outputIndexes`, `maxShareOcc`, `additionalInputIndexes`, `res` | `AnalyseMasked`, `AnalyseOccurring`, `Extend` |
| `CheckLeakage` | `checkOPINIVal`, `checkOPINIValBit`, `checkOPINITrans` | `built`, `wordAnalysisHasFailed`, the call and its pending analyses | `Build`, `Ask`, `Resume`, `OpiniStep` |
| `NodeStore` | the nodes in memory (`node.cpp:80-560`), what `simplify` and `getBitDecomposition` remember on them (`simplify.cpp:482-745`) | `memoryStrategy`, `node`, `cache`, `symb2node`, `opNodes`, `toDelete`, `modeTempNode`, `call`, `root` | `DeclareSymbol`, `Build`, `ExtractBit`, `Simplify`, `DecomposeBit`, `DecomposeSymbol`, `StartVerification`, `EndVerification`, `Cleanup` |
| `Constants` | limb arithmetic (`node.cpp:840-1770`, `concrev.cpp:226-290`) | | |
| `ConstantProgram` | a program on constants | `c`, `number` | `Arithmetic`, `Shift`, `ShiftAround`, `Cut`, `Widen` |

A module `MCx` gives module `x` its small instance; `MCOptions` verifies the
gadgets of `MCCheckSecurity` with two builds of the library, `MCValues` puts the
programs on symbols and the programs on constants in one run, `MCTuples` the
tuples of bits and the tuples of words. A module `x_proofs` holds the theorems
about `x`, `CheckLeakage_proofs` those about `Opini` as well.
`Observation_proofs` is about `ConcreteEvaluation`, for both `CheckSecurity`
and `CheckProperty`; `MaskChoice_proofs` serves both `CheckProperty` and
`SumProperty`.

How they are composed:

* `CheckSecurity` EXTENDS `HWElements` and `ConcreteEvaluation`: each tuple is
  decided as with `NoFalsePositive`, by the enumeration of all values. For
  OPINI that is half of it: `opini_internal` takes indexes that only occur when
  they fit in the allowance (`tps.cpp:323`), so that a tuple that `IsOPINI`
  allows may be refused all the same (`MayFail`). Nothing is said of a no for
  OPINI.
  Expressions are abstract there (`Exp`, `OpNode`, `Symbols`, `Value`, with
  named assumptions); `MCCheckSecurity` gives them the normal form of
  `Expressions`.
* `BartheOpt` implements `TupleVerdict` under the refinement mapping `leaks <-
  \E T \in Tuples : ~Holds(T)` (`ImplementsTupleVerdict`): the plain
  enumeration of full tuples makes the same promise. How a set comes to leak
  is a constant there, the family of the least leaking sets.
* `CheckProperty` EXTENDS `MaskChoice` and `ConcreteEvaluation`. What is
  computed along the tree of an expression is a constant there, with an
  assumption that says what it makes of the operands: `Value` and `ValueOf`,
  `Occ` and `OccOf`, `Replaced` and `ReplacedOf`, `Height`, `Symbols`; `Node`
  and `Tuple` are the expressions and tuples there are. This is what makes
  proofs about it possible. The loop falls back on the enumeration as
  `ConcreteEvaluation` defines it.
* `BitTuples` gives these constants the recursive definitions of `Simplify`,
  `MaskOccurrences` and `ReplacedGraph`, and `MCCheckProperty` the tuples that
  the loop can come to; TLC evaluates every assumption on them. The compiled
  enumeration, which the code calls, is an INSTANCE of `FastEvaluation`, and
  `EnumerationExact` says that in every state of the loop it answers what the
  definition does.
* `SumProperty` EXTENDS `MaskChoice` as well, with its own nodes: the choice
  of mask and node is the same code for bits and for sums. It is parameterised
  in the same way (`WordValue` and `WordValueOf`, `ReplacedSum` and
  `ReplacedSumOf`), and `WordTuples` gives these constants the recursive
  definitions.
* `SimplifyProgram` EXTENDS `FastEvaluation` to compare what is built with
  what `simplify` made of it, as `compareExpsWithExev` does.
* `Opini` knows the analysis of a round by its contract, the operators
  `Needed` and `Occurring`. `CheckProperty` with `secProp = "OPINI"` is that
  analysis: it implements the actions `AnalyseMasked` and `AnalyseOccurring` of
  `Opini` under the refinement mapping of `Round` (the tuple asked about is the
  probes, a call that has not returned is a round still to be analysed), with
  `Occurring` any set of indexes that holds those needed (`ImplementsRound`).
* `CheckLeakage` EXTENDS `Opini` and takes its steps as `OpiniStep`; a direct
  call, as from `checkSecurity`, is one of its initial states. A function that
  has no analysis left to make answers and leaves its variables as they are.

Operators named in a comment "Mutant" are faulty versions of the definition
that follows them; nothing uses them, they stand for bugs each property is
there to find.

### What is abstracted

* Expressions are one bit wide in `HWElements`, `Simplify` and
  `CheckProperty`. Words are sums and differences in `SumProperty`; sums,
  products, extractions and concatenations of bits in `FastCircuit` and
  `WordProgram`. Words have `WordWidth` bits, a register has `2^LogLanes`
  lanes instead of 64, a limb `LimbWidth` bits instead of 64.
* `OpNode` is a set of operands: hash consing makes equal nodes identical, and
  the order of operands is that of their hashes. In `Simplify` every node hands
  over its operands in any order, those that a rule has built included (a
  product and what is left of its factors, the operands of De Morgan's rule,
  an operand merged into its node). The order is chosen at each node anew,
  where hashes order two nodes alike everywhere: the results of the code are
  among those of `Simplify`. Under BXOR, the order is chosen when factors or
  selections depend on it.
  Repeated operands of BXOR are cancelled at construction, those of BAND and
  BOR merged (`Simplify` says where the code would keep them for a while).
* When the replaced operands of a BXOR are equal they cancel in `Rebuilt`; in
  the code the node keeps both until `simplify`, which follows at once.
* Operands of a two-input gate are given by increasing number, and input gates
  come first: permuted calls build the same circuit.
* `removeIncludedProbes` meets the gates in any order (`VisitIncludedProbe`,
  one gate at a time); the other passes judge each gate by itself and are one
  step each. `removeRedundantProbes` goes by increasing number.
* In `BartheOpt`, the calls one frame makes in turn wait in a set and are taken
  in any order; the code's order, depth first, is one of them.
* In `SumProperty`, constants are left out of sums: the code removes them
  first (`VERIF_REMOVE_CST_IN_ADD`).
* In `NodeStore`, the expression of a node is what its hash is computed from;
  what `simplify` returns is any node of equal value; of two free addresses
  the lower is used first.
* In `CheckLeakage`, an expression is a sequence of bits, and what matters of
  a bit is the indexes it needs.

## 3. The runs

All runs are bounded by the constants of their `.cfg`. `CHECK_DEADLOCK FALSE`
appears where the system really stops: `cs_small` (the program exits on a
property that does not go with its symbols), `va_programs` and `sp_or_v` (the
program is at its last operator), `cl_calls` (a program that calls
`checkSecurity` is done when it returns), `ba_check` (the search has ended).

### Runs that pass

| run | instance | checks |
| --- | --- | --- |
| `cs_small` | inputs `a`, `a0`, `a1`, `m0` or `a0`, `a1`, `b0`, `b1`, `m0`; xor gates, and gates, registers, up to seven elements; orders 1, 2; both glitch modes; TPS, NI, SNI, RNI, PINI; 1.1 million states | `TypeOK`, `IncludedProbesCovered`, `VerdictExact`, `VerdictExactPINI`, `VerdictExactTPS`, `VerdictExactWithGlitches` |
| `cs_order2` | three shares, an output of three shares of which one is the mask, NI, SNI, RNI, PINI, OPINI; the default options at order 2 in both glitch modes, or single input probes kept at orders 1 and 2 without glitches; 1.3 million states | `DefaultExact`, `DefaultExactPINI`, `DefaultExactWithGlitches`, `FullTuplesExact` |
| `ba_check` | up to four expressions, any one or two leaking intervals of them, orders 1 to 3, exact and suspicious analyses | `TypeOK`, `NoneForgotten`, `ImplementsTupleVerdict`, `Terminates` |
| `cp_tuples` | sums of two or three terms (symbols, products, a product of a sum, a negation), alone or with a second probe, for five properties; one to three sums of two or three symbols, negated or not, as words of two bits; 31 thousand states | `TypeOK`, `PositiveIsRight`, `NegativeIsRight`, `LoopEnds`, `DistributionKept`, `AdditionalIndexesSuffice`, `ImplementsRound`, `EnumerationExact`, `SumVerdictExact`, `HarmlessExchangeKeepsDistribution` |
| `cl_calls` | three indexes, allowances up to 3, tuples of probes whose needs chain; bits that need one or two indexes, a word whose analysis fails in its second round, a word built of it whose bits need an index each, any sequence of calls | `TypeOK`, `WrapperTypeOK`, `PositiveIsRight`, `VerdictExact`, `YesIsRight`, `NoIsRight`, `CallsReturn` |
| `va_programs` | three symbols, programs of three BXOR and BAND over sums, of four BXOR, BAND and BOR over literals, of three BXOR or three BOR over products, of three BAND over disjunctions; every constant of 1 to 8 bits in limbs of 3; 113 thousand states | `ValuePreserved`, `ComparisonExact`, `ValueKept` |
| `ns_store` | a word of several bits, its bit, their concatenation and the complements of both; six nodes in memory; both memory strategies | `TypeOK`, `NoDangling`, `OneNodePerExpression` |

**Verdicts of `checkSecurity`.** Each `VerdictExact...` says
`leakingHwe = {} <=> Secure`, where `Secure` is about every set of at most
order probes among *all* reachable gates, and the left side is what remains
after the passes and the choice of tuples. Three elements beside the inputs
are enough for chains of inclusion among observations, for output wires that
are also inputs of another gate, for a register between two gates, and for
pairs of probes that together cancel the mask. The second input list has
products of shares of two secrets, which the passes on `ai.bi` and `ai.bj`
are about. Output shares are listed in one order: the other is the same up to
the names of the two shares. `Cleanup` lets a program verify one gadget after
the other.

The antecedents name where the verdict is exact:

* RNI is asked below `NbShares`: at that order and above no probe is missing.
* PINI is asked below the number of output shares, TPS of a circuit with at
  least as many gates as the order: only sets of exactly that size are
  enumerated, so a smaller one has to have a larger one around it.
* With glitches, nothing may have cancelled in the expression of a gate
  (`NothingCancelled`): the passes judge a gate by its expression, and a probe
  observes what its operands carry. Section 5 shows what happens otherwise.
* With glitches, PINI and OPINI are asked below the number of output shares,
  and RNI below `NbShares`, as without.
* `VerdictExactFullTuples` is about the calls for which full tuples alone are
  enumerated and no probe is removed but by `removeIncludedProbes`: NI, SNI
  and RNI below `NbShares` when every share is an input, PINI and OPINI below
  the number of output shares. One of the two builds of `MCOptions` keeps
  single input probes, so that the first four are asked that way.
* For OPINI the left side is `leakingHwe = {} => Secure` alone.

`cs_order2` checks the same of the build that each is about: `DefaultExact`,
`DefaultExactPINI` and `DefaultExactWithGlitches` are `VerdictExact...` with the
default options, `FullTuplesExact` is `VerdictExactFullTuples` with either.

Two of the antecedents leave out what goes wrong there: fewer gates than the
order, and expressions that cancel (`cs_ni_glitch_v`). Section 5 is about both.

**bartheOpt.** `NoneForgotten` says that every leaking tuple is still to be
settled by an open call until a leak is found; `ImplementsTupleVerdict` that
the answer is the promised one. Four expressions and order 3 give sets that
are extended by several elements, tuples that take 0, 1, 2 or 3 of the
extended set, and sub-searches with too few expressions. `choose` may take any
expressions and any analysis may be suspicious without reason (`exact` false),
as a symbolic one is. `Terminates` needs that the sub-searches get smaller.

**Tuples.** Two or three masks, a secret or two shares, and three terms give
masks that hide a node at several heights, masks that occur again elsewhere,
sub-expressions shared by two probes, and tuples that no replacement settles
so that the enumeration decides. Every choice among equally good masks and
nodes is explored. `LoopEnds` bounds the turns by the number of masks; with
the deadlock check (only a call that has returned may stay as it is) it says
that every call returns. `Tuple` holds the tuples of up to one turn more than
`LoopEnds` allows, so that a longer loop would be seen. With four lanes, tuples without a mask, with one,
with two (a full register) and with three (two words) occur, and
`EnumerationExact` compares the compiled enumeration with the definition in
every state the loop goes through.

On sums of words the exchange is right only when it is its own way back or the
mask occurs nowhere else: `HarmlessExchangeKeepsDistribution` and
`SumVerdictExact` are about those, `ws_sum_v` about the others. Two bits are
the least width at which a word differs from its opposite; a third symbol
leaves a mask in a sum that another mask already hides, and the mask that
stands alone beside two sums is the other occurrence that an exchange must not
forget. `SumTuple` is what the loop comes to from these, computed first, so
that its bound never stops the loop.

**OPINI and calls in sequence.** `cl_calls` has tuples of probes with indexes
that come to be needed with a given set, or a given number, of outputs, found
exactly by the analysis; and every monotone way two indexes can need each
other, where the analysis finds any superset. Chains of three rounds occur.
The functions of `check_leakage.cpp` are called for bits, for a word whose
analysis fails in its second round, having added an index, and for a word that
is built of it and needs an index for each of its bits, any number of times,
with the mark set by failed calls and handed on. `YesIsRight` says what a yes
is worth then: the indexes left simulate every tuple asked about, but each call
of `opini` may have added the whole allowance. That a yes means the property
itself, `YesVerifiesProperty`, is false of the same words (section 5). `NoIsRight` is about exact analyses.

**Values.** Programs over sums and literals lead to the rules for known parts
of sums, implied operands, complements, absorption and De Morgan. Programs over
products bring up to four products under one BXOR or BOR, with common factors
of two or three operands and with factors that select (`~a & b` beside
`a & c`), which leads to factorization and to the rule for selections;
programs over disjunctions do the same for BAND. TLC's statistics of coverage
show every rule of `Simplify` evaluated. `MCSimplify` names the operands with
which rules go wrong (`ThreeXor` to `AbsorbedTwice`, section 5); the passing run
leaves these out: programs that mix BXOR, BOR and BAND over products come to
them in two or three operators. A program on constants of one
step from every value covers all such programs, because every value of a width
is an initial state. Limbs of 3 bits and widths to 8 have one, two and three
limbs, full and partial top limbs, and pieces that end at a limb or lie across
two. PLUS is used up to two limbs and ASHR within one limb or with a full top
limb (`MCOps`): beyond, they are wrong (section 5).

**Nodes.** Six nodes hold each of the expressions once and one of them twice,
a temporary one beside a lasting one; freed addresses are used again at once,
so that a pointer left behind would name another node. Programs build,
simplify, decompose and verify for ever (`Cleanup` starts again).
`SafeCallsOnly` leaves out verifications that evaluate concretely what was not
decomposed before: section 5 shows what they do.

**Fairness.** `Terminates` assumes weak fairness of the next step of
`BartheOpt`, `CallsReturn` weak fairness of the steps inside a call: the code
is sequential and nothing suspends it. A program need not make another call.
Nothing else is assumed to be fair.

### Runs that end in a violation

The five runs whose name ends in `_v`: section 5.

## 4. The proofs

TLC checks the instances above; the theorems hold for every value of the
constants.

### `Observation_proofs`

Lemmas about `ConcreteEvaluation` that `CheckSecurity_proofs` and
`CheckProperty_proofs` rest on, for any
expressions whose value depends on their symbols only. The main one is
`MoreRevealsMore`: a symbol that changes what a set of expressions shows
changes what any larger set shows. Two distributions that agree on the larger
set differ by a permutation of the values of the masks, constructed from equal
cardinalities (`PermutationOfMasks`), and the same permutation serves the
smaller set.

### `CheckSecurity_proofs`

| theorem | states | for |
| --- | --- | --- |
| `TypeCorrect` | `Spec => []TypeOK` | any options |
| `IncludedProbesSafe` | `Spec => []IncludedProbesCovered` | any options |
| `VerdictCorrect` | `Spec => []VerdictExact` | `REM_SINGLE_INPUT_PROBES`, no `REM_REDUNDANT_PROBES`, as by default |
| `VerdictCorrectPINI` | `Spec => []VerdictExactPINI` | no `REM_REDUNDANT_PROBES` |
| `VerdictCorrectTPS` | `Spec => []VerdictExactTPS` | any options |
| `VerdictCorrectFullTuples` | `Spec => []VerdictExactFullTuples` | any options; for OPINI a yes only |
| `VerdictCorrectWithGlitches` | `Spec => []VerdictExactWithGlitches` | the default options; for OPINI a yes only |

for every set of expressions and operators, any circuit, any number of shares
and masks, and any order. The options excluded are where the verdict is known
to be wrong (section 5, `hw.cpp:1017`) or where single input probes are kept
and partial tuples are not enumerated.

Assumed of the expression algebra: its value depends on the symbols that occur
in it only (`SupportAssumption`), the node of a share holds that share only
(`SymbNodeAssumption`), an operator brings no symbol that its operands lack
(`OpNodeAssumption`), shares and masks are finite sets and no input is a mask,
and a share is known by its secret and index (`ShareNumAssumption`). Of the
caller: a share among the inputs comes in a wire of its own
(`InputSharesAssumption`), output lists name wires that exist
(`CallsAssumption`), and for PINI and OPINI all have the length of the first
(`OutputsAssumption`; `tps.cpp:612` and the enumeration read them by index).

The invariant is `IInv == TypeOK /\ CallInv /\ WiredInv /\ ValidInv /\ CoverInv
/\ RemovedInv /\ FoundInv`. The verdicts alone are not inductive: they say
nothing until the last step.

* `CoverInv` is what makes `removeIncludedProbes` safe in every order: at each
  turn of its loop each reachable gate is observed by one that is neither
  condemned nor to be condemned (a condemned gate was covered by a gate that
  was not condemned then, and inclusion is transitive; the gate that covers is
  never the gate itself). Output wires that the property counts apart stay.
* `RemovedInv` says of every gate that is gone that it is `Dispensable`: either
  useless (it has no mask, and shows at most one share of each secret, or one
  index for PINI), or all it shows is shown by a gate that is left.
* `WiredInv` and `ValidInv` say that a share shown by a gate comes from a wire
  of its own that is among the reachable gates, so that a tuple can be filled
  up with inputs, and that the output wires exist.
* `FoundInv` says that `leakingHwe` holds all the failing tuples of the
  enumeration used and, but for OPINI, nothing else.

`VerificationDone` draws from these that, once the call is done, a leak is
reported when some enumerated tuple of the gates left fails and, but for OPINI,
only then. The
verdict then needs that a leaking set of at most order probes leads to a
leaking tuple that is enumerated. Its useless probes are left out: each adds at
most one effective share of each secret to those of the rest
(`EffectiveWithUnmasked`: the distribution does not change when a value
without masks is added to the observation, but for the shares in that value),
and lowers the size that the allowance is computed from by one
(`LeftForShares`, `LeftForIndexes`). Its covered probes are replaced by those
that show more (`MoreRevealsMore`). Where sets of one size only are
enumerated, the set is filled up: with anything for TPS, with wires of other
shares (`CompletedWithInputs`, which is why the order is below `NbShares`),
with output positions of other indexes (`FillPositions`,
`FilledWithPositions`, which is why it is below the number of output shares).
For OPINI the indexes common to all the sets that simulate a tuple simulate it
themselves (`NeededSimulates`), so that a larger tuple needs at least those of
a smaller one.

### `MaskChoice_proofs`

`TreesRememberRight`: for every finite-height set of expressions and every
relation "mask `m` hides node `n`" that obeys three rules (`IsHiding`: a mask
hides itself; what hides one operand of a sum, and occurs in no other, hides
the sum; what hides the operand of a negation hides the negation), all that
the constructors record of the masks is right, and no occurrence of a mask is
forgotten. Without the second, a sum would take a mask for hidden that occurs
in another operand (`AloneHides`). `ExchangesHidden` draws from it that the
loop exchanges only masks with nodes that they hide. The theorem knows nothing
of values, so that it serves bits, where sums are BXOR, and words alike.

It is an induction over expressions. The provers have no induction over
operators; instead the set of expressions that do not satisfy the claim is
taken, and in it one of least height (`LowestTree`, from the well-foundedness
of `<` on the natural numbers), whose operands satisfy it.

### `CheckProperty_proofs`

| theorem | states |
| --- | --- |
| `TypeCorrect` | `Spec => []TypeOK` |
| `DistributionPreserved` | `Spec => DistributionKept` |
| `PositiveCorrect` | `Spec => []PositiveIsRight` |
| `NegativeCorrect` | `Spec => []NegativeIsRight` |
| `AdditionalIndexesCorrect` | `Spec => []AdditionalIndexesSuffice` |
| `RoundImplemented` | `Spec => ImplementsRound` |
| `MoreProbesNeedMore` | a larger set of probes needs at least the indexes of a smaller one |
| `LeakingSetsTell` | a set of probes has the property exactly when it includes no set that lacks it |

for any secrets, shares and masks, any set of expressions of finite height,
any tuples and allowances, and every choice the loop can make. Assumed is what
each constant makes of the operands of a node (`ValueAssumption`,
`ReplacedAssumption`; `TreesAssumption` for the occurrences of masks, the
symbols, and the height, which is that of a finite tree), that the nodes of a
tuple include the operands (`TupleAssumption`), that `secPropValidity` has let the tuple pass
(`TuplesAssumption`), that RNI is asked with a `diff` below `NbShares`
(`QueriesAssumption`), and that `simplify` keeps values
(`SimplifiedAssumption`). The last is not so for the expressions of `sp_or_v`
(section 5): about tuples that lead to them the theorems say nothing.

The proof goes by these steps.

1. *What nodes remember is true*, by `TreesRememberRight` of
   `MaskChoice_proofs`: on bits, a mask hides what changes its value whenever
   the mask does, and this obeys the rules asked for (`HidingRules`).
2. *An exchange permutes the masks* (`SwappedTwice`, `ReplacedValue`): after
   the exchange of `m` and `ctr` every expression has, for every value of the
   masks, the value it had when `m` took the value of `ctr`; doing this twice
   leads back, because `m` hides `ctr`. Operands that have become equal cancel
   in a sum without changing its parity (`OddAfterCancelling`).
3. *The joint distribution stays* (`SimplifiedSame`, `ReplacedSame`). This is
   `SameInv`, the heart of the invariant `IInv == TypeOK /\ CallInv /\ SameInv
   /\ NoneYet /\ PositiveIsRight /\ NegativeIsRight /\
   AdditionalIndexesSuffice`: the verdicts are not inductive without it, since
   they compare the tuple of the loop with the one asked about.
4. *So do the effective inputs* (`EffectiveSame`), and with them the verdict of
   the enumeration (`HoldsByEffective`). A tuple that a mask hides has none
   (`HiddenRevealsNothing`), one in which few inputs occur has few
   (`FewEnoughHolds`, `OccurringIndexes`).

Step 2 is an induction over expressions, done as in `MaskChoice_proofs`.

The last three theorems tie the modules together: they are about what `Opini`
and `BartheOpt` assume. `RoundImplemented` says that the verdict and the
indexes of a call are what `Opini` lets an analysis answer, and that the set it
counts satisfies `OccurringAssumption` (`RoundOccurs`). `MoreProbesNeedMore`,
from `MoreRevealsMore`, is `NeededAssumption`: the outputs of more indexes make
a larger tuple. `LeakingSetsTell` says that `BartheOpt` loses nothing by
knowing a property by a family of leaking sets, for each property and
allowance that checkProperty is called with.

### `SumProperty_proofs`

| theorem | states |
| --- | --- |
| `SumVerdictCorrect` | `SumSpec => []SumVerdictExact` |
| `SumDistributionKept` | `SumSpec => []HarmlessExchangeKeepsDistribution` |

for words of every width, any secrets and masks, any set of sums of finite
height, and every choice the loop can make. Assumed is what each constant makes
of the operands of a node (`WordValueAssumption`, `ReplacedSumAssumption`,
`SumTreesAssumption`), that a sum may be added up in any order
(`PartialSumAssumption`), that expressions are made of sums and negations
(`SumNodeAssumption`) of the symbols there are (`WordSymbolAssumption`), and
that `simplify` keeps values
(`SimplifiedSumAssumption`, which the rules of `WordTuples` satisfy).

1. *Words are a commutative group* (`PlusGroup`), whose sums over the operands
   of a node, counted as often as they occur, do not depend on names: a
   bijection of the places of two sums that keeps the values keeps the sum
   (`PartialMatches`). With that, the node rebuilt from replaced operands has
   the sum of their values although equal ones have been put together
   (`RebuiltPlus`).
2. *What nodes remember is true.* A mask hides a word when each value of the
   word comes from exactly one value of the mask. A sum is hidden by what hides
   one operand and occurs in no other (`SumHidden`), a negation by what hides
   its operand (`OppositeHidden`): the rules asked for by `TreesRememberRight`.
3. *A harmless exchange permutes the masks.* Let `ctr` be hidden by `m`. When
   the exchange is an involution, every rebuilt expression has the value it had
   when `m` took the value of `ctr` (`ReplacedInvolution`). When `m` occurs in
   `ctr` only, it has the value it had when `ctr` is replaced, and the two
   assignments to the masks correspond one to one (`ReplacedOnlyIn`,
   `HidingPermutes`). Either way each observation is counted as often as before
   (`CountsPermuted`, `HarmlessKeeps`). Without one of the two conditions the
   step fails: `ws_sum_v`.
4. *The invariant* is `SumInv == SumsCalled /\ SameWords /\ SumVerdictExact`.
   The verdict is not inductive by itself, since it compares the tuple asked
   about with what the loop made of it; `SameWords` says that the two show the
   same for all secrets, as long as the exchanges were harmless. A tuple
   without a secret shows the same for all of them (`NoSecretIsTPS`), one that
   a mask hides shows all words equally often (`MaskedIsTPS`).

### `CheckLeakage_proofs`: `opini`

| theorem | states |
| --- | --- |
| `TypeCorrect` | `Spec => []TypeOK` |
| `PositiveCorrect` | `Spec => []PositiveIsRight` |
| `VerdictCorrect` | `Spec => []VerdictExact` |

for any finite set of indexes and any analysis that satisfies the contract
(`NeededAssumption`: more probes never reveal less; `OccurringAssumption`: the
analysis finds at least what is needed). The invariant adds to the types
`AllowanceInv` (the indexes added so far and the allowance left make up the
allowance of the call: without it, `maxShareOcc` could go below zero or be
spent twice) and `ExtendInv` (the indexes found are new and fit in what is
left). Exactness needs a second one, `LeastInv`: when the analysis finds only
what is needed, any set that would do contains `outputIndexes`.

### `CheckLeakage_proofs`: the calls of a program

| theorem | states |
| --- | --- |
| `WrapperTypeCorrect` | `WrapperSpec => []WrapperTypeOK` |
| `CallsOfOpiniCorrect` | every single call of `opini` is right about the indexes it was given |
| `YesCorrect` | `WrapperSpec => []YesIsRight` |
| `YesAtOnceCorrect` | `WrapperSpec => [](calls = 1 => YesVerifiesProperty)` |
| `NoCorrect` | `WrapperSpec => [](OneTuple => NoIsRight)`, if `ExactAnalyses` |

for any expressions and analyses and any program. The invariant `WInv` joins
the one above for the call at work (`OpiniInv`) with what the
program has built and marked (`ProgramInv`), which analyses are still to come
and what the ones before have left (`StageInv`), and the answer
(`AnswerInv`).

`YesCorrect` has no hypothesis: words may be retried in bits and bits follow
one another. Two invariants about the call at work and those before it carry
it, `CountInv` (each call of `opini` adds at most the allowance to
`outputIndexes`, so that the history variable `calls` bounds what has been
added) and `SimulatedInv` (a tuple that was found simulatable stays so, by the
set of indexes that `outputIndexes` was then, since the set only grows). It is
less than the property that was asked about, and `YesAtOnceCorrect` says when
it is the same: when one call of `opini` has decided. With two calls it is not,
for a word analysed again in bits as for one bit after the other (section 5).

`NoCorrect` has its hypotheses where the code needs them. A mark is kept for
larger allowances (`check_leakage.cpp:31`), and an analysis that finds too much
refuses too much: a no is right when analyses are exact, for one tuple
(`OneTuple`). Section 5 has what happens otherwise.


### `BartheOpt_proofs`

| theorem | states |
| --- | --- |
| `TypeCorrect` | `Spec => []TypeOK`: the assertion `x.size() + d == order` at the head of `check` never fails |
| `NothingForgotten` | `Spec => []NoneForgotten` |
| `Implementation` | `Spec => ImplementsTupleVerdict` |

for every finite set of expressions, every family of leaking sets, any
positive order. The invariant adds to these that the extended set has the
property (`ExtendedHolds`), that a search ends secure only with no call left
(`NothingLeft`), and that an exact search reports a leak only when there is one
(`LeakFound`). The heart is the step `Split`: a leaking tuple inside `x + e` is
not inside the extended set, which has the property, so it takes some number
from 0 to d - 1 of its expressions, and that call settles it.

### `NodeStore_proofs`

| theorem | states |
| --- | --- |
| `TypeCorrect` | `TypeOK`: each node in memory is owned by one table |
| `NothingDangles` | `NoDangling` |
| `OneNode` | `OneNodePerExpression` |

each always true when every verification that evaluates concretely decomposes
first (`SafeCalls`), or with `KEEP_NODES`. The condition is not one of
convenience: `ns_temp_v` is what happens without it. The invariant `Kept` says
that the cache and the table of symbols hold nodes of the expressions they are
asked for (`Tables`), that the tables share out the nodes in memory
(`Ownership`), that during a verification the node verified lasts and, if it
may be decomposed, has no wide symbol left (`Verification`), and that what
lasts points to nothing temporary (`WellPointed`).

### Only model-checked

* Liveness (`Terminates`, `CallsReturn`) is not in the reach of the prover.
* `LoopEnds`: a mask is taken again only when a single occurrence of it is
  left, and such an exchange makes the tuple smaller; but `simplify` may make
  it larger again (`(~p & x) ^ (p & y)` becomes `x ^ (p & (x ^ y))`), so that
  no measure of the tuple is known that every turn lowers.
* `EnumerationExact`, `ComparisonExact`, `ValuePreserved`: `Simplify`,
  `FastCircuit` and `FastEvaluation` declare recursive operators on
  expressions, which the provers do not handle.
* `ValueKept`: `Constants` uses the module Bitwise.

What the theorems of `CheckProperty_proofs` and `SumProperty_proofs` assume of
`simplify`, of values, of the replaced graph and of the occurrences is what the
recursive definitions of `BitTuples` and `WordTuples` satisfy on the instance
of `cp_tuples`, where TLC evaluates the assumptions; that they satisfy it for
all expressions is an induction over data.


## 5. Where the code disagrees with what is said of it

Each of these runs shows a disagreement; `findings` in `PROJECT.json` quotes
the sentence.

* `cs_ni_glitch_v` (`hw.cpp:883`). `a0 ^ (a1 ^ a0)` simplifies to `a1`. With
  glitches the gate observes `a0` and `a1`, it covers the gates below it,
  which are removed, and is then removed itself as an input share. The gadget
  is reported NI at order 1.
* `sp_or_v` (`simplify.cpp:1778`). `(a ^ b ^ c) | a | b` becomes
  `a | b | ~c`: with BOR the sign of what is left flips once per known part.
* `ws_sum_v` (`tps.cpp:404`). Of the words `m + k` and `k - m`, the loop puts
  `m` for `m + k` and `m + k` for every other `m`; the way back would be
  `m - k`. TPS is answered although the sum of the two words is `2k`, with
  `NoFalsePositive` too, the enumeration being made of the rewritten tuple.
  The other way round, `m + k`, `n + m + k`, `n` is refused with
  `NoFalsePositive` or not depending on which mask the addresses make it take.
* `fc_concat_v` (`concrev.cpp:640`). The compiled Concat takes its last operand
  for the least significant, all other code its first. After the bit
  decomposition the operands of a sum or a product of words are bit-reversed:
  `ZeroExt(1, k) + ZeroExt(1, m)` is found independent of `k`.
* `ns_temp_v` (`simplify.cpp:530`). With `DELETE_NODES`, a concrete evaluation
  decomposes symbols while nodes are temporary, and the temporary
  concatenation is remembered on the symbol, which lasts.

More appeared with other constants. It has no run of its own; what to set in
which `.cfg`, or what to compare, is given in the last column.

| where | what | how to see it |
| --- | --- | --- |
| `hw.cpp:677` | a register on the secret `a` and the gate it reads both show `a`; with glitches one stands for the other, a single gate is left at order 2, no tuple is verified and TPS is reported | `cs_ni_glitch_v` with `GadgetS`, `ProductsS`, `FewGatesCalls`, no share, `MaxElements = 4` |
| `hw.cpp:1017` | with `REM_REDUNDANT_PROBES`, of the gates with the mask `m` only the one with all three shares is left at order 2; the pair of it and `m` shows `a0 ^ a1 ^ a2`, and is never verified | `cs_ni_glitch_v` with `GadgetA3`, `ProductsA3`, `RedundantCalls`, three shares, `MaxElements = 7` and the option |
| `simplify.cpp:1769` | of `(a ^ b) & (b ^ c) & (a ^ b ^ c ^ d)` the two known sums share `b`: it is left out once and counted twice, and `d` has the wrong sign | `sp_or_v` with `OverlappingXors` and four symbols |
| `simplify.cpp:1778` | in `~a & b & (a ^ b) & (b ^ c ^ d)` the first sum is rewritten to `b` in place, and `b` counts twice for the second | `sp_or_v` with `BecomingEqual` and four symbols |
| `simplify.cpp:1979` | in `(~a & b) \| ~b \| a` the other operands refute every factor of the product; the neutral constant of BOR takes its place, where the product is true, and `~b \| a` is left | `sp_or_v` with `AllImplied` |
| `simplify.cpp:657` | in `(a & b) \| a \| c \| b`, met in this order, `a` absorbs the product and `b` absorbs it again: what is erased then is `a` | `sp_or_v` with `AbsorbedTwice` |
| `node.cpp:992` | an arithmetic shift right of a negative constant whose top limb is not full fills in zeros above the bits that come down from it | `va_programs` with `ValueKept` alone, `Widths = {4}`, `Ops <- OnlyAShR` |
| `concrev.cpp:272` | a carry that comes into a limb and makes it overflow does not go on to the next: a sum of three limbs can be wrong | `va_programs` with `ValueKept` alone, `Widths = {7}`, `Ops <- OnlyPlus` |
| `concrev.cpp:855` | two different constants compare equal: without a symbol, `res` stays empty | `ComparisonExact` without its antecedent |
| `check_leakage.cpp:75` | the analysis of a word fails in its second round and leaves an index; the bits are analysed with the whole allowance, and the yes stands for two indexes where one was allowed | `cl_calls` with `Index = {0, 1}`, `Tuple <- WordTuple`, `Needed <- Chained`, `Occurring <- ExactAnalysis`, `MaxAllowed = 1`, `ProbeTuple <- NoTuple`, `Function = {"Val"}`, `WrapperSpec` and `YesVerifiesProperty` alone |
| `check_leakage.cpp:114` | each bit of a word is given the whole allowance beside what the bits before have added, with the same outcome | the same with `Function = {"ValBit"}` |
| `hw.cpp:544` | with glitches `expNames` is empty and `printExps` throws at the first expression | the step `Abort` of `BartheOpt` |
| `hw.cpp:1139` | `bartheOpt` replaces the enumeration after the passes, but settles full tuples of distinct expressions only: where a removed probe is made up for by a smaller tuple, nothing is | compare `DoPartialTuples` of `CheckSecurity` with `Tuples` of `BartheOpt` |
| `check_leakage.cpp:31` | the mark of a word analysis that failed under a small allowance is kept for a larger one | `NoIsRight` in `cl_calls` with an `Occurring` for words that finds more than is needed |
| `tps.cpp:323` | with `NoFalsePositive` a round takes indexes that only occur when they fit, and the next round lacks that allowance | `VerdictExact` of `Opini` without `Exact(probes)`, restricted to `noFalsePositive` |

## 6. Not modelled

In reach, and left out so far: word-level gates and `gmulGadget`; masking
through GMUL and bijective arrays; sums mixed with bitwise operators; the
compiled shifts, extensions and field products; random evaluation; products,
powers and logarithms in GF(256) of constants; what `checkTPS...`, `checkNI...`
of `check_leakage.cpp` ask, which are the same macros as for OPINI around a
single round; symbols declared again with another type or width
(`node.cpp:131` returns the old one without a word).

Left out for what they are: the word-level rules of `simplify.cpp` other than
sums (their number, and the size of the values they are about, are beyond what
TLC can enumerate with any use); the merging of concatenated extractions
(`simp_conc.cpp`), one more such rule; arrays, whose content is any function;
user rewriting rules, "temporarily broken" (`README.md:187`), whose meaning is
up to the user; SHA-256, taken to be without collisions; the circuit dump, the
Python binding, and everything that prints.

## 7. Plan

Order of importance: the verdict of a gadget, the verdict of a tuple, what
both rest on.

| step | modules | what | state |
| --- | --- | --- | --- |
| 1 | `HWElements`, `ConcreteEvaluation`, `CheckSecurity` | the whole call, exact verdicts | checked and proved, with glitches and full tuples |
| 2 | `Opini` | rounds, allowance, exactness | checked and proved |
| 3 | `Simplify`, `SimplifyProgram` | rules on bits in every order | checked |
| 4 | `MaskChoice`, `CheckProperty`, `BitTuples` | the loop, every choice of mask and node | checked; verdicts and distribution proved |
| 5 | `CheckLeakage` | sequences of calls, marks | checked and proved for OPINI |
| 6 | `Constants`, `ConstantProgram` | limbs | checked |
| 7 | `BartheOpt`, `TupleVerdict` | the other enumeration, and the promise it keeps | checked and proved |
| 8 | `NodeStore` | hash consing, remembered simplifications, temporary nodes | checked and proved |
| 9 | `SumProperty`, `WordTuples` | masking through PLUS and MINUS on words | checked and proved |
| 10 | `FastCircuit`, `FastEvaluation`, `WordProgram` | the compiled evaluation against `ConcreteEvaluation` | checked |
| 11 | `FastCircuit`, `FastEvaluation` | registers and lanes without recursive operators, so that `EnumerationExact` can be proved on top of `Observation_proofs` | left |
| 12 | `HWElements` | word-level gates, `gmulGadget` | left |
