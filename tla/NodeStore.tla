----------------------------- MODULE NodeStore -----------------------------
(***************************************************************************)
(* The expression nodes in memory (src/src/node.cpp, src/src/simplify.cpp, *)
(* src/src/tps.cpp).  Nodes are built once per expression and found again  *)
(* in a cache; nodes point to one another as operands, as the known        *)
(* simplification of one another (simpEq, and simpEqUsbv with single-bit   *)
(* variables) and as the known bits of one another (extractBit).  While a  *)
(* verification runs, nodes are temporary.  With MEMORY_STRATEGY           *)
(* KEEP_NODES that changes nothing; with DELETE_NODES temporary nodes stay *)
(* out of the cache and are deleted when the verification ends, and        *)
(* nothing that lasts may point to one.                                    *)
(*                                                                         *)
(* An expression is what the hash of a node is computed from: the operator *)
(* and the expressions of the operands.  Simplification and verification   *)
(* are the steps they take in the store, any number of times and on any    *)
(* nodes: what is built, looked up and remembered.                         *)
(***************************************************************************)
EXTENDS Integers, Sequences, FiniteSets

CONSTANTS
    MaxNodes,           \* bound: nodes in memory at a time
    Symbol,             \* the symbols a program declares
    WideSymbol,         \* those of several bits
    BitIndex,           \* the indexes of their bits
    BitOf(_, _),        \* BitOf(s, i): the one-bit symbol of bit i of s
    OpExp,              \* expressions with an operator
    Operands(_),        \* the sequence of their operands
    ExtractOf(_, _),    \* ExtractOf(s, i): the extraction of bit i of s
    ConcatOf(_),        \* the concatenation of the one-bit symbols of s
    WideIn(_),          \* the symbols of several bits that occur in an expression
    Equal(_, _),        \* whether two expressions have the same value
    Calls               \* the verifications asked for: [bitDecompose, noFalsePositive]

BitSymbol == {BitOf(s, i) : s \in WideSymbol, i \in BitIndex}

ASSUME MaxNodesAssumption == MaxNodes \in Nat
ASSUME SymbolAssumption ==
    WideSymbol \subseteq Symbol /\ (Symbol \cup BitSymbol) \cap OpExp = {}
ASSUME ExpAssumption ==
    \A s \in WideSymbol :
        /\ ConcatOf(s) \in OpExp
        /\ \A i \in BitIndex : ExtractOf(s, i) \in OpExp /\ Operands(ExtractOf(s, i)) = <<s>>

ASSUME OperandsAssumption ==
    \A e \in OpExp : Operands(e) \in Seq(Symbol \cup BitSymbol \cup OpExp)

(* The bits of a symbol are no symbols of several bits.                    *)
ASSUME WideInAssumption ==
    /\ \A b \in BitSymbol : WideIn(b) = {}
    /\ \A s \in WideSymbol : WideIn(ConcatOf(s)) = {}
ASSUME CallsAssumption == Calls \subseteq [bitDecompose : BOOLEAN, noFalsePositive : BOOLEAN]

Address == 1 .. MaxNodes
NULL == 0

VARIABLES
    memoryStrategy,     \* MEMORY_STRATEGY of config.hpp
    node,               \* the nodes in memory, by address
    cache, symb2node,   \* the nodes found again, by expression
    opNodes, toDelete,  \* the nodes to delete at the cleanup, or earlier
    modeTempNode,
    call, root          \* the verification at work and the node it is about

vars == <<memoryStrategy, node, cache, symb2node, opNodes, toDelete, modeTempNode, call, root>>
verification == <<memoryStrategy, modeTempNode, call, root>>

Live == DOMAIN node

NoBits == [i \in BitIndex |-> NULL]

(* The fields of a node that this module is about.                         *)
NodeRecord ==
    [exp : Symbol \cup BitSymbol \cup OpExp, children : Seq(Address),
     simpEq : Address \cup {NULL}, simpEqUsbv : Address \cup {NULL},
     extractBit : [BitIndex -> Address \cup {NULL}]]

NoCall == [bitDecompose |-> FALSE, noFalsePositive |-> FALSE]

Init ==
    /\ memoryStrategy \in {"KEEP_NODES", "DELETE_NODES"}
    /\ node = <<>>
    /\ cache = <<>> /\ symb2node = <<>>
    /\ opNodes = {} /\ toDelete = {}
    /\ modeTempNode = FALSE
    /\ call = NoCall /\ root = NULL

-----------------------------------------------------------------------------
(* Construction.                                                           *)

(* f with one more point.                                                  *)
With(f, x, v) == [y \in DOMAIN f \cup {x} |-> IF y = x THEN v ELSE f[y]]

(* The addresses of deleted nodes are used again, the least free one       *)
(* first.                                                                  *)
New(n) == n \in Address \ Live /\ \A m \in Address \ Live : n <= m

(* The nodes once n is there, a new node of e or an old one.               *)
After(n, e, kids, eq) ==
    IF n \in Live THEN node
    ELSE With(node, n, [exp |-> e, children |-> kids, simpEq |-> eq,
                        simpEqUsbv |-> NULL, extractBit |-> NoBits])

(* SymbNode: n is the node of a symbol.  A symbol declared again is the    *)
(* old one, whatever its type and width; a new one lasts, in a             *)
(* verification too.                                                       *)
SymbNode(n, e) ==
    /\ IF e \in DOMAIN symb2node THEN n = symb2node[e] ELSE New(n)
    /\ symb2node' = With(symb2node, e, n)
    /\ UNCHANGED <<cache, opNodes, toDelete>>

(* Whether what is built now is deleted before the cleanup.                *)
Temporary == modeTempNode /\ memoryStrategy = "DELETE_NODES"

(* Mutant: nothing built in a verification is cached, whatever the         *)
(* strategy.                                                               *)
OpNodeUncached(n, e) ==
    /\ IF e \in DOMAIN cache THEN n = cache[e] ELSE New(n)
    /\ cache' = IF modeTempNode THEN cache ELSE With(cache, e, n)
    /\ opNodes' = IF n \in Live \/ Temporary THEN opNodes ELSE opNodes \cup {n}
    /\ toDelete' = IF n \in Live \/ ~Temporary THEN toDelete ELSE toDelete \cup {n}
    /\ UNCHANGED symb2node

(* OpNode: n is the node of an expression, found in the cache or new.      *)
OpNode(n, e) ==
    /\ IF e \in DOMAIN cache THEN n = cache[e] ELSE New(n)
    /\ cache' = IF Temporary THEN cache ELSE With(cache, e, n)
    /\ opNodes' = IF n \in Live \/ Temporary THEN opNodes ELSE opNodes \cup {n}
    /\ toDelete' = IF n \in Live \/ ~Temporary THEN toDelete ELSE toDelete \cup {n}
    /\ UNCHANGED symb2node

(* Nodes for the operands of an expression.                                *)
Fits(kids, e) == \A i \in DOMAIN kids : node[kids[i]].exp = Operands(e)[i]

DeclareSymbol(e) ==
    /\ ~modeTempNode
    /\ \E n \in Address : SymbNode(n, e) /\ node' = After(n, e, <<>>, n)
    /\ UNCHANGED verification

(* An operator applied to nodes, by the program or by the tool.            *)
Build(e) ==
    /\ \E kids \in [1 .. Len(Operands(e)) -> Live], n \in Address :
         /\ Fits(kids, e)
         /\ OpNode(n, e)
         /\ node' = After(n, e, kids, NULL)
    /\ UNCHANGED verification

(* Extract of one bit of c: the bit known of c, or a node of its own that  *)
(* c remembers when that node lives as long as c.                          *)
MayKeepBit(c, n) == Temporary => c \in toDelete' \/ n \notin toDelete'

ExtractBit(c, i) ==
    LET e == ExtractOf(node[c].exp, i) IN
    /\ node[c].extractBit[i] = NULL
    /\ \E n \in Address :
         /\ OpNode(n, e)
         /\ node' = [After(n, e, <<c>>, NULL) EXCEPT
                        ![c].extractBit[i] = IF MayKeepBit(c, n) THEN n ELSE @]
    /\ UNCHANGED verification

-----------------------------------------------------------------------------
(* Simplification.                                                         *)

(* Mutant: the simplification found is always remembered.                  *)
AlwaysCacheOnNode(n, r) == TRUE

(* setSimpEqAndReturn: a lasting node must not remember a temporary one.   *)
CanCacheOnNode(n, r) == Temporary /\ n \notin toDelete' => r \notin toDelete'

(* The nodes once n is known to be simplified to r, which is simplified    *)
(* itself.                                                                 *)
Simplified(nodes, n, r, usbv) ==
    LET known == IF ~CanCacheOnNode(n, r) THEN nodes
                 ELSE IF usbv THEN [nodes EXCEPT ![n].simpEqUsbv = r]
                 ELSE [nodes EXCEPT ![n].simpEq = r]
    IN  IF usbv THEN [known EXCEPT ![r].simpEq = r, ![r].simpEqUsbv = r]
        ELSE [known EXCEPT ![r].simpEq = r]

(* In a verification only a concrete evaluation decomposes in bits         *)
(* (getBitDecomposition), what is left of the node verified.               *)
MayDecompose == modeTempNode => call.noFalsePositive

MayDecomposeSymbol(s) == MayDecompose /\ (modeTempNode => s \in WideIn(node[root].exp))

(* simplifyCore, the end of it: r, whichever node the rules have built, is *)
(* the simplification of n.  With single-bit variables no symbol of        *)
(* several bits is left.                                                   *)
Simplify(n, r, usbv) ==
    /\ Equal(node[n].exp, node[r].exp)
    /\ usbv => MayDecompose /\ node[n].exp \notin WideSymbol /\ WideIn(node[r].exp) = {}
    /\ UNCHANGED <<cache, symb2node, opNodes, toDelete>>
    /\ node' = Simplified(node, n, r, usbv)
    /\ UNCHANGED verification

(* getBitDecompositionVarSingleBit, once it has extracted the bit i of s   *)
(* in the node x: the symbol of that bit is the simplification of x.       *)
DecomposeBit(s, i, x) ==
    LET e == BitOf(s, i) IN
    /\ MayDecomposeSymbol(s)
    /\ node[x].exp = ExtractOf(s, i)
    /\ node[x].simpEqUsbv = NULL
    /\ \E n \in Address :
         /\ SymbNode(n, e)
         /\ node' = [After(n, e, <<>>, n) EXCEPT ![x].simpEqUsbv = n]
    /\ UNCHANGED verification

(* getBitDecompositionVar of the symbol in n, once all its bits are        *)
(* symbols: their concatenation is the simplification of the symbol, noted *)
(* there before setSimpEqAndReturn asks whether it may be.                 *)
DecomposeSymbol(n) ==
    LET s == node[n].exp
        e == ConcatOf(s) IN
    /\ s \in WideSymbol
    /\ MayDecomposeSymbol(s)
    /\ node[n].simpEqUsbv = NULL
    /\ \E kids \in [1 .. Len(Operands(e)) -> Live], r \in Address :
         /\ Fits(kids, e)
         /\ OpNode(r, e)
         /\ node' = Simplified([After(r, e, kids, NULL) EXCEPT ![n].simpEqUsbv = r], n, r, TRUE)
    /\ UNCHANGED verification

-----------------------------------------------------------------------------
(* Verification.                                                           *)

(* checkPropertyWrapper: the node verified is simplified first, as asked;  *)
(* from then on nodes are temporary.                                       *)
StartVerification(n, c) ==
    LET r == IF c.bitDecompose THEN node[n].simpEqUsbv ELSE node[n].simpEq IN
    /\ ~modeTempNode
    /\ r # NULL
    /\ modeTempNode' = TRUE /\ call' = c /\ root' = r
    /\ UNCHANGED <<memoryStrategy, node, cache, symb2node, opNodes, toDelete>>

(* Mutant: the set of the nodes to delete is not emptied.                  *)
EndVerificationUncleared ==
    /\ modeTempNode
    /\ node' = [n \in Live \ toDelete |-> node[n]]
    /\ modeTempNode' = FALSE /\ call' = NoCall /\ root' = NULL
    /\ UNCHANGED <<memoryStrategy, cache, symb2node, opNodes, toDelete>>

(* setModePermanentNodes.                                                  *)
EndVerification ==
    /\ modeTempNode
    /\ node' = [n \in Live \ toDelete |-> node[n]]
    /\ toDelete' = {}
    /\ modeTempNode' = FALSE /\ call' = NoCall /\ root' = NULL
    /\ UNCHANGED <<memoryStrategy, cache, symb2node, opNodes>>

(* Node::cleanup deletes each node once, from the table that owns it.      *)
Cleanup ==
    /\ ~modeTempNode
    /\ node' = <<>>
    /\ cache' = <<>> /\ symb2node' = <<>>
    /\ opNodes' = {} /\ toDelete' = {}
    /\ UNCHANGED verification

Next ==
    \/ \E e \in Symbol : DeclareSymbol(e)
    \/ \E e \in OpExp : Build(e)
    \/ \E c \in Live, i \in BitIndex : node[c].exp \in WideSymbol /\ ExtractBit(c, i)
    \/ \E n, r \in Live, usbv \in BOOLEAN : Simplify(n, r, usbv)
    \/ \E s \in WideSymbol, i \in BitIndex, x \in Live : DecomposeBit(s, i, x)
    \/ \E n \in Live : DecomposeSymbol(n)
    \/ \E n \in Live, c \in Calls : StartVerification(n, c)
    \/ EndVerification
    \/ Cleanup

Spec == Init /\ [][Next]_vars

-----------------------------------------------------------------------------
(* Verifications that evaluate concretely only what was decomposed in bits *)
(* before: the others decompose symbols while nodes are temporary.         *)
SafeCalls == \A c \in Calls : c.noFalsePositive => c.bitDecompose

(* The tables hold nodes of the expressions they are asked for, and every  *)
(* node in memory is deleted once: by one of the three tables that own     *)
(* nodes.                                                                  *)
Owned == {symb2node[e] : e \in DOMAIN symb2node}

TypeOK ==
    /\ node \in [Live -> NodeRecord] /\ Live \subseteq Address
    /\ \A e \in DOMAIN cache : cache[e] \in Live => node[cache[e]].exp = e
    /\ \A e \in DOMAIN symb2node : symb2node[e] \in Live => node[symb2node[e]].exp = e
    /\ Live = Owned \cup opNodes \cup toDelete
    /\ Owned \cap opNodes = {} /\ (Owned \cup opNodes) \cap toDelete = {}

(* No pointer outlives the node it points to: what nodes, the cache and    *)
(* the table of symbols name is in memory, whatever was verified before.   *)
Pointers(v) ==
    {v.children[i] : i \in DOMAIN v.children} \cup {v.simpEq, v.simpEqUsbv}
        \cup {v.extractBit[i] : i \in BitIndex}

NoDangling ==
    /\ \A n \in Live : Pointers(node[n]) \subseteq Live \cup {NULL}
    /\ \A e \in DOMAIN cache : cache[e] \in Live
    /\ \A e \in DOMAIN symb2node : symb2node[e] \in Live

(* Nodes are compared by address all over the code: no expression has two  *)
(* nodes that last.                                                        *)
OneNodePerExpression ==
    \A n, m \in Live \ toDelete : node[n].exp = node[m].exp => n = m
=============================================================================
