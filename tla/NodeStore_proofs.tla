-------------------------- MODULE NodeStore_proofs --------------------------
(***************************************************************************)
(* What is proved of the nodes in memory, for every set of expressions,    *)
(* every simplification and every sequence of verifications: when only     *)
(* what was decomposed in bits before is evaluated concretely, or with     *)
(* KEEP_NODES, no pointer dangles, every node is deleted once and no       *)
(* expression has two lasting nodes.                                       *)
(***************************************************************************)
EXTENDS NodeStore, TLAPS

-----------------------------------------------------------------------------
(* Nodes that point well: of the addresses L, of which those in D will be  *)
(* deleted, to L, and out of D only to what is out of D; and only to       *)
(* expressions without symbols of several bits as their simplification     *)
(* with single-bit variables.                                              *)

WellPointed(nodes, L, D) ==
    /\ nodes \in [L -> NodeRecord]
    /\ \A k \in L : /\ Pointers(nodes[k]) \subseteq L \cup {NULL}
                    /\ k \notin D => Pointers(nodes[k]) \cap D = {}
                    /\ nodes[k].simpEqUsbv # NULL => WideIn(nodes[nodes[k].simpEqUsbv].exp) = {}

SameExps(nodes, nodes2, L) == \A k \in L : nodes2[k].exp = nodes[k].exp

(* NULL is no address.                                                     *)
LEMMA NullIsNoAddress == NULL \notin Address
BY DEF NULL, Address

(* Noting a simplification.                                                *)
LEMMA NoteSimpEq ==
    ASSUME NEW L, L \subseteq Address, NEW D, NEW nodes, WellPointed(nodes, L, D),
           NEW n \in L, NEW r \in L, n \notin D => r \notin D
    PROVE  LET nodes2 == [nodes EXCEPT ![n].simpEq = r]
           IN  WellPointed(nodes2, L, D) /\ SameExps(nodes, nodes2, L)
<1> DEFINE nodes2 == [nodes EXCEPT ![n].simpEq = r]
<1>1. nodes \in [L -> NodeRecord]
  BY DEF WellPointed
<1>2. /\ nodes2 \in [L -> NodeRecord]
      /\ \A k \in L : k # n => nodes2[k] = nodes[k]
      /\ nodes2[n] = [nodes[n] EXCEPT !.simpEq = r]
  BY <1>1 DEF NodeRecord
<1>3. /\ nodes2[n].exp = nodes[n].exp /\ nodes2[n].children = nodes[n].children
      /\ nodes2[n].simpEq = r /\ nodes2[n].simpEqUsbv = nodes[n].simpEqUsbv
      /\ nodes2[n].extractBit = nodes[n].extractBit
  BY <1>1, <1>2 DEF NodeRecord
<1>4. SameExps(nodes, nodes2, L)
  BY <1>2, <1>3 DEF SameExps
<1>5. Pointers(nodes2[n]) \subseteq Pointers(nodes[n]) \cup {r}
  BY <1>3 DEF Pointers
<1>6. \A k \in L : nodes2[k].simpEqUsbv = nodes[k].simpEqUsbv
  BY <1>2, <1>3
<1>7. \A k \in L : nodes[k].simpEqUsbv \in L \cup {NULL}
  BY DEF WellPointed, Pointers
<1>8. \A k \in L : nodes2[k].simpEqUsbv # NULL => WideIn(nodes2[nodes2[k].simpEqUsbv].exp) = {}
  BY <1>4, <1>6, <1>7 DEF SameExps, WellPointed
<1>9. ASSUME NEW k \in L
      PROVE  /\ Pointers(nodes2[k]) \subseteq L \cup {NULL}
             /\ k \notin D => Pointers(nodes2[k]) \cap D = {}
  <2>1. CASE k = n
    BY <1>5, <2>1 DEF WellPointed
  <2>2. CASE k # n
    BY <1>2, <2>2 DEF WellPointed
  <2> QED
    BY <2>1, <2>2
<1> QED
  BY <1>2, <1>4, <1>8, <1>9 DEF WellPointed

(* Remembering a simplification points from a node to one that lasts as    *)
(* long.                                                                   *)
LEMMA NoteSimpEqUsbv ==
    ASSUME NEW L, L \subseteq Address, NEW D, NEW nodes, WellPointed(nodes, L, D),
           NEW n \in L, NEW r \in L, n \notin D => r \notin D, WideIn(nodes[r].exp) = {}
    PROVE  LET nodes2 == [nodes EXCEPT ![n].simpEqUsbv = r]
           IN  WellPointed(nodes2, L, D) /\ SameExps(nodes, nodes2, L)
<1> DEFINE nodes2 == [nodes EXCEPT ![n].simpEqUsbv = r]
<1>1. nodes \in [L -> NodeRecord]
  BY DEF WellPointed
<1>2. /\ nodes2 \in [L -> NodeRecord]
      /\ \A k \in L : k # n => nodes2[k] = nodes[k]
      /\ nodes2[n] = [nodes[n] EXCEPT !.simpEqUsbv = r]
  BY <1>1 DEF NodeRecord
<1>3. /\ nodes2[n].exp = nodes[n].exp /\ nodes2[n].children = nodes[n].children
      /\ nodes2[n].simpEq = nodes[n].simpEq /\ nodes2[n].simpEqUsbv = r
      /\ nodes2[n].extractBit = nodes[n].extractBit
  BY <1>1, <1>2 DEF NodeRecord
<1>4. SameExps(nodes, nodes2, L)
  BY <1>2, <1>3 DEF SameExps
<1>5. Pointers(nodes2[n]) \subseteq Pointers(nodes[n]) \cup {r}
  BY <1>3 DEF Pointers
<1>7. \A k \in L : nodes[k].simpEqUsbv \in L \cup {NULL}
  BY DEF WellPointed, Pointers
<1>8. ASSUME NEW k \in L, nodes2[k].simpEqUsbv # NULL
      PROVE  WideIn(nodes2[nodes2[k].simpEqUsbv].exp) = {}
  <2>1. CASE k = n
    BY <1>3, <1>4, <2>1 DEF SameExps
  <2>2. CASE k # n
    <3>1. nodes2[k].simpEqUsbv = nodes[k].simpEqUsbv /\ nodes[k].simpEqUsbv \in L
      BY <1>2, <1>7, <1>8, <2>2
    <3>2. WideIn(nodes[nodes[k].simpEqUsbv].exp) = {}
      BY <1>8, <3>1 DEF WellPointed
    <3>3. nodes2[nodes[k].simpEqUsbv].exp = nodes[nodes[k].simpEqUsbv].exp
      BY <1>4, <3>1 DEF SameExps
    <3> QED
      BY <3>1, <3>2, <3>3
  <2> QED
    BY <2>1, <2>2
<1>9. ASSUME NEW k \in L
      PROVE  /\ Pointers(nodes2[k]) \subseteq L \cup {NULL}
             /\ k \notin D => Pointers(nodes2[k]) \cap D = {}
  <2>1. CASE k = n
    BY <1>5, <2>1 DEF WellPointed
  <2>2. CASE k # n
    BY <1>2, <2>2 DEF WellPointed
  <2> QED
    BY <2>1, <2>2
<1> QED
  BY <1>2, <1>4, <1>8, <1>9 DEF WellPointed

(* Remembering a bit of a node points to one that lasts as long too.       *)
LEMMA NoteExtractBit ==
    ASSUME NEW L, L \subseteq Address, NEW D, NEW nodes, WellPointed(nodes, L, D),
           NEW n \in L, NEW r \in L, n \notin D => r \notin D, NEW i \in BitIndex
    PROVE  LET nodes2 == [nodes EXCEPT ![n].extractBit[i] = r]
           IN  WellPointed(nodes2, L, D) /\ SameExps(nodes, nodes2, L)
<1> DEFINE nodes2 == [nodes EXCEPT ![n].extractBit[i] = r]
<1>1. nodes \in [L -> NodeRecord]
  BY DEF WellPointed
<1>2. /\ nodes2 \in [L -> NodeRecord]
      /\ \A k \in L : k # n => nodes2[k] = nodes[k]
      /\ nodes2[n] = [nodes[n] EXCEPT !.extractBit[i] = r]
  BY <1>1 DEF NodeRecord
<1>3. /\ nodes2[n].exp = nodes[n].exp /\ nodes2[n].children = nodes[n].children
      /\ nodes2[n].simpEq = nodes[n].simpEq /\ nodes2[n].simpEqUsbv = nodes[n].simpEqUsbv
      /\ \A j \in BitIndex : nodes2[n].extractBit[j] \in {nodes[n].extractBit[j], r}
  BY <1>1, <1>2 DEF NodeRecord
<1>4. SameExps(nodes, nodes2, L)
  BY <1>2, <1>3 DEF SameExps
<1>5. Pointers(nodes2[n]) \subseteq Pointers(nodes[n]) \cup {r}
  BY <1>3 DEF Pointers
<1>6. \A k \in L : nodes2[k].simpEqUsbv = nodes[k].simpEqUsbv
  BY <1>2, <1>3
<1>7. \A k \in L : nodes[k].simpEqUsbv \in L \cup {NULL}
  BY DEF WellPointed, Pointers
<1>8. \A k \in L : nodes2[k].simpEqUsbv # NULL => WideIn(nodes2[nodes2[k].simpEqUsbv].exp) = {}
  BY <1>4, <1>6, <1>7 DEF SameExps, WellPointed
<1>9. ASSUME NEW k \in L
      PROVE  /\ Pointers(nodes2[k]) \subseteq L \cup {NULL}
             /\ k \notin D => Pointers(nodes2[k]) \cap D = {}
  <2>1. CASE k = n
    BY <1>5, <2>1 DEF WellPointed
  <2>2. CASE k # n
    BY <1>2, <2>2 DEF WellPointed
  <2> QED
    BY <2>1, <2>2
<1> QED
  BY <1>2, <1>4, <1>8, <1>9 DEF WellPointed

-----------------------------------------------------------------------------
(* The inductive invariant.                                                *)

Tables ==
    /\ \A e \in DOMAIN cache : e \in OpExp /\ cache[e] \in opNodes /\ node[cache[e]].exp = e
    /\ \A n \in opNodes : node[n].exp \in DOMAIN cache /\ cache[node[n].exp] = n
    /\ \A e \in DOMAIN symb2node :
         /\ e \in Symbol \cup BitSymbol
         /\ symb2node[e] \in Live /\ node[symb2node[e]].exp = e

Ownership ==
    /\ Live \subseteq Address
    /\ Live = Owned \cup opNodes \cup toDelete
    /\ Owned \cap opNodes = {}
    /\ (Owned \cup opNodes) \cap toDelete = {}

Verification ==
    /\ modeTempNode \in BOOLEAN
    /\ ~Temporary => toDelete = {}
    /\ modeTempNode => root \in Live \ toDelete
    /\ modeTempNode /\ SafeCalls /\ call.noFalsePositive => WideIn(node[root].exp) = {}

Kept == Tables /\ Ownership /\ Verification /\ WellPointed(node, Live, toDelete)

Safe == SafeCalls \/ memoryStrategy = "KEEP_NODES"

IInv == Safe => Kept

(* At the start there is no node.                                          *)
LEMMA InitIInv == Init => IInv
<1> SUFFICES ASSUME Init PROVE Kept
  BY DEF IInv
<1>1. Live = {} /\ DOMAIN cache = {} /\ DOMAIN symb2node = {} /\ opNodes = {} /\ toDelete = {}
  BY DEF Init, Live
<1>2. Owned = {}
  BY <1>1 DEF Owned
<1>3. WellPointed(node, Live, toDelete)
  BY <1>1 DEF WellPointed, Init
<1> QED
  BY <1>1, <1>2, <1>3 DEF Init, Kept, Tables, Ownership, Verification

(* What a step has to show that builds at most the node n.                 *)
LEMMA BuildingStep ==
    ASSUME Kept, UNCHANGED verification, NEW n \in Address,
           n \in Live \/ New(n),
           WellPointed(node', Live \cup {n}, toDelete'),
           SameExps(node, node', Live),
           toDelete' \cap Live = toDelete,
           ~Temporary => toDelete' = {},
           Tables', Ownership'
    PROVE  Kept'
<1>1. Live' = Live \cup {n}
  BY DEF WellPointed, Live
<1>2. Temporary' = Temporary
  BY DEF verification, Temporary
<1>3. modeTempNode => root \in Live /\ node'[root].exp = node[root].exp
  BY DEF Kept, Verification, SameExps
<1>4. Verification'
  BY <1>1, <1>2, <1>3 DEF Kept, Verification, verification, SafeCalls
<1> QED
  BY <1>1, <1>4 DEF Kept

(* The nodes once OpNode has returned n.                                   *)
LEMMA OpNodeReturns ==
    ASSUME Kept, NEW n \in Address, NEW e \in OpExp, OpNode(n, e),
           NEW kids \in [1 .. Len(Operands(e)) -> Live]
    PROVE  /\ n \in Live \/ New(n)
           /\ WellPointed(After(n, e, kids, NULL), Live \cup {n}, toDelete')
           /\ SameExps(node, After(n, e, kids, NULL), Live)
           /\ After(n, e, kids, NULL)[n].exp = e
           /\ n \in Live => n \notin toDelete
           /\ toDelete' \cap Live = toDelete
           /\ ~Temporary => toDelete' = {}
<1> DEFINE nodes == After(n, e, kids, NULL)
<1>0. e \in DOMAIN cache => n = cache[e] /\ n \in opNodes /\ node[n].exp = e
  BY DEF OpNode, Kept, Tables
<1>1. n \in Live \/ New(n)
  BY <1>0 DEF OpNode, Kept, Ownership
<1>2. CASE n \in Live
  <2>1. e \in DOMAIN cache
    BY <1>2 DEF OpNode, New
  <2>2. nodes = node /\ Live \cup {n} = Live /\ toDelete' = toDelete /\ n \notin toDelete
    BY <1>0, <1>2, <2>1 DEF After, OpNode, Kept, Ownership
  <2>3. WellPointed(nodes, Live \cup {n}, toDelete')
    BY <2>2 DEF Kept
  <2>4. SameExps(node, nodes, Live) /\ nodes[n].exp = e
    BY <1>0, <2>1, <2>2 DEF SameExps
  <2>5. toDelete' \cap Live = toDelete /\ (~Temporary => toDelete' = {})
    BY <2>2 DEF Kept, Ownership, Verification
  <2> HIDE DEF nodes
  <2>6. /\ WellPointed(nodes, Live \cup {n}, toDelete')
        /\ SameExps(node, nodes, Live) /\ nodes[n].exp = e
        /\ n \in Live => n \notin toDelete
    BY <2>2, <2>3, <2>4
  <2> QED
    BY <1>1, <2>5, <2>6 DEF nodes
<1>3. CASE n \notin Live
  <2> DEFINE v == [exp |-> e, children |-> kids, simpEq |-> NULL,
                   simpEqUsbv |-> NULL, extractBit |-> NoBits]
  <2>1. /\ nodes = [y \in Live \cup {n} |-> IF y = n THEN v ELSE node[y]]
        /\ toDelete' = IF Temporary THEN toDelete \cup {n} ELSE toDelete
    BY <1>3 DEF After, With, OpNode, Live
  <2>2. v \in NodeRecord
    <3>1. Len(Operands(e)) \in Nat
      BY OperandsAssumption
    <3>2. kids \in Seq(Address)
      BY <3>1 DEF Kept, Ownership
    <3> QED
      BY <3>2 DEF NodeRecord, NoBits
  <2>3. node \in [Live -> NodeRecord]
    BY DEF Kept, WellPointed
  <2>4. /\ nodes \in [Live \cup {n} -> NodeRecord]
        /\ nodes[n] = v /\ \A k \in Live : nodes[k] = node[k]
    BY <1>3, <2>1, <2>2, <2>3
  <2>5. Pointers(v) \subseteq Live \cup {NULL}
    BY DEF Pointers, NoBits
  <2>6. NULL \notin toDelete /\ n \notin toDelete /\ toDelete \subseteq Live
    BY <1>3, NullIsNoAddress DEF Kept, Ownership
  <2>7. ~Temporary => toDelete = {}
    BY DEF Kept, Verification
  <2>8. n # NULL /\ \A k \in Live : n \notin Pointers(node[k])
    BY <1>3, NullIsNoAddress DEF Kept, WellPointed
  <2>9. ASSUME NEW k \in Live \cup {n}
        PROVE  /\ Pointers(nodes[k]) \subseteq Live \cup {n} \cup {NULL}
               /\ k \notin toDelete' => Pointers(nodes[k]) \cap toDelete' = {}
               /\ nodes[k].simpEqUsbv # NULL => WideIn(nodes[nodes[k].simpEqUsbv].exp) = {}
    <3>1. CASE k = n
      <4>1. k \notin toDelete' => toDelete' = {}
        BY <2>1, <2>7, <3>1
      <4> QED
        BY <2>4, <2>5, <3>1, <4>1
    <3>2. CASE k \in Live
      <4>1. nodes[k] = node[k] /\ Pointers(node[k]) \subseteq Live \cup {NULL}
        BY <2>4, <3>2 DEF Kept, WellPointed
      <4>2. node[k].simpEqUsbv \in Live \cup {NULL}
        BY <4>1 DEF Pointers
      <4>3. node[k].simpEqUsbv # NULL => WideIn(nodes[node[k].simpEqUsbv].exp) = {}
        BY <2>4, <3>2, <4>2 DEF Kept, WellPointed
      <4>4. k \notin toDelete => Pointers(node[k]) \cap toDelete = {}
        BY <3>2 DEF Kept, WellPointed
      <4> QED
        BY <1>3, <2>1, <2>8, <3>2, <4>1, <4>3, <4>4
    <3> QED
      BY <3>1, <3>2
  <2>10. SameExps(node, nodes, Live)
    BY <2>4 DEF SameExps
  <2>11. toDelete' \cap Live = toDelete /\ (~Temporary => toDelete' = {})
    BY <1>3, <2>1, <2>6, <2>7
  <2> QED
    BY <1>1, <1>3, <2>4, <2>9, <2>10, <2>11 DEF WellPointed
<1> QED
  BY <1>2, <1>3

(* The tables once OpNode has returned n.                                  *)
LEMMA OpNodeFiles ==
    ASSUME Kept, NEW n \in Address, NEW e \in OpExp, OpNode(n, e),
           DOMAIN node' = Live \cup {n}, SameExps(node, node', Live), node'[n].exp = e
    PROVE  Tables' /\ Ownership'
<1>0. Live' = Live \cup {n} /\ UNCHANGED symb2node /\ Owned' = Owned
  BY DEF Live, OpNode, Owned
<1>1. /\ opNodes \subseteq Live /\ Owned \subseteq Live /\ toDelete \subseteq Live
      /\ \A k \in Live : node'[k].exp = node[k].exp
  BY DEF Kept, Ownership, SameExps
<1>2. CASE e \in DOMAIN cache
  <2>1. n = cache[e] /\ n \in opNodes
    BY <1>2 DEF OpNode, Kept, Tables
  <2>2. UNCHANGED <<opNodes, toDelete>>
    BY <1>1, <2>1 DEF OpNode
  <2>3. DOMAIN cache' = DOMAIN cache /\ \A f \in DOMAIN cache : cache'[f] = cache[f]
    BY <1>2, <2>1 DEF OpNode, With
  <2>4. Live' = Live
    BY <1>0, <1>1, <2>1
  <2>5. Tables'
    BY <1>0, <1>1, <2>2, <2>3, <2>4 DEF Kept, Tables
  <2>6. Ownership'
    BY <1>0, <2>2, <2>4 DEF Kept, Ownership
  <2> QED
    BY <2>5, <2>6
<1>3. CASE e \notin DOMAIN cache
  <2>1. n \notin Live
    BY <1>3 DEF OpNode, New
  <2>2. CASE Temporary
    <3>1. UNCHANGED <<cache, opNodes>> /\ toDelete' = toDelete \cup {n}
      BY <2>1, <2>2 DEF OpNode
    <3>2. Tables'
      BY <1>0, <1>1, <3>1 DEF Kept, Tables
    <3>3. Ownership'
      BY <1>0, <1>1, <2>1, <3>1 DEF Kept, Ownership
    <3> QED
      BY <3>2, <3>3
  <2>3. CASE ~Temporary
    <3>1. /\ opNodes' = opNodes \cup {n} /\ UNCHANGED toDelete
          /\ DOMAIN cache' = DOMAIN cache \cup {e} /\ cache'[e] = n
          /\ \A f \in DOMAIN cache : cache'[f] = cache[f]
      BY <1>3, <2>1, <2>3 DEF OpNode, With
    <3>2. Tables'
      <4>1. \A f \in DOMAIN cache' :
              f \in OpExp /\ cache'[f] \in opNodes' /\ node'[cache'[f]].exp = f
        BY <1>1, <3>1 DEF Kept, Tables
      <4>2. \A k \in opNodes' : node'[k].exp \in DOMAIN cache' /\ cache'[node'[k].exp] = k
        BY <1>1, <3>1 DEF Kept, Tables
      <4>3. \A f \in DOMAIN symb2node' :
              /\ f \in Symbol \cup BitSymbol
              /\ symb2node'[f] \in Live' /\ node'[symb2node'[f]].exp = f
        BY <1>0, <1>1 DEF Kept, Tables
      <4> QED
        BY <4>1, <4>2, <4>3 DEF Tables
    <3>3. Ownership'
      BY <1>0, <1>1, <2>1, <3>1 DEF Kept, Ownership
    <3> QED
      BY <3>2, <3>3
  <2> QED
    BY <2>2, <2>3
<1> QED
  BY <1>2, <1>3

(* The nodes and the tables once SymbNode has returned n.                  *)
LEMMA SymbNodeReturns ==
    ASSUME Kept, NEW n \in Address, NEW e \in Symbol \cup BitSymbol, SymbNode(n, e)
    PROVE  /\ n \in Live \/ New(n)
           /\ WellPointed(After(n, e, <<>>, n), Live \cup {n}, toDelete)
           /\ SameExps(node, After(n, e, <<>>, n), Live)
           /\ After(n, e, <<>>, n)[n].exp = e
           /\ n \notin toDelete
           /\ toDelete' = toDelete
<1> DEFINE nodes == After(n, e, <<>>, n)
<1>0. /\ e \in DOMAIN symb2node => n = symb2node[e] /\ n \in Owned /\ node[n].exp = e
      /\ Owned \subseteq Live /\ toDelete \subseteq Live /\ toDelete' = toDelete
  BY DEF SymbNode, Kept, Tables, Ownership, Owned
<1>1. n \in Live \/ New(n)
  BY <1>0 DEF SymbNode
<1>2. CASE e \in DOMAIN symb2node
  <2>1. nodes = node /\ Live \cup {n} = Live /\ n \notin toDelete
    BY <1>0, <1>2 DEF After, Kept, Ownership
  <2>2. WellPointed(nodes, Live \cup {n}, toDelete)
    BY <2>1 DEF Kept
  <2>3. SameExps(node, nodes, Live) /\ nodes[n].exp = e
    BY <1>0, <1>2, <2>1 DEF SameExps
  <2> HIDE DEF nodes
  <2>4. /\ WellPointed(nodes, Live \cup {n}, toDelete)
        /\ SameExps(node, nodes, Live) /\ nodes[n].exp = e
    BY <2>2, <2>3
  <2> QED
    BY <1>0, <1>1, <2>1, <2>4 DEF nodes
<1>3. CASE e \notin DOMAIN symb2node
  <2> DEFINE v == [exp |-> e, children |-> <<>>, simpEq |-> n,
                   simpEqUsbv |-> NULL, extractBit |-> NoBits]
  <2>0. n \notin Live
    BY <1>3 DEF SymbNode, New
  <2>1. nodes = [y \in Live \cup {n} |-> IF y = n THEN v ELSE node[y]]
    BY <2>0 DEF After, With, Live
  <2>2. v \in NodeRecord
    BY DEF NodeRecord, NoBits
  <2>3. node \in [Live -> NodeRecord]
    BY DEF Kept, WellPointed
  <2>4. /\ nodes \in [Live \cup {n} -> NodeRecord]
        /\ nodes[n] = v /\ \A k \in Live : nodes[k] = node[k]
    BY <2>0, <2>1, <2>2, <2>3
  <2>5. Pointers(v) \subseteq {n, NULL}
    BY DEF Pointers, NoBits
  <2>6. NULL \notin toDelete /\ n \notin toDelete
    BY <1>0, <2>0, NullIsNoAddress DEF Kept, Ownership
  <2>9. ASSUME NEW k \in Live \cup {n}
        PROVE  /\ Pointers(nodes[k]) \subseteq Live \cup {n} \cup {NULL}
               /\ k \notin toDelete => Pointers(nodes[k]) \cap toDelete = {}
               /\ nodes[k].simpEqUsbv # NULL => WideIn(nodes[nodes[k].simpEqUsbv].exp) = {}
    <3>1. CASE k = n
      BY <2>4, <2>5, <2>6, <3>1
    <3>2. CASE k \in Live
      <4>1. nodes[k] = node[k] /\ Pointers(node[k]) \subseteq Live \cup {NULL}
        BY <2>4, <3>2 DEF Kept, WellPointed
      <4>2. node[k].simpEqUsbv \in Live \cup {NULL}
        BY <4>1 DEF Pointers
      <4>3. node[k].simpEqUsbv # NULL => WideIn(nodes[node[k].simpEqUsbv].exp) = {}
        BY <2>4, <3>2, <4>2 DEF Kept, WellPointed
      <4> QED
        BY <3>2, <4>1, <4>3 DEF Kept, WellPointed
    <3> QED
      BY <3>1, <3>2
  <2>10. SameExps(node, nodes, Live)
    BY <2>4 DEF SameExps
  <2> QED
    BY <1>0, <1>1, <2>0, <2>4, <2>6, <2>9, <2>10 DEF WellPointed
<1> QED
  BY <1>2, <1>3

(* The node of a symbol is filed in the table of symbols.                  *)
LEMMA SymbNodeFiles ==
    ASSUME Kept, NEW n \in Address, NEW e \in Symbol \cup BitSymbol, SymbNode(n, e),
           DOMAIN node' = Live \cup {n}, SameExps(node, node', Live), node'[n].exp = e
    PROVE  Tables' /\ Ownership'
<1>0. Live' = Live \cup {n} /\ UNCHANGED <<cache, opNodes, toDelete>>
  BY DEF Live, SymbNode
<1>1. /\ opNodes \subseteq Live /\ Owned \subseteq Live /\ toDelete \subseteq Live
      /\ \A k \in Live : node'[k].exp = node[k].exp
  BY DEF Kept, Ownership, SameExps
<1>2. /\ DOMAIN symb2node' = DOMAIN symb2node \cup {e} /\ symb2node'[e] = n
      /\ \A f \in DOMAIN symb2node : symb2node'[f] = symb2node[f]
  BY DEF SymbNode, With
<1>3. Tables'
  <2>1. \A f \in DOMAIN cache' : f \in OpExp /\ cache'[f] \in opNodes' /\ node'[cache'[f]].exp = f
    BY <1>0, <1>1 DEF Kept, Tables
  <2>2. \A k \in opNodes' : node'[k].exp \in DOMAIN cache' /\ cache'[node'[k].exp] = k
    BY <1>0, <1>1 DEF Kept, Tables
  <2>3. ASSUME NEW f \in DOMAIN symb2node'
        PROVE  /\ f \in Symbol \cup BitSymbol
               /\ symb2node'[f] \in Live' /\ node'[symb2node'[f]].exp = f
    BY <1>0, <1>1, <1>2 DEF Kept, Tables
  <2> QED
    BY <2>1, <2>2, <2>3 DEF Tables
<1>4. Owned' = Owned \cup {n}
  BY <1>2 DEF Owned, SymbNode
<1>5. n \in Owned \/ n \notin Live
  BY DEF SymbNode, New, Owned
<1>6. Ownership'
  BY <1>0, <1>1, <1>4, <1>5 DEF Kept, Ownership
<1> QED
  BY <1>3, <1>6

-----------------------------------------------------------------------------
(* The steps.                                                              *)

(* What setSimpEqAndReturn notes keeps nodes well pointed.                 *)
LEMMA SimplifiedWellPointed ==
    ASSUME NEW L, L \subseteq Address, NEW nodes, WellPointed(nodes, L, toDelete'),
           NEW n \in L, NEW r \in L, NEW usbv \in BOOLEAN,
           usbv => WideIn(nodes[r].exp) = {},
           ~Temporary => toDelete' = {}
    PROVE  /\ WellPointed(Simplified(nodes, n, r, usbv), L, toDelete')
           /\ SameExps(nodes, Simplified(nodes, n, r, usbv), L)
<1> DEFINE known == IF ~CanCacheOnNode(n, r) THEN nodes
                    ELSE IF usbv THEN [nodes EXCEPT ![n].simpEqUsbv = r]
                    ELSE [nodes EXCEPT ![n].simpEq = r]
<1>1. WellPointed(known, L, toDelete') /\ SameExps(nodes, known, L)
  <2>1. CASE ~CanCacheOnNode(n, r)
    BY <2>1 DEF SameExps
  <2>2. CASE CanCacheOnNode(n, r) /\ usbv
    <3>1. n \notin toDelete' => r \notin toDelete'
      BY <2>2 DEF CanCacheOnNode
    <3> QED
      BY <2>2, <3>1, NoteSimpEqUsbv
  <2>3. CASE CanCacheOnNode(n, r) /\ ~usbv
    <3>1. n \notin toDelete' => r \notin toDelete'
      BY <2>3 DEF CanCacheOnNode
    <3> QED
      BY <2>3, <3>1, NoteSimpEq
  <2> QED
    BY <2>1, <2>2, <2>3
<1> HIDE DEF known
<1> DEFINE first == [known EXCEPT ![r].simpEq = r]
           second == [first EXCEPT ![r].simpEqUsbv = r]
<1>2. WellPointed(first, L, toDelete') /\ SameExps(known, first, L)
  BY <1>1, NoteSimpEq
<1>3. Simplified(nodes, n, r, usbv) = IF usbv THEN second ELSE first
  BY DEF Simplified, known
<1> HIDE DEF first
<1>4. usbv => WideIn(first[r].exp) = {}
  BY <1>1, <1>2 DEF SameExps
<1>5. usbv => WellPointed(second, L, toDelete') /\ SameExps(first, second, L)
  BY <1>2, <1>4, NoteSimpEqUsbv
<1> QED
  BY <1>1, <1>2, <1>3, <1>5 DEF SameExps

(* Declaring a symbol keeps the tables in order.                           *)
LEMMA DeclareSymbolKept ==
    ASSUME Kept, NEW e \in Symbol, DeclareSymbol(e)
    PROVE  Kept'
<1>1. PICK n \in Address : SymbNode(n, e) /\ node' = After(n, e, <<>>, n)
  BY DEF DeclareSymbol
<1>2. /\ n \in Live \/ New(n)
      /\ WellPointed(node', Live \cup {n}, toDelete')
      /\ SameExps(node, node', Live) /\ node'[n].exp = e
      /\ toDelete' = toDelete
  BY <1>1, SymbNodeReturns
<1>3. DOMAIN node' = Live \cup {n}
  BY <1>2 DEF WellPointed
<1>4. Tables' /\ Ownership'
  BY <1>1, <1>2, <1>3, SymbNodeFiles
<1>5. toDelete' \cap Live = toDelete /\ (~Temporary => toDelete' = {})
  BY <1>2 DEF Kept, Ownership, Verification
<1> QED
  BY <1>2, <1>4, <1>5, BuildingStep DEF DeclareSymbol

(* So does building an operation on nodes there are,                       *)
LEMMA BuildKept ==
    ASSUME Kept, NEW e \in OpExp, Build(e)
    PROVE  Kept'
<1>1. PICK kids \in [1 .. Len(Operands(e)) -> Live], n \in Address :
        OpNode(n, e) /\ node' = After(n, e, kids, NULL)
  BY DEF Build
<1>2. /\ n \in Live \/ New(n)
      /\ WellPointed(node', Live \cup {n}, toDelete')
      /\ SameExps(node, node', Live) /\ node'[n].exp = e
      /\ toDelete' \cap Live = toDelete /\ (~Temporary => toDelete' = {})
  BY <1>1, OpNodeReturns
<1>3. DOMAIN node' = Live \cup {n}
  BY <1>2 DEF WellPointed
<1>4. Tables' /\ Ownership'
  BY <1>1, <1>2, <1>3, OpNodeFiles
<1> QED
  BY <1>2, <1>4, BuildingStep DEF Build

(* extracting a bit of a node,                                             *)
LEMMA ExtractBitKept ==
    ASSUME Kept, NEW c \in Live, NEW i \in BitIndex, node[c].exp \in WideSymbol, ExtractBit(c, i)
    PROVE  Kept'
<1> DEFINE e == ExtractOf(node[c].exp, i)
<1>0. e \in OpExp /\ <<c>> \in [1 .. Len(Operands(e)) -> Live]
  <2>1. e \in OpExp /\ Operands(e) = <<node[c].exp>>
    BY ExpAssumption
  <2>2. 1 .. Len(Operands(e)) = {1}
    BY <2>1
  <2>3. <<c>> \in [{1} -> Live]
    OBVIOUS
  <2>4. QED
    BY <2>1, <2>2, <2>3
<1>1. PICK n \in Address :
        /\ OpNode(n, e)
        /\ node' = [After(n, e, <<c>>, NULL) EXCEPT
                       ![c].extractBit[i] = IF MayKeepBit(c, n) THEN n ELSE @]
  BY DEF ExtractBit
<1> DEFINE nodes == After(n, e, <<c>>, NULL)
           L == Live \cup {n}
<1>2. /\ n \in Live \/ New(n)
      /\ WellPointed(nodes, L, toDelete')
      /\ SameExps(node, nodes, Live) /\ nodes[n].exp = e
      /\ toDelete' \cap Live = toDelete /\ (~Temporary => toDelete' = {})
  BY <1>0, <1>1, OpNodeReturns
<1>3. L \subseteq Address
  BY DEF Kept, Ownership
<1>4. WellPointed(node', L, toDelete') /\ SameExps(nodes, node', L)
  <2> HIDE DEF nodes
  <2>1. CASE MayKeepBit(c, n)
    <3>1. c \notin toDelete' => n \notin toDelete'
      BY <1>2, <2>1 DEF MayKeepBit
    <3>2. node' = [nodes EXCEPT ![c].extractBit[i] = n]
      BY <1>1, <2>1 DEF nodes
    <3> QED
      BY <1>2, <1>3, <3>1, <3>2, NoteExtractBit
  <2>2. CASE ~MayKeepBit(c, n)
    <3>1. node' = [nodes EXCEPT ![c].extractBit[i] = @]
      BY <1>1, <2>2 DEF nodes
    <3>2. nodes \in [L -> NodeRecord]
      BY <1>2 DEF WellPointed
    <3>3. [nodes[c] EXCEPT !.extractBit[i] = @] = nodes[c]
      BY <3>2 DEF NodeRecord
    <3>4. node' = nodes
      BY <3>1, <3>2, <3>3
    <3> QED
      BY <1>2, <3>4 DEF SameExps
  <2> QED
    BY <2>1, <2>2
<1> HIDE DEF nodes
<1>5. SameExps(node, node', Live) /\ node'[n].exp = e /\ DOMAIN node' = L
  BY <1>2, <1>4 DEF SameExps, WellPointed
<1>6. Tables' /\ Ownership'
  BY <1>0, <1>1, <1>5, OpNodeFiles
<1> QED
  BY <1>2, <1>4, <1>5, <1>6, BuildingStep DEF ExtractBit

(* remembering what simplify has returned,                                 *)
LEMMA SimplifyKept ==
    ASSUME Kept, NEW n \in Live, NEW r \in Live, NEW usbv \in BOOLEAN, Simplify(n, r, usbv)
    PROVE  Kept'
<1>1. /\ Live \subseteq Address /\ Live \cup {n} = Live /\ toDelete \subseteq Live
      /\ UNCHANGED <<cache, symb2node, opNodes, toDelete>>
      /\ ~Temporary => toDelete' = {}
  BY DEF Simplify, Kept, Ownership, Verification
<1>2. WellPointed(node, Live, toDelete')
  BY <1>1 DEF Kept
<1>3. WellPointed(node', Live, toDelete') /\ SameExps(node, node', Live)
  BY <1>1, <1>2, SimplifiedWellPointed DEF Simplify
<1>4. Live' = Live
  BY <1>3 DEF WellPointed, Live
<1>5. Tables'
  BY <1>1, <1>3, <1>4 DEF Kept, Tables, SameExps, Ownership
<1>6. Ownership'
  BY <1>1, <1>4 DEF Kept, Ownership, Owned
<1> QED
  BY <1>1, <1>3, <1>5, <1>6, BuildingStep DEF Simplify

(* While nodes are temporary, no symbol is decomposed: a concrete          *)
(* evaluation meets only what was decomposed before.                       *)
LEMMA NoLateDecomposition ==
    ASSUME Kept, Safe, NEW s, MayDecomposeSymbol(s)
    PROVE  ~Temporary
BY DEF Kept, Safe, Verification, MayDecomposeSymbol, MayDecompose, Temporary

(* decomposing a node in bits,                                             *)
LEMMA DecomposeBitKept ==
    ASSUME Kept, NEW s \in WideSymbol, NEW i \in BitIndex, NEW x \in Live, DecomposeBit(s, i, x)
    PROVE  Kept'
<1> DEFINE e == BitOf(s, i)
<1>0. e \in BitSymbol
  BY DEF BitSymbol
<1>1. PICK n \in Address :
        SymbNode(n, e) /\ node' = [After(n, e, <<>>, n) EXCEPT ![x].simpEqUsbv = n]
  BY DEF DecomposeBit
<1> DEFINE nodes == After(n, e, <<>>, n)
           L == Live \cup {n}
<1>2. /\ n \in Live \/ New(n)
      /\ WellPointed(nodes, L, toDelete)
      /\ SameExps(node, nodes, Live) /\ nodes[n].exp = e
      /\ n \notin toDelete /\ toDelete' = toDelete
  BY <1>0, <1>1, SymbNodeReturns
<1> HIDE DEF nodes
<1>3. WideIn(nodes[n].exp) = {}
  BY <1>0, <1>2, WideInAssumption
<1>4. node' = [nodes EXCEPT ![x].simpEqUsbv = n] /\ L \subseteq Address
  BY <1>1 DEF nodes, Kept, Ownership
<1>5. WellPointed(node', L, toDelete') /\ SameExps(nodes, node', L)
  BY <1>2, <1>3, <1>4, NoteSimpEqUsbv
<1>6. SameExps(node, node', Live) /\ node'[n].exp = e /\ DOMAIN node' = L
  BY <1>2, <1>5 DEF SameExps, WellPointed
<1>7. Tables' /\ Ownership'
  BY <1>0, <1>1, <1>6, SymbNodeFiles
<1>8. toDelete' \cap Live = toDelete /\ (~Temporary => toDelete' = {})
  BY <1>2 DEF Kept, Ownership, Verification
<1> QED
  BY <1>2, <1>5, <1>6, <1>7, <1>8, BuildingStep DEF DecomposeBit

(* decomposing a symbol, when the nodes it needs last,                     *)
LEMMA DecomposeSymbolKept ==
    ASSUME Kept, Safe, NEW n \in Live, DecomposeSymbol(n)
    PROVE  Kept'
<1> DEFINE e == ConcatOf(node[n].exp)
<1>0. e \in OpExp /\ WideIn(e) = {} /\ ~Temporary
  BY ExpAssumption, WideInAssumption, NoLateDecomposition DEF DecomposeSymbol
<1>1. PICK kids \in [1 .. Len(Operands(e)) -> Live], r \in Address :
        /\ OpNode(r, e)
        /\ node' = Simplified([After(r, e, kids, NULL) EXCEPT ![n].simpEqUsbv = r], n, r, TRUE)
  BY DEF DecomposeSymbol
<1> DEFINE nodes == After(r, e, kids, NULL)
           noted == [nodes EXCEPT ![n].simpEqUsbv = r]
           L == Live \cup {r}
<1>2. /\ r \in Live \/ New(r)
      /\ WellPointed(nodes, L, toDelete')
      /\ SameExps(node, nodes, Live) /\ nodes[r].exp = e
      /\ toDelete' \cap Live = toDelete /\ (~Temporary => toDelete' = {})
  BY <1>0, <1>1, OpNodeReturns
<1>3. L \subseteq Address /\ n \in L /\ r \in L
  BY DEF Kept, Ownership
<1> HIDE DEF nodes
<1>4. WellPointed(noted, L, toDelete') /\ SameExps(nodes, noted, L)
  BY <1>0, <1>2, <1>3, NoteSimpEqUsbv
<1> HIDE DEF noted
<1>5. WideIn(noted[r].exp) = {}
  BY <1>0, <1>2, <1>3, <1>4 DEF SameExps
<1>6. node' = Simplified(noted, n, r, TRUE)
  BY <1>1 DEF noted, nodes
<1>7. WellPointed(node', L, toDelete') /\ SameExps(noted, node', L)
  BY <1>2, <1>3, <1>4, <1>5, <1>6, SimplifiedWellPointed
<1>8. SameExps(node, node', Live) /\ node'[r].exp = e /\ DOMAIN node' = L
  BY <1>2, <1>3, <1>4, <1>7 DEF SameExps, WellPointed
<1>9. Tables' /\ Ownership'
  BY <1>0, <1>1, <1>8, OpNodeFiles
<1> QED
  BY <1>2, <1>7, <1>8, <1>9, BuildingStep DEF DecomposeSymbol

(* starting a verification,                                                *)
LEMMA StartVerificationKept ==
    ASSUME Kept, NEW n \in Live, NEW c \in Calls, StartVerification(n, c)
    PROVE  Kept'
<1>1. UNCHANGED <<memoryStrategy, node, cache, symb2node, opNodes, toDelete>> /\ toDelete = {}
  BY DEF StartVerification, Kept, Verification, Temporary
<1>2. /\ modeTempNode' = TRUE /\ call' = c
      /\ root' = (IF c.bitDecompose THEN node[n].simpEqUsbv ELSE node[n].simpEq)
      /\ root' # NULL
  BY DEF StartVerification
<1>3. node[n].simpEq \in Live \cup {NULL} /\ node[n].simpEqUsbv \in Live \cup {NULL}
  BY DEF Kept, WellPointed, Pointers
<1>4. c.bitDecompose => WideIn(node[root'].exp) = {}
  BY <1>2 DEF Kept, WellPointed
<1>5. SafeCalls /\ c.noFalsePositive => c.bitDecompose
  BY DEF SafeCalls
<1>6. Verification'
  BY <1>1, <1>2, <1>3, <1>4, <1>5 DEF Verification, SafeCalls, Live
<1> QED
  BY <1>1, <1>6 DEF Kept, Tables, Ownership, Owned, Live

(* ending one, when the temporary nodes are deleted,                       *)
LEMMA EndVerificationKept ==
    ASSUME Kept, EndVerification
    PROVE  Kept'
<1>1. /\ Live' = Live \ toDelete /\ \A k \in Live \ toDelete : node'[k] = node[k]
      /\ node' = [k \in Live \ toDelete |-> node[k]]
      /\ toDelete' = {} /\ modeTempNode' = FALSE
      /\ UNCHANGED <<cache, symb2node, opNodes>>
  BY DEF EndVerification, Live
<1>2. opNodes \subseteq Live \ toDelete /\ Owned \subseteq Live \ toDelete /\ Owned' = Owned
  BY <1>1 DEF Kept, Ownership, Owned
<1>3. \A f \in DOMAIN symb2node : symb2node[f] \in Live \ toDelete
  BY <1>2 DEF Owned
<1>4. Tables'
  BY <1>1, <1>2, <1>3 DEF Kept, Tables
<1>5. Ownership'
  BY <1>1, <1>2 DEF Kept, Ownership
<1>6. WellPointed(node', Live', toDelete')
  <2>1. node' \in [Live \ toDelete -> NodeRecord]
    BY <1>1 DEF Kept, WellPointed
  <2>2. ASSUME NEW k \in Live \ toDelete
        PROVE  /\ Pointers(node'[k]) \subseteq (Live \ toDelete) \cup {NULL}
               /\ node'[k].simpEqUsbv # NULL => WideIn(node'[node'[k].simpEqUsbv].exp) = {}
    <3>1. Pointers(node[k]) \subseteq (Live \ toDelete) \cup {NULL}
      BY DEF Kept, WellPointed
    <3>2. node[k].simpEqUsbv \in (Live \ toDelete) \cup {NULL}
      BY <3>1 DEF Pointers
    <3> QED
      BY <1>1, <3>1, <3>2 DEF Kept, WellPointed
  <2> QED
    BY <1>1, <2>1, <2>2 DEF WellPointed
<1>7. Verification'
  BY <1>1 DEF Verification
<1> QED
  BY <1>4, <1>5, <1>6, <1>7 DEF Kept

(* and deleting everything.                                                *)
LEMMA CleanupKept ==
    ASSUME Kept, Cleanup
    PROVE  Kept'
<1>1. /\ Live' = {} /\ DOMAIN cache' = {} /\ DOMAIN symb2node' = {}
      /\ opNodes' = {} /\ toDelete' = {} /\ ~modeTempNode' /\ modeTempNode' \in BOOLEAN
  BY DEF Cleanup, Live, verification, Kept, Verification
<1>2. Owned' = {}
  BY <1>1 DEF Owned
<1>3. WellPointed(node', Live', toDelete')
  BY <1>1 DEF WellPointed, Cleanup
<1> QED
  BY <1>1, <1>2, <1>3 DEF Kept, Tables, Ownership, Verification

(* Every step keeps the invariant.                                         *)
LEMMA NextIInv == IInv /\ [Next]_vars => IInv'
<1> SUFFICES ASSUME IInv, [Next]_vars, Safe' PROVE Kept'
  BY DEF IInv
<1>1. UNCHANGED memoryStrategy
  BY DEF Next, DeclareSymbol, Build, ExtractBit, Simplify, DecomposeBit, DecomposeSymbol,
         StartVerification, EndVerification, Cleanup, verification, vars
<1>2. Safe /\ Kept
  BY <1>1 DEF IInv, Safe, SafeCalls
<1>3. CASE UNCHANGED vars
  BY <1>2, <1>3 DEF vars, Kept, Tables, Ownership, Owned, Verification, Temporary, Live
<1> QED
  BY <1>2, <1>3, DeclareSymbolKept, BuildKept, ExtractBitKept, SimplifyKept, DecomposeBitKept,
     DecomposeSymbolKept, StartVerificationKept, EndVerificationKept, CleanupKept
     DEF Next

(* The invariant holds whatever a program builds, simplifies, verifies and *)
(* cleans up.                                                              *)
THEOREM Invariance == Spec => []IInv
BY InitIInv, NextIInv, PTL DEF Spec

-----------------------------------------------------------------------------
(* No pointer to a deleted node is left behind by any sequence of          *)
(* verifications that decompose in bits what they evaluate concretely;     *)
(* with KEEP_NODES, by any at all.                                         *)
THEOREM NothingDangles == Spec => [](SafeCalls \/ memoryStrategy = "KEEP_NODES" => NoDangling)
<1>1. Kept => NoDangling
  <2> SUFFICES ASSUME Kept PROVE NoDangling
    OBVIOUS
  <2>1. \A e \in DOMAIN cache : cache[e] \in Live
    BY DEF Kept, Tables, Ownership
  <2> QED
    BY <2>1 DEF Kept, WellPointed, Tables, NoDangling
<1>2. IInv => (SafeCalls \/ memoryStrategy = "KEEP_NODES" => NoDangling)
  BY <1>1 DEF IInv, Safe
<1> QED
  BY <1>2, Invariance, PTL

(* Every node in memory is in exactly one of the tables that delete it,    *)
(* and the tables hold the expressions they are asked for.                 *)
THEOREM TypeCorrect == Spec => [](SafeCalls \/ memoryStrategy = "KEEP_NODES" => TypeOK)
<1>1. Kept => TypeOK
  BY DEF Kept, Tables, Ownership, WellPointed, TypeOK
<1>2. IInv => (SafeCalls \/ memoryStrategy = "KEEP_NODES" => TypeOK)
  BY <1>1 DEF IInv, Safe
<1> QED
  BY <1>2, Invariance, PTL

(* No expression has two lasting nodes, whatever was built while nodes     *)
(* were temporary and out of the cache.                                    *)
THEOREM OneNode == Spec => [](SafeCalls \/ memoryStrategy = "KEEP_NODES" => OneNodePerExpression)
<1>1. Kept => OneNodePerExpression
  <2> SUFFICES ASSUME Kept, NEW n \in Live \ toDelete, NEW m \in Live \ toDelete,
                      node[n].exp = node[m].exp
               PROVE  n = m
    BY DEF OneNodePerExpression
  <2>1. n \in Owned \cup opNodes /\ m \in Owned \cup opNodes
    BY DEF Kept, Ownership
  <2>2. \A k \in Owned : node[k].exp \in Symbol \cup BitSymbol /\ symb2node[node[k].exp] = k
    BY DEF Kept, Tables, Owned
  <2>3. \A k \in opNodes : node[k].exp \in OpExp /\ cache[node[k].exp] = k
    BY DEF Kept, Tables
  <2> QED
    BY <2>1, <2>2, <2>3, SymbolAssumption
<1>2. IInv => (SafeCalls \/ memoryStrategy = "KEEP_NODES" => OneNodePerExpression)
  BY <1>1 DEF IInv, Safe
<1> QED
  BY <1>2, Invariance, PTL
=============================================================================
