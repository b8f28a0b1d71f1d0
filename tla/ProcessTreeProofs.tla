------------------------- MODULE ProcessTreeProofs --------------------------
(***************************************************************************)
(* Proofs about ProcessTree, for any sets of nodes, states and searchers:  *)
(* the calls and climbs keep the invariant, and what follows from it.      *)
(***************************************************************************)
EXTENDS ProcessTree, Naturals, WellFoundedInduction, TLAPS

(* Parents come before children in some bounded numbering: the pointers of *)
(* the tree, spliced or not, never close a cycle.                          *)
Acyclic ==
  \E d \in [Node -> Nat], b \in Nat :
    \A n \in alive : d[n] <= b /\ (parent[n] # Nil => d[parent[n]] < d[n])

Inv == IInv /\ Acyclic

LEMMA LowestNode ==
  ASSUME NEW d \in [Node -> Nat], NEW S \in SUBSET Node, S # {}
  PROVE  \E x \in S : \A y \in S : ~(d[y] < d[x])
<1> DEFINE T == {d[x] : x \in S}
<1>1. T \subseteq Nat /\ T # {}
  OBVIOUS
<1>2. PICK m \in T : \A k \in T : ~(k < m)
  <2> HIDE DEF T
  <2>1. PICK m \in T : \A k \in T : <<k, m>> \notin OpToRel(<, Nat)
    BY Zenon, <1>1, NatLessThanWellFounded, WFMin
  <2> QED
    BY Zenon, <1>1, <2>1 DEF OpToRel
<1>3. PICK x \in S : d[x] = m
  BY <1>2
<1> QED
  BY <1>2, <1>3

(* A tree that has a node has its root. *)
LEMMA RootAlive == ASSUME Inv, alive # {} PROVE root \in alive
<1> USE PTreeAssumption DEF Inv, IInv, TypeOK
<1>1. PICK d \in [Node -> Nat] : \A x \in alive : parent[x] # Nil => d[parent[x]] < d[x]
  BY DEF Acyclic
<1>2. PICK x \in alive : \A y \in alive : ~(d[y] < d[x])
  BY LowestNode
<1> QED
  BY <1>1, <1>2 DEF PointersAgree

LEMMA InitInv == Init => Inv
<1> SUFFICES ASSUME Init PROVE Inv
  OBVIOUS
<1> USE PTreeAssumption DEF Init
<1>1. TypeOK
  BY DEF TypeOK, Loops
<1>2. PointersAgree
  BY Zenon DEF PointersAgree
<1>3. StatesAtLeaves
  BY Zenon DEF StatesAtLeaves, Childless, Live
<1>4. CursorOK
  BY DEF CursorOK
<1>5. TagsExact
  BY DEF TagsExact, Supports, Ours
<1>6. Acyclic
  <2> DEFINE z == [n \in Node |-> 0]
  <2>1. z \in [Node -> Nat] /\ 0 \in Nat
    OBVIOUS
  <2>2. \A n \in alive : z[n] <= 0 /\ parent[n] = Nil
    <3>1. \A n \in alive : n \in Node /\ parent[n] = Nil
      BY Zenon
    <3>2. \A n \in Node : z[n] = 0
      BY Zenon
    <3>3. \A n \in alive : z[n] = 0
      BY Zenon, <3>1, <3>2
    <3> HIDE DEF z, Init
    <3> QED
      BY <3>1, <3>3
  <2> HIDE DEF z
  <2> QED
    BY <2>1, <2>2 DEF Acyclic
<1>7. Compressed /\ RootClear
  BY DEF Compressed, RootClear
<1> QED
  BY <1>1, <1>2, <1>3, <1>4, <1>5, <1>6, <1>7 DEF Inv, IInv

(* Every action keeps the invariant.  Calls that only start a loop. *)
LEMMA UpdateAddInv ==
  ASSUME Inv, NEW r \in Searcher, NEW es \in State, updateAdd(r, es)
  PROVE  Inv'
<1> USE PTreeAssumption DEF Inv, IInv, TypeOK, updateAdd, Enter, Idle, ptr
<1>1. TypeOK'
  BY DEF Loops, Live
<1>2. PointersAgree' /\ Acyclic'
  BY DEF PointersAgree, Acyclic
<1>3. StatesAtLeaves'
  BY DEF StatesAtLeaves, Live, Childless
<1>4. CursorOK'
  BY DEF CursorOK, StatesAtLeaves, Supports, Live
<1>5. TagsExact'
  BY DEF TagsExact, StatesAtLeaves, Supports, Ours, Live
<1>6. Compressed' /\ RootClear'
  BY DEF Compressed, RootClear
<1> QED
  BY <1>1, <1>2, <1>3, <1>4, <1>5, <1>6

LEMMA UpdateRemoveInv ==
  ASSUME Inv, NEW r \in Searcher, NEW es \in State, updateRemove(r, es)
  PROVE  Inv'
<1> USE PTreeAssumption DEF Inv, IInv, TypeOK, updateRemove, Enter, Idle, ptr
<1>1. TypeOK'
  BY DEF Loops, Live
<1>2. PointersAgree' /\ Acyclic'
  BY DEF PointersAgree, Acyclic
<1>3. StatesAtLeaves'
  BY DEF StatesAtLeaves, Live, Childless
<1>4. CursorOK'
  BY DEF CursorOK, StatesAtLeaves, TagsExact, Supports, Live
<1>5. TagsExact'
  BY DEF TagsExact, StatesAtLeaves, Supports, Ours, Live
<1>6. Compressed' /\ RootClear'
  BY DEF Compressed, RootClear
<1> QED
  BY <1>1, <1>2, <1>3, <1>4, <1>5, <1>6

LEMMA RemoveInv ==
  ASSUME Inv, NEW es \in State, remove(es)
  PROVE  Inv'
<1> USE PTreeAssumption DEF Inv, IInv, TypeOK, remove, Enter, Idle, ptr
<1>1. TypeOK'
  BY DEF Loops, Live
<1>2. PointersAgree' /\ Acyclic'
  BY DEF PointersAgree, Acyclic
<1>3. StatesAtLeaves'
  BY DEF StatesAtLeaves, Live, Childless
<1>4. CursorOK'
  BY DEF CursorOK, StatesAtLeaves, Live, Childless
<1>5. TagsExact'
  BY DEF TagsExact, StatesAtLeaves, Supports, Ours, Live
<1>6. Compressed' /\ RootClear'
  BY DEF Compressed, RootClear
<1> QED
  BY <1>1, <1>2, <1>3, <1>4, <1>5, <1>6

(* The steps of the climbs. *)
LEMMA MarkInv == ASSUME Inv, markStep PROVE Inv'
<1> USE PTreeAssumption DEF Inv, IInv, TypeOK, markStep, Enter, Finish, ptr
<1>1. TypeOK'
  BY DEF Loops, CursorOK
<1>2. PointersAgree' /\ Acyclic'
  BY DEF PointersAgree, Acyclic
<1>3. StatesAtLeaves'
  BY DEF StatesAtLeaves, Live, Childless
<1>4. CursorOK'
  BY DEF CursorOK, PointersAgree, Supports, Ours
<1>5. TagsExact'
  BY DEF TagsExact, CursorOK, PointersAgree, Supports, Ours
<1>6. Compressed' /\ RootClear'
  BY DEF Compressed, RootClear, CursorOK
<1> QED
  BY <1>1, <1>2, <1>3, <1>4, <1>5, <1>6

LEMMA ClearInv == ASSUME Inv, clearStep PROVE Inv'
<1> USE PTreeAssumption DEF Inv, IInv, TypeOK, clearStep, Enter, Finish, ptr
<1>1. TypeOK'
  BY DEF Loops, CursorOK, clearing
<1>2. PointersAgree' /\ Acyclic'
  BY DEF PointersAgree, Acyclic
<1>3. StatesAtLeaves'
  BY DEF StatesAtLeaves, Live, Childless
<1>4. at # Nil => parent[at] # at
  BY DEF Acyclic, CursorOK
<1>5. CursorOK'
  BY <1>4 DEF CursorOK, PointersAgree, StatesAtLeaves, Childless, TagsExact, Supports, Ours, clearing
<1>6. TagsExact'
  BY <1>4 DEF TagsExact, CursorOK, PointersAgree, Supports, Ours, clearing
<1>7. Compressed' /\ RootClear'
  BY DEF Compressed, RootClear, CursorOK, clearing
<1> QED
  BY <1>1, <1>2, <1>3, <1>5, <1>6, <1>7

LEMMA UnlinkInv == ASSUME Inv, unlinkStep PROVE Inv'
<1> USE PTreeAssumption DEF Inv, IInv, TypeOK, unlinkStep, Enter, Finish
<1>1. at \in alive /\ holder[at] = Nil /\ left[at] = Nil /\ right[at] = Nil
  BY DEF CursorOK, Childless
<1>2. tag[at] = {}
  BY <1>1 DEF TagsExact, Supports, Ours, StatesAtLeaves, Live
<1>3. parent[at] # at
  BY <1>1 DEF Acyclic
<1>4. CASE parent[at] = Nil
  <2> USE <1>4
  <2>1. TypeOK'
    BY Zenon DEF Loops
  <2>2. PointersAgree'
    BY <1>1 DEF PointersAgree
  <2>3. StatesAtLeaves'
    BY <1>1 DEF StatesAtLeaves, Live, Childless
  <2>4. CursorOK'
    BY DEF CursorOK
  <2>5. TagsExact'
    BY <1>1 DEF TagsExact, Supports, Ours
  <2>6. Acyclic'
    BY <1>1 DEF Acyclic, PointersAgree
  <2>7. Compressed' /\ RootClear'
    BY <1>1, <1>2 DEF Compressed, RootClear, PointersAgree
  <2> QED
    BY <2>1, <2>2, <2>3, <2>4, <2>5, <2>6, <2>7
<1>5. CASE parent[at] # Nil
  <2> USE <1>5
  <2> DEFINE p == parent[at]
  <2>1. p \in alive /\ p # at /\ holder[p] = Nil /\ at \in {left[p], right[p]}
    BY <1>1, <1>3 DEF PointersAgree, StatesAtLeaves, Childless
  <2>2. TypeOK'
    BY <1>1, <2>1 DEF Loops
  <2>3. PointersAgree'
    BY <1>1, <2>1 DEF PointersAgree
  <2>4. StatesAtLeaves'
    BY <1>1, <2>1 DEF StatesAtLeaves, Live, Childless, PointersAgree
  <2>5. CursorOK'
    BY <1>1, <2>1 DEF CursorOK, Childless, PointersAgree
  <2>6. TagsExact'
    BY <1>1, <1>2, <2>1 DEF TagsExact, Supports, Ours, PointersAgree
  <2>7. Acyclic'
    BY <1>1, <2>1 DEF Acyclic, PointersAgree
  <2>8. Compressed'
    BY <1>1, <2>1 DEF Compressed, PointersAgree
  <2>9. RootClear'
    BY <1>1, <2>1 DEF RootClear, PointersAgree
  <2> QED
    BY <2>2, <2>3, <2>4, <2>5, <2>6, <2>7, <2>8, <2>9
<1> QED
  BY <1>4, <1>5

LEMMA SpliceInv == ASSUME Inv, spliceStep PROVE Inv'
<1> USE PTreeAssumption DEF Inv, IInv, TypeOK
<1> DEFINE n == at
           p == parent[at]
           child == IF left[n] # Nil THEN left[n] ELSE right[n]
<1>1. /\ n \in alive /\ holder[n] = Nil /\ child \in alive /\ parent[child] = n
      /\ \/ left[n] = child /\ right[n] = Nil
         \/ left[n] = Nil /\ right[n] = child
      /\ child # Nil
  BY DEF CursorOK, PointersAgree, spliceStep
<1>2. PICK d \in [Node -> Nat], b \in Nat :
         \A x \in alive : d[x] <= b /\ (parent[x] # Nil => d[parent[x]] < d[x])
  BY DEF Acyclic
<1>3. p # n /\ child # n /\ child # p
  BY <1>1, <1>2 DEF PointersAgree
<1>4. p # Nil => p \in alive /\ n \in {left[p], right[p]} /\ left[p] # right[p]
  BY <1>1 DEF PointersAgree
<1>5. /\ alive' = alive \ {n}
      /\ parent' = [parent EXCEPT ![child] = p, ![n] = Nil]
      /\ root' = IF p = Nil THEN child ELSE root
      /\ left' = [left EXCEPT ![n] = Nil, ![p] = IF left[p] = n THEN child ELSE left[p]]
      /\ right' = [right EXCEPT ![n] = Nil, ![p] = IF right[p] = n THEN child ELSE right[p]]
      /\ tag' = [tag EXCEPT ![n] = {}]
      /\ loop' = "idle" /\ who' = Nil /\ at' = Nil
      /\ holder' = holder /\ ptreeNode' = ptreeNode /\ owned' = owned
  BY <1>3 DEF spliceStep, Finish, Enter
<1> HIDE DEF n, p, child
<1>6. p \in Node \cup {Nil} /\ n \in Node /\ child \in Node /\ p = parent[n]
  BY <1>1, <1>4 DEF p, n
<1>7. TypeOK'
  BY Zenon, <1>5, <1>6 DEF Loops
<1>8. \A y \in alive \ {n} :
        /\ parent'[y] = IF y = child THEN p ELSE parent[y]
        /\ left'[y] = IF left[y] = n THEN child ELSE left[y]
        /\ right'[y] = IF right[y] = n THEN child ELSE right[y]
        /\ tag'[y] = tag[y]
  <2> SUFFICES ASSUME NEW y \in alive, y # n
               PROVE  /\ parent'[y] = IF y = child THEN p ELSE parent[y]
                      /\ left'[y] = IF left[y] = n THEN child ELSE left[y]
                      /\ right'[y] = IF right[y] = n THEN child ELSE right[y]
                      /\ tag'[y] = tag[y]
    OBVIOUS
  <2>1. y \in Node /\ (left[y] = n => y = p) /\ (right[y] = n => y = p)
    BY <1>6 DEF PointersAgree
  <2>2. parent'[y] = IF y = child THEN p ELSE parent[y]
    BY <1>5, <1>6, <2>1
  <2>3. left'[y] = IF left[y] = n THEN child ELSE left[y]
    BY <1>5, <1>6, <2>1
  <2>4. right'[y] = IF right[y] = n THEN child ELSE right[y]
    BY <1>5, <1>6, <2>1
  <2> QED
    BY <1>5, <1>6, <2>1, <2>2, <2>3, <2>4
<1>9. /\ alive' = alive \ {n} /\ root' = (IF p = Nil THEN child ELSE root)
      /\ holder' = holder /\ owned' = owned /\ ptreeNode' = ptreeNode
      /\ loop' = "idle" /\ at' = Nil /\ loop = "splice"
  BY <1>5 DEF spliceStep
<1>10. PointersAgree'
  <2> SUFFICES ASSUME NEW x \in alive, x # n
               PROVE  /\ left'[x] # Nil => left'[x] \in alive' /\ parent'[left'[x]] = x /\ left'[x] # right'[x]
                      /\ right'[x] # Nil => right'[x] \in alive' /\ parent'[right'[x]] = x
                      /\ parent'[x] # Nil => parent'[x] \in alive' /\ x \in {left'[parent'[x]], right'[parent'[x]]}
                      /\ (parent'[x] = Nil) = (x = root')
    BY <1>9 DEF PointersAgree
  <2>1. left'[x] # Nil => left'[x] \in alive' /\ parent'[left'[x]] = x /\ left'[x] # right'[x]
    BY <1>1, <1>3, <1>6, <1>8, <1>9 DEF PointersAgree
  <2>2. right'[x] # Nil => right'[x] \in alive' /\ parent'[right'[x]] = x
    BY <1>1, <1>3, <1>6, <1>8, <1>9 DEF PointersAgree
  <2>3. parent'[x] # Nil => parent'[x] \in alive' /\ x \in {left'[parent'[x]], right'[parent'[x]]}
    <3>1. CASE x = child
      <4>1. parent'[x] = p
        BY <1>1, <1>8, <3>1
      <4>2. p # Nil => x \in {left'[p], right'[p]}
        BY <1>3, <1>4, <1>8, <3>1
      <4> QED
        BY <1>3, <1>4, <1>9, <4>1, <4>2
    <3>2. CASE x # child
      <4>1. parent'[x] = parent[x] /\ parent[x] # n
        BY <1>1, <1>8, <3>2 DEF PointersAgree
      <4> QED
        BY <1>8, <1>9, <4>1 DEF PointersAgree
    <3> QED
      BY <3>1, <3>2
  <2>4. (parent'[x] = Nil) = (x = root')
    BY <1>1, <1>3, <1>6, <1>8, <1>9 DEF PointersAgree
  <2> QED
    BY <2>1, <2>2, <2>3, <2>4
<1>11. StatesAtLeaves'
  BY <1>1, <1>6, <1>8, <1>9 DEF StatesAtLeaves, Live, Childless
<1>12. CursorOK'
  BY <1>9 DEF CursorOK
<1>13. TagsExact'
  <2> SUFFICES ASSUME NEW x \in alive, x # n, NEW r \in Searcher
               PROVE  r \in tag'[x] <=> Supports(r, x)'
    BY <1>9 DEF TagsExact
  <2>1. \A y \in alive : r \in tag[y] <=> Supports(r, y)
    BY <1>9 DEF TagsExact
  <2>2. Nil \notin owned[r]
    OBVIOUS
  <2>3. r \in tag[n] <=> r \in tag[child]
    BY <1>1, <2>1, <2>2 DEF Supports, Ours
  <2>4. \A c \in {left[x], right[x]} : c # Nil => c \in alive
    BY DEF PointersAgree
  <2> QED
    BY <1>1, <1>3, <1>6, <1>8, <1>9, <2>1, <2>3, <2>4 DEF Supports, Ours
<1>14. Acyclic'
  <2>1. \A x \in alive' : parent'[x] # Nil => d[parent'[x]] < d[x]
    <3> SUFFICES ASSUME NEW x \in alive, x # n, parent'[x] # Nil
                 PROVE  d[parent'[x]] < d[x]
      BY <1>9
    <3>1. CASE x = child
      <4>1. d[n] < d[child] /\ d[p] < d[n]
        BY <1>1, <1>2, <1>6, <1>8, <3>1
      <4> QED
        BY <4>1, <1>6, <1>8, <3>1
    <3>2. CASE x # child
      BY <1>2, <1>8, <3>2
    <3> QED
      BY <3>1, <3>2
  <2>2. \A x \in alive' : d[x] <= b
    BY <1>2, <1>9
  <2> QED
    BY <2>1, <2>2 DEF Acyclic
<1>15. Compressed'
  BY <1>1, <1>6, <1>8, <1>9 DEF Compressed
<1>16. RootClear'
  <2>1. root \in alive
    BY <1>1, RootAlive
  <2>2. p # Nil => root # n
    BY <1>1, <2>1 DEF PointersAgree, p, n
  <2> QED
    BY <1>1, <1>3, <1>9, <2>1, <2>2 DEF RootClear
<1> QED
  BY <1>7, <1>10, <1>11, <1>12, <1>13, <1>14, <1>15, <1>16

LEMMA AttachInv ==
  ASSUME Inv, NEW es \in State, NEW new \in State, NEW l \in Node, NEW r \in Node,
         attach(es, new, l, r)
  PROVE  Inv'
<1> USE PTreeAssumption DEF Inv, IInv, TypeOK, attach, Idle
<1> DEFINE node == ptreeNode[es]
<1>1. /\ node \in alive /\ holder[node] = es /\ left[node] = Nil /\ right[node] = Nil
      /\ l \notin alive /\ r \notin alive /\ l # r /\ new # es
  BY DEF StatesAtLeaves, Live, Childless
<1>2. TypeOK'
  BY <1>1 DEF TagOnAttach, Loops
<1>3. PointersAgree'
  <2> SUFFICES ASSUME NEW x \in alive'
               PROVE  /\ left'[x] # Nil => left'[x] \in alive' /\ parent'[left'[x]] = x /\ left'[x] # right'[x]
                      /\ right'[x] # Nil => right'[x] \in alive' /\ parent'[right'[x]] = x
                      /\ parent'[x] # Nil => parent'[x] \in alive' /\ x \in {left'[parent'[x]], right'[parent'[x]]}
                      /\ (parent'[x] = Nil) = (x = root')
    BY DEF PointersAgree
  <2>1. CASE x = node
    BY <1>1, <2>1 DEF PointersAgree
  <2>2. CASE x \in {l, r}
    <3>1. left'[x] = Nil /\ right'[x] = Nil /\ parent'[x] = node /\ node \in alive'
      BY <1>1, <2>2
    <3>2. left'[node] = l /\ right'[node] = r
      BY <1>1
    <3>3. x # root' /\ node # Nil
      BY <1>1, <2>2, RootAlive
    <3> QED
      BY <2>2, <3>1, <3>2, <3>3
  <2>3. CASE x \in alive \ {node}
    BY <1>1, <2>3 DEF PointersAgree
  <2> QED
    BY <2>1, <2>2, <2>3
<1>4. StatesAtLeaves'
  BY <1>1 DEF StatesAtLeaves, Live, Childless
<1>5. CursorOK'
  BY DEF CursorOK
<1>6. TagsExact'
  <2>1. \A q \in Searcher : q \in tag[node] <=> es \in owned[q]
    BY <1>1 DEF TagsExact, Supports, Ours
  <2>2. \A q \in Searcher : new \notin owned[q]
    BY DEF StatesAtLeaves
  <2> QED
    BY <1>1, <2>1, <2>2 DEF TagsExact, Supports, Ours, TagOnAttach, PointersAgree
<1>7. Acyclic'
  <2>1. PICK d \in [Node -> Nat], b \in Nat :
           \A x \in alive : d[x] <= b /\ (parent[x] # Nil => d[parent[x]] < d[x])
    BY DEF Acyclic
  <2> DEFINE e == [x \in Node |-> IF x \in {l, r} THEN d[node] + 1 ELSE d[x]]
  <2>2. e \in [Node -> Nat]
    <3> node \in Node
      BY <1>1
    <3> HIDE DEF node
    <3>1. \A x \in Node : (IF x \in {l, r} THEN d[node] + 1 ELSE d[x]) \in Nat
      <4>1. d[node] + 1 \in Nat
        <5>1. d[node] \in Nat
          BY Zenon
        <5> QED
          BY <5>1
      <4> QED
        BY Zenon, <4>1
    <3> QED
      BY <3>1
  <2>3. \A x \in alive' : parent'[x] # Nil => e[parent'[x]] < e[x]
    <3> SUFFICES ASSUME NEW x \in alive', parent'[x] # Nil
                 PROVE  e[parent'[x]] < e[x]
      BY Zenon
    <3>1. CASE x \in {l, r}
      <4>1. parent'[x] = node
        BY <1>1, <3>1
      <4>2. d[node] \in Nat /\ node \in Node /\ x \in Node /\ node \notin {l, r}
        BY Zenon, <1>1, <3>1
      <4>3. e[node] = d[node] /\ e[x] = d[node] + 1
        BY <3>1, <4>2
      <4> QED
        BY <4>1, <4>2, <4>3
    <3>2. CASE x \in alive
      <4>1. parent'[x] = parent[x] /\ parent[x] \in alive
        BY <1>1, <3>2 DEF PointersAgree
      <4>2. e[x] = d[x] /\ e[parent[x]] = d[parent[x]]
        BY <1>1, <3>2, <4>1
      <4> QED
        BY <2>1, <3>2, <4>1, <4>2
    <3> QED
      BY <3>1, <3>2
  <2>4. \A x \in alive' : e[x] <= b + 1
    <3> SUFFICES ASSUME NEW x \in alive' PROVE e[x] <= b + 1
      BY Zenon
    <3>1. CASE x \in {l, r}
      <4>1. d[node] \in Nat /\ d[node] <= b
        BY <1>1, <2>1
      <4>2. e[x] = d[node] + 1
        BY <3>1
      <4> QED
        BY <4>1, <4>2
    <3>2. CASE x \in alive
      <4>1. e[x] = d[x]
        BY <1>1, <3>2
      <4>2. d[x] \in Nat /\ d[x] <= b
        BY <2>1, <3>2
      <4> QED
        BY <4>1, <4>2
    <3> QED
      BY <3>1, <3>2
  <2>5. b + 1 \in Nat
    OBVIOUS
  <2> HIDE DEF e
  <2> QED
    BY Zenon, <2>2, <2>3, <2>4, <2>5 DEF Acyclic
<1>8. Compressed'
  BY <1>1 DEF Compressed
<1>9. RootClear'
  BY <1>1, RootAlive DEF RootClear
<1> QED
  BY <1>2, <1>3, <1>4, <1>5, <1>6, <1>7, <1>8, <1>9

(* A bit that is set anywhere is set on the root pointer. *)
LEMMA BitReachesRoot ==
  ASSUME Inv, loop = "idle", NEW r \in Searcher, owned[r] # {}
  PROVE  root \in alive /\ r \in tag[root]
<1> USE PTreeAssumption DEF Inv, IInv, TypeOK
<1>1. PICK d \in [Node -> Nat] : \A x \in alive : parent[x] # Nil => d[parent[x]] < d[x]
  BY DEF Acyclic
<1> DEFINE T == {y \in alive : r \in tag[y]}
<1>2. T \in SUBSET Node /\ T # {}
  <2>1. PICK s \in State : s \in owned[r] /\ ptreeNode[s] # Nil
    BY DEF StatesAtLeaves, Live
  <2>2. ptreeNode[s] \in T
    BY <2>1 DEF StatesAtLeaves, TagsExact, Supports
  <2> QED
    BY <2>2
<1>3. PICK x \in T : \A y \in T : ~(d[y] < d[x])
  <2> HIDE DEF T
  <2> QED
    BY <1>2, LowestNode
<1>4. x \in alive /\ r \in tag[x]
  BY <1>3
<1>5. parent[x] = Nil
  <2> SUFFICES ASSUME parent[x] # Nil PROVE FALSE
    OBVIOUS
  <2>1. parent[x] \in alive /\ r \in tag[parent[x]]
    BY <1>4 DEF PointersAgree, TagsExact, Supports, Ours
  <2> QED
    BY <1>1, <1>3, <1>4, <2>1
<1> QED
  BY <1>4, <1>5 DEF PointersAgree

LEMMA SelectInv == ASSUME Inv, NEW r \in Searcher, selectState(r) PROVE Inv'
<1> USE PTreeAssumption DEF Inv, IInv, TypeOK, selectState, Enter, Idle, ptr
<1>1. root \in alive /\ r \in tag[root]
  BY BitReachesRoot
<1>2. TypeOK' /\ PointersAgree' /\ Acyclic'
  BY DEF Loops, PointersAgree, Acyclic
<1>3. StatesAtLeaves'
  BY DEF StatesAtLeaves, Live, Childless
<1>4. CursorOK'
  BY <1>1 DEF CursorOK
<1>5. TagsExact'
  BY DEF TagsExact, Supports, Ours
<1>6. Compressed' /\ RootClear'
  BY DEF Compressed, RootClear
<1> QED
  BY <1>2, <1>3, <1>4, <1>5, <1>6

LEMMA WalkInv == ASSUME Inv, walkStep PROVE Inv'
<1> USE PTreeAssumption DEF Inv, IInv, TypeOK, walkStep, Enter, Finish, ptr
<1>1. TypeOK' /\ PointersAgree' /\ Acyclic'
  <2>1. TypeOK'
    BY DEF Loops, CursorOK, Ours
  <2> QED
    BY <2>1 DEF PointersAgree, Acyclic
<1>2. StatesAtLeaves'
  BY DEF StatesAtLeaves, Live, Childless
<1>3. CursorOK'
  BY DEF CursorOK, Ours, PointersAgree
<1>4. TagsExact'
  BY DEF TagsExact, Supports, Ours
<1>5. Compressed' /\ RootClear'
  BY DEF Compressed, RootClear
<1> QED
  BY <1>1, <1>2, <1>3, <1>4, <1>5
-----------------------------------------------------------------------------
LEMMA NextInv == Inv /\ [Next]_vars => Inv'
<1> SUFFICES ASSUME Inv, [Next]_vars PROVE Inv'
  OBVIOUS
<1>1. CASE Steps
  BY <1>1, UnlinkInv, SpliceInv, MarkInv, ClearInv, WalkInv DEF Steps
<1>2. CASE Calls
  BY <1>2, AttachInv, RemoveInv, UpdateAddInv, UpdateRemoveInv, SelectInv DEF Calls
<1>3. CASE UNCHANGED vars
  <2>1. Inv /\ UNCHANGED vars => TypeOK' /\ PointersAgree' /\ Acyclic'
    BY SMTT(40) DEF vars, ptr, Inv, IInv, TypeOK, PointersAgree, Acyclic
  <2>2. Inv /\ UNCHANGED vars => StatesAtLeaves'
    BY DEF vars, ptr, Inv, IInv, StatesAtLeaves, Live, Childless
  <2>3. Inv /\ UNCHANGED vars => CursorOK'
    BY DEF vars, ptr, Inv, IInv, CursorOK, Supports, Ours, Childless
  <2>4. Inv /\ UNCHANGED vars => TagsExact'
    BY DEF vars, ptr, Inv, IInv, TagsExact, Supports, Ours
  <2>5. Inv /\ UNCHANGED vars => Compressed' /\ RootClear'
    BY DEF vars, ptr, Inv, IInv, Compressed, RootClear
  <2> QED BY <1>3, <2>1, <2>2, <2>3, <2>4, <2>5 DEF Inv, IInv
<1> QED
  BY <1>1, <1>2, <1>3 DEF Next

(* The inductive invariant holds in every reachable state of the tree and  *)
(* its searchers (PTree::attach, remove; RandomPathSearcher).              *)
THEOREM InvHolds == Spec => []Inv
  BY InitInv, NextInv, PTL DEF Spec

(* For any number of nodes, states and searchers, no assertion of          *)
(* PTree::remove, RandomPathSearcher::update or selectState can fail.      *)
THEOREM AssertionsNeverFail == Spec => []AssertsHold
<1>1. Inv => AssertsHold
  BY PTreeAssumption DEF Inv, IInv, TypeOK, CursorOK, AssertsHold, TagsExact, Supports, StatesAtLeaves, Live, clearing
<1> QED
  BY <1>1, InvHolds, PTL

(* For any number of nodes, states and searchers, selectState returns a    *)
(* state that its own searcher was given and has not been asked to drop.   *)
THEOREM SelectionIsOwned == Spec => []SelectReturnsOwned
<1>1. Inv => SelectReturnsOwned
  BY PTreeAssumption DEF Inv, IInv, TypeOK, CursorOK, SelectReturnsOwned, TagsExact, Supports, Ours, StatesAtLeaves, Childless
<1> QED
  BY <1>1, InvHolds, PTL
-----------------------------------------------------------------------------
(* UpFrom(n) has n, has the parent of every node it has, and is within     *)
(* every set of nodes of which that is true.                               *)
LEMMA UpFromClosure ==
  ASSUME TypeOK, NEW n \in Node
  PROVE  /\ UpFrom(n) \subseteq Node /\ n \in UpFrom(n)
         /\ \A m \in UpFrom(n) : parent[m] # Nil => parent[m] \in UpFrom(n)
         /\ \A S \in SUBSET Node :
              n \in S /\ (\A m \in S : parent[m] \in S \cup {Nil}) => UpFrom(n) \subseteq S
<1> USE PTreeAssumption DEF TypeOK
<1>1. n # Nil
  OBVIOUS
<1>2. ASSUME NEW m \in UpFrom(n), parent[m] # Nil PROVE parent[m] \in UpFrom(n)
  <2>1. m \in Node /\ parent[m] \in Node
    BY <1>2 DEF UpFrom
  <2>2. ASSUME NEW S \in Upward, n \in S PROVE parent[m] \in S
    BY <1>2, <2>2 DEF UpFrom, Upward
  <2> QED
    BY <1>1, <2>1, <2>2 DEF UpFrom
<1> QED
  BY <1>1, <1>2 DEF UpFrom, Upward

LEMMA UpFromTransitive ==
  ASSUME TypeOK, NEW c \in Node, NEW m \in UpFrom(c) PROVE UpFrom(m) \subseteq UpFrom(c)
<1>1. /\ UpFrom(c) \subseteq Node
      /\ \A x \in UpFrom(c) : parent[x] \in UpFrom(c) \cup {Nil}
  BY UpFromClosure
<1>2. m \in Node
  BY <1>1
<1> QED
  BY <1>1, <1>2, UpFromClosure

(* Every climb from a node of the tree comes to the root. *)
LEMMA RootAbove == ASSUME Inv, NEW n \in alive PROVE root \in UpFrom(n)
<1> USE DEF Inv, IInv
<1>1. PICK d \in [Node -> Nat] : \A x \in alive : parent[x] # Nil => d[parent[x]] < d[x]
  BY DEF Acyclic
<1> DEFINE T == UpFrom(n) \cap alive
<1>2. n \in Node /\ n \in T /\ T \in SUBSET Node
  BY UpFromClosure DEF TypeOK
<1>3. PICK x \in T : \A y \in T : ~(d[y] < d[x])
  <2> HIDE DEF T
  <2> QED
    BY <1>2, LowestNode
<1>4. parent[x] # Nil => parent[x] \in T /\ d[parent[x]] < d[x]
  BY <1>1, <1>2, UpFromClosure DEF PointersAgree
<1> QED
  BY <1>3, <1>4 DEF PointersAgree

LEMMA HighestNode ==
  ASSUME NEW d \in [Node -> Nat], NEW b \in Nat, NEW S \in SUBSET Node, S # {},
         \A x \in S : d[x] <= b
  PROVE  \E x \in S : \A y \in S : ~(d[x] < d[y])
<1> DEFINE e == [x \in Node |-> IF x \in S THEN b - d[x] ELSE 0]
<1>1. \A x \in S : e[x] = b - d[x]
  OBVIOUS
<1>2. e \in [Node -> Nat]
  OBVIOUS
<1> HIDE DEF e
<1>3. PICK x \in S : \A y \in S : ~(e[y] < e[x])
  BY <1>2, LowestNode
<1> QED
  BY <1>1, <1>3

(* A bit leads down to one of its searcher's states ... *)
LEMMA TagHasOwner ==
  ASSUME Inv, loop = "idle", NEW r \in Searcher, NEW n \in alive, r \in tag[n]
  PROVE  \E s \in owned[r] : n \in UpFrom(ptreeNode[s])
<1> USE PTreeAssumption DEF Inv, IInv
<1>1. PICK d \in [Node -> Nat], b \in Nat :
         \A x \in alive : d[x] <= b /\ (parent[x] # Nil => d[parent[x]] < d[x])
  BY DEF Acyclic
<1> DEFINE B == {x \in alive : r \in tag[x] /\ n \in UpFrom(x)}
<1>2. B \in SUBSET Node /\ n \in B /\ alive \subseteq Node
  BY UpFromClosure DEF TypeOK
<1>3. PICK x \in B : \A y \in B : ~(d[x] < d[y])
  <2>1. \A y \in B : d[y] <= b
    BY <1>1
  <2> HIDE DEF B
  <2> QED
    BY <1>1, <1>2, <2>1, HighestNode
<1>4. ASSUME NEW c \in {left[x], right[x]}, Ours(r, c) PROVE FALSE
  <2>1. c \in alive /\ parent[c] = x /\ r \in tag[c] /\ x # Nil
    BY <1>2, <1>4 DEF PointersAgree, Ours, TypeOK
  <2>2. x \in UpFrom(c)
    BY <1>2, <2>1, UpFromClosure
  <2>3. n \in UpFrom(c)
    BY <1>2, <2>1, <2>2, UpFromTransitive
  <2>4. c \in B /\ d[x] < d[c]
    BY <1>1, <2>1, <2>3
  <2> QED
    BY <1>3, <2>4
<1>5. holder[x] \in owned[r]
  BY <1>3, <1>4 DEF TagsExact, Supports
<1>6. ptreeNode[holder[x]] = x
  BY <1>5 DEF StatesAtLeaves, TypeOK
<1> QED
  BY <1>3, <1>5, <1>6

(* ... and is set on every pointer above each of them. *)
LEMMA OwnerHasTag ==
  ASSUME Inv, loop = "idle", NEW r \in Searcher, NEW s \in owned[r],
         NEW n \in UpFrom(ptreeNode[s])
  PROVE  n \in alive /\ r \in tag[n]
<1> USE PTreeAssumption DEF Inv, IInv
<1> DEFINE T == {m \in alive : r \in tag[m]}
<1>1. ptreeNode[s] \in T /\ T \in SUBSET Node
  BY DEF StatesAtLeaves, Live, TagsExact, Supports, TypeOK
<1>2. \A m \in T : parent[m] \in T \cup {Nil}
  BY DEF PointersAgree, TagsExact, Supports, Ours, TypeOK
<1> HIDE DEF T
<1>3. n \in T
  BY <1>1, <1>2, UpFromClosure
<1> QED
  BY <1>3 DEF T

(* For any number of nodes, states and searchers, between two calls every  *)
(* leaf of the tree and nothing else holds a state, every state is below   *)
(* the root, and a compressed tree has no node with a single child         *)
(* (PTree::attach, PTree::remove).                                         *)
THEOREM TreeKeepsItsShape == Spec => []ShapeOK
<1>1. Inv => ShapeOK
  <2> SUFFICES ASSUME Inv, Idle PROVE ShapeOK
    BY DEF ShapeOK
  <2>1. \A n \in alive : (holder[n] # Nil) = Childless(n)
    BY DEF Inv, IInv, StatesAtLeaves, Idle, Childless
  <2>2. \A s \in Live : holder[ptreeNode[s]] = s /\ ptreeNode[s] \in alive
    BY DEF Inv, IInv, StatesAtLeaves, Live
  <2>3. CompressProcessTree => \A n \in alive : (left[n] = Nil) = (right[n] = Nil)
    BY DEF Inv, IInv, Compressed, Idle
  <2> QED
    BY <2>1, <2>2, <2>3, RootAbove DEF ShapeOK
<1> QED
  BY <1>1, InvHolds, PTL

(* For any number of nodes, states and searchers, between two calls a      *)
(* searcher's bit is on exactly the pointers that lead to one of its       *)
(* states (RandomPathSearcher::update and empty, PTree::remove).           *)
THEOREM BitsAreExact == Spec => []TagsLeadToOwned
<1>1. Inv => TagsLeadToOwned
  <2> SUFFICES ASSUME Inv, loop = "idle", NEW r \in Searcher, NEW n \in alive \cup {root}
               PROVE  r \in tag[n] <=> \E s \in owned[r] : n \in UpFrom(ptreeNode[s])
    BY DEF TagsLeadToOwned, Idle
  <2>1. n \notin alive => r \notin tag[n]
    BY DEF Inv, IInv, RootClear
  <2>2. ASSUME r \in tag[n] PROVE \E s \in owned[r] : n \in UpFrom(ptreeNode[s])
    <3>1. n \in alive
      BY <2>1, <2>2
    <3> QED
      BY <2>2, <3>1, TagHasOwner
  <2>3. ASSUME NEW s \in owned[r], n \in UpFrom(ptreeNode[s]) PROVE r \in tag[n]
    BY <2>3, OwnerHasTag
  <2> QED
    BY <2>2, <2>3
<1> QED
  BY <1>1, InvHolds, PTL

(* For any number of nodes, states and searchers, a round of a climb       *)
(* (PTree::remove, RandomPathSearcher::update) that is followed by another *)
(* leaves its node for one strictly above, and one of a walk (selectState) *)
(* for one strictly below: no loop visits a node twice.                    *)
THEOREM LoopsAlwaysMove == Spec => LoopsMove
<1> DEFINE A == ~Idle /\ loop' = loop =>
                  IF loop = "walk" THEN at' # at /\ at \in UpFrom(at')
                  ELSE at' = Nil \/ at' \in UpFrom(at) \ {at}
<1>1. ASSUME Inv, NEW n \in alive, parent[n] # Nil
      PROVE  parent[n] # n /\ parent[n] \in UpFrom(n)
  <2>1. parent[n] # n
    BY <1>1 DEF Inv, Acyclic, IInv, TypeOK
  <2> QED
    BY <1>1, <2>1, UpFromClosure DEF Inv, IInv, TypeOK
<1>2. Inv /\ [Next]_vars => [A]_vars
  <2> SUFFICES ASSUME Inv, Next, loop # "idle", loop' = loop
               PROVE  IF loop = "walk" THEN at' # at /\ at \in UpFrom(at')
                      ELSE at' = Nil \/ at' \in UpFrom(at) \ {at}
    BY DEF Idle
  <2> USE PTreeAssumption DEF Enter, Finish
  <2>1. Steps
    BY SMTT(40) DEF Next, Calls, attach, remove, updateAdd, updateRemove, selectState, Idle
  <2>2. at # Nil => at \in alive
    BY DEF Inv, IInv, CursorOK
  <2>3. CASE unlinkStep
    BY <1>1, <2>2, <2>3 DEF unlinkStep, Inv, IInv, CursorOK
  <2>4. CASE spliceStep
    BY <2>4 DEF spliceStep
  <2>5. CASE markStep
    BY <1>1, <2>2, <2>5 DEF markStep
  <2>6. CASE clearStep
    BY <1>1, <2>2, <2>6 DEF clearStep, clearing
  <2>7. CASE walkStep
    <3>1. at \in alive /\ at' \in {left[at], right[at]} /\ at' # Nil /\ loop = "walk"
      BY <2>2, <2>7 DEF walkStep, Ours, Inv, IInv, CursorOK
    <3>2. at' \in alive /\ parent[at'] = at /\ at # Nil
      BY <3>1 DEF Inv, IInv, PointersAgree, TypeOK
    <3> QED
      BY <1>1, <3>1, <3>2
  <2> QED
    BY <2>1, <2>3, <2>4, <2>5, <2>6, <2>7 DEF Steps
<1> QED
  BY <1>2, InvHolds, PTL DEF Spec, LoopsMove
=============================================================================
