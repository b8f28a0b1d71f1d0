---------------------------- MODULE ProcessTree ----------------------------
(***************************************************************************)
(* The process tree (lib/Core/PTree.cpp) together with the random-path     *)
(* searchers (lib/Core/Searcher.cpp) that write their ownership bits into  *)
(* its child pointers.                                                     *)
(*                                                                         *)
(* A node is reached through exactly one PTreeNodePtr: the left or right   *)
(* field of its parent or PTree::root.  tag[n] is the integer part of that *)
(* pointer, as the set of searchers whose bit is set.  The loops of        *)
(* PTree::remove and of RandomPathSearcher::update and selectState are     *)
(* modelled one iteration per step, with their cursor in `at'.             *)
(*                                                                         *)
(* A freed node's fields read Nil, so that a node is alive or blank.       *)
(*                                                                         *)
(* The callers (Executor::fork, branch, updateStates and the searchers     *)
(* stacked above) are the nondeterminism of Next: they may hand any live   *)
(* state to any searcher and take it back, and delete a state once no      *)
(* searcher holds it.                                                      *)
(***************************************************************************)
CONSTANTS Node,      \* addresses a PTreeNode may have
          State,     \* execution states
          Searcher,  \* the RandomPathSearchers, at most PtrBitCount of them
          Nil,       \* the null pointer
          InitialState,
          CompressProcessTree

ASSUME PTreeAssumption ==
  /\ Nil \notin Node \cup State \cup Searcher
  /\ InitialState \in State
  /\ Node # {}
  /\ CompressProcessTree \in BOOLEAN

VARIABLES alive,      \* the allocated nodes
          parent, left, right,
          holder,     \* PTreeNode::state
          ptreeNode,  \* ExecutionState::ptreeNode, Nil for a deleted state
          tag, root,
          owned,      \* the states each searcher was given and not asked to drop
          loop, who, at  \* the running loop, its searcher and its cursor

ptr == <<parent, left, right, root>>
vars == <<alive, ptr, holder, ptreeNode, tag, owned, loop, who, at>>

Loops == {"idle", "mark", "clear", "walk", "unlink", "splice"}

TypeOK ==
  /\ alive \subseteq Node
  /\ parent \in [Node -> Node \cup {Nil}]
  /\ left \in [Node -> Node \cup {Nil}]
  /\ right \in [Node -> Node \cup {Nil}]
  /\ holder \in [Node -> State \cup {Nil}]
  /\ ptreeNode \in [State -> Node \cup {Nil}]
  /\ tag \in [Node -> SUBSET Searcher]
  /\ root \in Node
  /\ owned \in [Searcher -> SUBSET State]
  /\ loop \in Loops
  /\ who \in Searcher \cup {Nil}
  /\ at \in Node \cup {Nil}

(* PTree::PTree: one node, holding the initial state. *)
Init ==
  /\ root \in Node
  /\ alive = {root}
  /\ parent = [n \in Node |-> Nil]
  /\ left = [n \in Node |-> Nil]
  /\ right = [n \in Node |-> Nil]
  /\ holder = [n \in Node |-> IF n = root THEN InitialState ELSE Nil]
  /\ ptreeNode = [s \in State |-> IF s = InitialState THEN root ELSE Nil]
  /\ tag = [n \in Node |-> {}]
  /\ owned = [r \in Searcher |-> {}]
  /\ loop = "idle" /\ who = Nil /\ at = Nil

Live == {s \in State : ptreeNode[s] # Nil}

(* IS_OUR_NODE_VALID *)
Ours(r, n) == n # Nil /\ r \in tag[n]

Childless(n) == left[n] = Nil /\ right[n] = Nil

Idle == loop = "idle"
Enter(l, r, n) == loop' = l /\ who' = r /\ at' = n
Finish == Enter("idle", Nil, Nil)
-----------------------------------------------------------------------------
BugClearing == at # Nil /\ ~Ours(who, left[at])

(* The climb of a removal goes on while no child of the cursor is ours. *)
clearing == at # Nil /\ ~Ours(who, left[at]) /\ ~Ours(who, right[at])
-----------------------------------------------------------------------------
(* Plausible faults of the definitions below, for mutation.                *)
BugTagOnAttach(node, l, r) == [tag EXCEPT ![l] = tag[node], ![r] = {}]
BugMarkStep ==
  /\ loop = "mark"
  /\ IF at # Nil /\ ~Ours(who, at) /\ parent[at] # Nil
     THEN /\ tag' = [tag EXCEPT ![at] = @ \cup {who}]
          /\ Enter("mark", who, parent[at])
     ELSE Finish /\ UNCHANGED tag
  /\ UNCHANGED <<alive, ptr, holder, ptreeNode, owned>>
BugSpliceStep ==
  LET n == at
      p == parent[at]
      child == IF left[n] # Nil THEN left[n] ELSE right[n]
  IN
  /\ loop = "splice"
  /\ alive' = alive \ {n}
  /\ parent' = [parent EXCEPT ![n] = Nil]
  /\ root' = IF p = Nil THEN child ELSE root
  /\ left' = [left EXCEPT ![n] = Nil, ![p] = IF @ = n THEN child ELSE @]
  /\ right' = [right EXCEPT ![n] = Nil, ![p] = IF @ = n THEN child ELSE @]
  /\ tag' = [tag EXCEPT ![n] = {}]
  /\ Finish
  /\ UNCHANGED <<holder, ptreeNode, owned>>
BugClearStep ==
  /\ loop = "clear"
  /\ IF clearing
     THEN /\ tag' = [tag EXCEPT ![at] = @ \ {who}]
          /\ IF Childless(at) THEN Enter("clear", who, parent[at]) ELSE Finish
     ELSE Finish /\ UNCHANGED tag
  /\ UNCHANGED <<alive, ptr, holder, ptreeNode, owned>>
BugSpliceRoot ==
  LET n == at
      p == parent[at]
      child == IF left[n] # Nil THEN left[n] ELSE right[n]
  IN
  /\ loop = "splice"
  /\ alive' = alive \ {n}
  /\ parent' = [parent EXCEPT ![child] = p, ![n] = Nil]
  /\ root' = IF root = n THEN p ELSE root
  /\ left' = [left EXCEPT ![n] = Nil, ![p] = IF @ = n THEN child ELSE @]
  /\ right' = [right EXCEPT ![n] = Nil, ![p] = IF @ = n THEN child ELSE @]
  /\ tag' = [tag EXCEPT ![n] = {}]
  /\ Finish
  /\ UNCHANGED <<holder, ptreeNode, owned>>
BugWalkStep ==
  /\ loop = "walk"
  /\ IF holder[at] # Nil
     THEN Enter("walk", who, root)
     ELSE \E c \in {left[at], right[at]} : Ours(who, c) /\ Enter("walk", who, c)
  /\ UNCHANGED <<alive, ptr, holder, ptreeNode, tag, owned>>
-----------------------------------------------------------------------------
(* The right child inherits the tag of the node it replaces as es's leaf;  *)
(* the left child, of the new state, belongs to nobody yet.                *)
TagOnAttach(node, l, r) == [tag EXCEPT ![l] = {}, ![r] = tag[node]]

(* PTree::attach(es->ptreeNode, new, es) *)
attach(es, new, l, r) ==
  LET node == ptreeNode[es] IN
  /\ Idle /\ es \in Live /\ new \notin Live
  /\ {l, r} \cap alive = {} /\ l # r
  /\ alive' = alive \cup {l, r}
  /\ holder' = [holder EXCEPT ![node] = Nil, ![l] = new, ![r] = es]
  /\ ptreeNode' = [ptreeNode EXCEPT ![new] = l, ![es] = r]
  /\ left' = [left EXCEPT ![node] = l, ![l] = Nil, ![r] = Nil]
  /\ right' = [right EXCEPT ![node] = r, ![l] = Nil, ![r] = Nil]
  /\ parent' = [parent EXCEPT ![l] = node, ![r] = node]
  /\ tag' = TagOnAttach(node, l, r)
  /\ UNCHANGED <<root, owned, loop, who, at>>

(* PTree::remove, called once every searcher dropped the state; the state  *)
(* is deleted with its leaf.                                               *)
remove(es) ==
  /\ Idle /\ es \in Live
  /\ \A r \in Searcher : es \notin owned[r]
  /\ ptreeNode' = [ptreeNode EXCEPT ![es] = Nil]
  /\ holder' = [holder EXCEPT ![ptreeNode[es]] = Nil]
  /\ Enter("unlink", Nil, ptreeNode[es])
  /\ UNCHANGED <<alive, ptr, tag, owned>>

(* One round of the do-while loop of PTree::remove: the node leaves its     *)
(* parent and is deleted.  The climb goes on while it leaves childless      *)
(* parents behind, and ends with a splice if the tree is compressed.        *)
unlinkStep ==
  LET n == at
      p == parent[at]
      other == IF left[p] = n THEN right[p] ELSE left[p]
  IN
  /\ loop = "unlink"
  /\ alive' = alive \ {n}
  /\ IF p = Nil
     THEN UNCHANGED <<left, right, tag>> /\ Finish
     ELSE /\ tag' = [tag EXCEPT ![n] = {}]
          /\ IF left[p] = n
             THEN left' = [left EXCEPT ![p] = Nil] /\ UNCHANGED right
             ELSE right' = [right EXCEPT ![p] = Nil] /\ UNCHANGED left
          /\ CASE other = Nil -> Enter("unlink", Nil, p)
               [] other # Nil /\ CompressProcessTree -> Enter("splice", Nil, p)
               [] OTHER -> Finish
  /\ parent' = [parent EXCEPT ![n] = Nil]
  /\ UNCHANGED <<root, holder, ptreeNode, owned>>

(* CompressProcessTree: a node left with one child is replaced by it.  The *)
(* child's pointer moves up with its tag.                                  *)
spliceStep ==
  LET n == at
      p == parent[at]
      child == IF left[n] # Nil THEN left[n] ELSE right[n]
  IN
  /\ loop = "splice"
  /\ alive' = alive \ {n}
  /\ parent' = [parent EXCEPT ![child] = p, ![n] = Nil]
  /\ root' = IF p = Nil THEN child ELSE root
  /\ left' = [left EXCEPT ![n] = Nil, ![p] = IF @ = n THEN child ELSE @]
  /\ right' = [right EXCEPT ![n] = Nil, ![p] = IF @ = n THEN child ELSE @]
  /\ tag' = [tag EXCEPT ![n] = {}]
  /\ Finish
  /\ UNCHANGED <<holder, ptreeNode, owned>>
-----------------------------------------------------------------------------
(* RandomPathSearcher::update, one added state. *)
updateAdd(r, es) ==
  /\ Idle /\ es \in Live
  /\ owned' = [owned EXCEPT ![r] = @ \cup {es}]
  /\ Enter("mark", r, ptreeNode[es])
  /\ UNCHANGED <<alive, ptr, holder, ptreeNode, tag>>

(* The climb of an addition stops at the first pointer that is ours. *)
markStep ==
  /\ loop = "mark"
  /\ IF at # Nil /\ ~Ours(who, at)
     THEN /\ tag' = [tag EXCEPT ![at] = @ \cup {who}]
          /\ Enter("mark", who, parent[at])
     ELSE Finish /\ UNCHANGED tag
  /\ UNCHANGED <<alive, ptr, holder, ptreeNode, owned>>

(* RandomPathSearcher::update, one removed state. *)
updateRemove(r, es) ==
  /\ Idle /\ es \in owned[r]
  /\ owned' = [owned EXCEPT ![r] = @ \ {es}]
  /\ Enter("clear", r, ptreeNode[es])
  /\ UNCHANGED <<alive, ptr, holder, ptreeNode, tag>>

clearStep ==
  /\ loop = "clear"
  /\ IF clearing
     THEN /\ tag' = [tag EXCEPT ![at] = @ \ {who}]
          /\ Enter("clear", who, parent[at])
     ELSE Finish /\ UNCHANGED tag
  /\ UNCHANGED <<alive, ptr, holder, ptreeNode, owned>>

(* RandomPathSearcher::selectState, entered only when states are there. *)
selectState(r) ==
  /\ Idle /\ owned[r] # {}
  /\ Enter("walk", r, root)
  /\ UNCHANGED <<alive, ptr, holder, ptreeNode, tag, owned>>

(* From an inner node to a child that is ours (either, if both are), and   *)
(* out of the loop at the first node that holds a state.                   *)
walkStep ==
  /\ loop = "walk"
  /\ IF holder[at] # Nil
     THEN Finish
     ELSE \E c \in {left[at], right[at]} : Ours(who, c) /\ Enter("walk", who, c)
  /\ UNCHANGED <<alive, ptr, holder, ptreeNode, tag, owned>>
-----------------------------------------------------------------------------
Steps == unlinkStep \/ spliceStep \/ markStep \/ clearStep \/ walkStep

Calls ==
  \/ \E es, new \in State, l, r \in Node : attach(es, new, l, r)
  \/ \E es \in State : remove(es)
  \/ \E r \in Searcher, es \in State : updateAdd(r, es) \/ updateRemove(r, es)
  \/ \E r \in Searcher : selectState(r)

Next == Steps \/ Calls

Spec == Init /\ [][Next]_vars

-----------------------------------------------------------------------------
(* What the proofs carry from step to step (ProcessTreeProofs).            *)

(* Child and parent pointers agree, and only the root has no parent. *)
PointersAgree ==
  \A n \in alive :
    /\ left[n] # Nil => left[n] \in alive /\ parent[left[n]] = n /\ left[n] # right[n]
    /\ right[n] # Nil => right[n] \in alive /\ parent[right[n]] = n
    /\ parent[n] # Nil => parent[n] \in alive /\ n \in {left[parent[n]], right[parent[n]]}
    /\ (parent[n] = Nil) = (n = root)

(* States sit at leaves; a childless node without a state is the one that  *)
(* PTree::remove is about to delete.                                       *)
StatesAtLeaves ==
  /\ \A n \in alive : holder[n] # Nil => Childless(n) /\ ptreeNode[holder[n]] = n
  /\ \A s \in State : ptreeNode[s] # Nil => ptreeNode[s] \in alive /\ holder[ptreeNode[s]] = s
  /\ \A n \in alive : holder[n] = Nil /\ Childless(n) => loop = "unlink" /\ at = n
  /\ \A r \in Searcher : owned[r] \subseteq Live

(* What keeps r's bit on the pointer to n. *)
Supports(r, n) ==
  Ours(r, left[n]) \/ Ours(r, right[n]) \/ holder[n] \in owned[r]

(* The cursor's place in each loop. *)
CursorOK ==
  /\ loop \in {"mark", "clear", "walk"} => who \in Searcher
  /\ at # Nil => at \in alive
  /\ loop = "mark" /\ at # Nil => Supports(who, at)
  /\ loop = "clear" /\ at # Nil => who \in tag[at] /\ holder[at] \notin owned[who]
  /\ loop = "walk" => at # Nil /\ who \in tag[at]
  /\ loop = "unlink" => at # Nil /\ holder[at] = Nil /\ Childless(at)
  /\ loop = "splice" =>
       at # Nil /\ holder[at] = Nil /\ (left[at] = Nil) # (right[at] = Nil)

(* A bit is on a pointer exactly when something below supports it, but for *)
(* the pointer that a climb is about to write.                             *)
TagsExact ==
  \A n \in alive, r \in Searcher :
    \/ loop \in {"mark", "clear"} /\ n = at /\ r = who
    \/ r \in tag[n] <=> Supports(r, n)

(* In a compressed tree only the node that is about to be spliced out has  *)
(* a single child.                                                         *)
Compressed ==
  CompressProcessTree =>
    \A n \in alive : (left[n] = Nil) = (right[n] = Nil) \/ (loop = "splice" /\ n = at)

(* The root pointer of a tree that has gone carries no bit. *)
RootClear == root \in alive \/ tag[root] = {}

IInv ==
  /\ TypeOK /\ PointersAgree /\ StatesAtLeaves /\ CursorOK /\ TagsExact
  /\ Compressed /\ RootClear
-----------------------------------------------------------------------------
(* The nodes from n up to the root: the smallest set that has n and, with  *)
(* every node, its parent.                                                 *)
Upward == {S \in SUBSET Node : \A m \in S : parent[m] \in S \cup {Nil}}

UpFrom(n) == {m \in Node : n # Nil /\ \A S \in Upward : n \in S => m \in S}

(* Between two calls the tree has a state at every leaf and nowhere else,  *)
(* every state's ptreeNode is the leaf that holds it, and a compressed     *)
(* tree has no node with a single child (PTree::attach and PTree::remove). *)
ShapeOK ==
  Idle =>
    /\ \A n \in alive : (holder[n] # Nil) = Childless(n)
    /\ \A s \in Live : holder[ptreeNode[s]] = s /\ root \in UpFrom(ptreeNode[s])
    /\ CompressProcessTree =>
         \A n \in alive : (left[n] = Nil) = (right[n] = Nil)

(* Between two calls a searcher's bit is set on exactly the pointers that  *)
(* lead to one of its states, so that empty(), which reads the root's bit, *)
(* is true exactly when the searcher has no state (update, empty).         *)
TagsLeadToOwned ==
  Idle => \A r \in Searcher, n \in alive \cup {root} :
            r \in tag[n] <=> \E s \in owned[r] : n \in UpFrom(ptreeNode[s])

(* No assertion of PTree::remove ("the node has no child"), of update      *)
(* ("Removing pTree child not ours") or of selectState ("Root should       *)
(* belong to the searcher", "Both left and right nodes invalid") fails.    *)
AssertsHold ==
  /\ loop = "unlink" => at \in alive /\ Childless(at)
  /\ loop = "clear" /\ clearing => who \in tag[at]
  /\ loop = "walk" =>
       /\ who \in tag[at]
       /\ holder[at] = Nil => Ours(who, left[at]) \/ Ours(who, right[at])

(* selectState returns a state its searcher was given and still has, though *)
(* it finds it by the bits alone, in a tree it shares with other searchers. *)
SelectReturnsOwned ==
  loop = "walk" /\ holder[at] # Nil => holder[at] \in owned[who]

(* Every climb and every walk ends, whatever was attached, unlinked and    *)
(* spliced before: a round that is followed by another one leaves its node *)
(* for one strictly above it (update, remove) or below it (selectState).   *)
LoopsMove ==
  [][~Idle /\ loop' = loop =>
       IF loop = "walk" THEN at' # at /\ at \in UpFrom(at')
       ELSE at' = Nil \/ at' \in UpFrom(at) \ {at}]_vars
=============================================================================
