----------------------------- MODULE MctsSearch -----------------------------
(***************************************************************************)
(* MCTSSearcher (lib/Core/Searcher.cpp): the Monte Carlo tree search over   *)
(* the flags Vital keeps in the process-tree nodes.  The loop of            *)
(* selectState is modelled one iteration per step.                          *)
(*                                                                          *)
(* A node is the path of branches from the root to it (0 left, 1 right), so *)
(* a deleted node never comes back.  The leaves are the nodes that hold a   *)
(* state: attach moves the state of a node it splits into a child.  A state *)
(* is named by its leaf.  Rewards and expansion scores are abstracted: the  *)
(* choice between two children they decide is nondeterministic.  Of a       *)
(* simulation only what touches the tree is here: its start, the one        *)
(* instruction of the suspended state before it, and its end.               *)
(* ExecutorStates has its protocol, and what a termination of the suspended *)
(* state breaks there is left out here.                                     *)
(***************************************************************************)
EXTENDS Integers, Sequences, FiniteSets

CONSTANTS
  Options,     \* the option records to explore, see Option
  StateBound   \* bound on the number of states

Option == [switch : BOOLEAN,  \* the program has switches or other uses of branch
           multi  : BOOLEAN,  \* some of its instructions fork more than once
           opt    : BOOLEAN,  \* --enable-simulation-opt
           sim    : BOOLEAN,  \* --enable-simulation
           cap    : BOOLEAN,  \* -max-memory
           depth  : Nat]      \* bound on the depth of the tree

ASSUME MctsAssumption ==
  Options \subseteq Option /\ StateBound \in Nat

VARIABLES
  option,        \* the options of this run
  visit,         \* PTreeNode::visit of the nodes in the tree
  isInMCTSTree, isTerminal, isForked, isSimulated,  \* the nodes with the flag
  current_state, \* MCTSSearcher::current_state: a leaf, Null or Deleted
  phase,         \* where run() is: "loop", "select", "run", "suspended" (it
                 \* executes the suspended state), "simulation", "memory"
  cursor,        \* selectState's local variable root, the root outside its loop
  selected,      \* selectState's selected_state, then the state run() executes
  failed         \* why the process died, or "none"

flags == <<isInMCTSTree, isTerminal, isForked, isSimulated>>
vars == <<option, visit, flags, current_state, phase, cursor, selected, failed>>

\* Not paths: the null pointer, a pointer to a deleted state, and exit(1).
Null == <<2>>
Deleted == <<3>>
Exit == <<4>>

tree == DOMAIN visit
root == <<>>
left(n) == Append(n, 0)
right(n) == Append(n, 1)
kids(T, n) == {left(n), right(n)} \cap T
leaves(T) == {n \in T : kids(T, n) = {}}
IsPrefix(m, n) == Len(m) <= Len(n) /\ \A i \in 1..Len(m) : m[i] = n[i]

\* PTree::PTree, and update(0, {initialState}, {}).
Init ==
  /\ option \in Options
  /\ visit = [n \in {root} |-> 0]
  /\ isInMCTSTree = {} /\ isTerminal = {} /\ isForked = {} /\ isSimulated = {}
  /\ current_state = root
  /\ phase = "loop" /\ cursor = root /\ selected = Null /\ failed = "none"

-----------------------------------------------------------------------------
(* The tree after an instruction and updateStates.                          *)

\* States selectState has terminated; the next updateStates removes them.
dropped == isTerminal \cap leaves(tree)

\* Mutant: the climb deletes a parent that still has a child.
BugPruned(T, S) == T \ (S \cup {SubSeq(n, 1, Len(n) - 1) : n \in S})

\* The tree T after PTree::remove of the states at the leaves S.
pruned(T, S) == {n \in T : \E l \in leaves(T) \ S : IsPrefix(n, l)}

\* T is the new tree; its new nodes start with zeroed flags.
regrow(T, visits, in, forked, simulated) ==
  /\ visit' = [n \in T |-> IF n \in tree THEN visits[n] ELSE 0]
  /\ isInMCTSTree' = in \cap T /\ isForked' = forked \cap T
  /\ isTerminal' = isTerminal \cap T /\ isSimulated' = simulated \cap T

-----------------------------------------------------------------------------
(* selectState                                                              *)

\* The children that are not in the MCTS tree yet.
fresh(n) == kids(tree, n) \ isInMCTSTree

\* A switch whose two sides are split further: no state at the node, none at
\* its children.
statelessTriple(n) == {left(n), right(n)} \subseteq tree \ leaves(tree)

hasEligiableChildren(n) ==
  IF fresh(n) # {} THEN fresh(n) \ isTerminal # {}
  ELSE /\ kids(tree, n) # {} /\ ~statelessTriple(n)
       /\ n \notin isForked /\ n \notin isInMCTSTree

\* What doSelection may return: of two children in the MCTS tree either (the
\* UCT values decide), Exit for its exit(1).
doSelection(n) ==
  LET in == kids(tree, n) \cap isInMCTSTree IN
  IF in # {} THEN in
  ELSE IF \E k \in isTerminal : kids(tree, n) = {k} THEN kids(tree, n)
       ELSE IF statelessTriple(n) THEN {Exit} ELSE {n}

\* What doExpansion may return: of two new children that hold a state either
\* (the expansion scores decide).
doExpansion(n) ==
  IF fresh(n) \cap leaves(tree) # {} THEN fresh(n) \cap leaves(tree)
  ELSE IF statelessTriple(n) THEN {n}
       ELSE IF n \notin isForked /\ n \notin isInMCTSTree THEN {current_state} ELSE {n}

\* Nodes doExpansion itself puts into the MCTS tree.
expansionMarks(n) ==
  IF fresh(n) \cap leaves(tree) = {} /\ statelessTriple(n)
  THEN {n} \cup kids(tree, n) ELSE {}

\* return *s: run() goes on with state s, if there is one.
returned(s) ==
  IF s \in tree
  THEN phase' = "run" /\ selected' = s /\ cursor' = root /\ failed' = failed
  ELSE failed' = "no state" /\ UNCHANGED <<phase, selected, cursor>>

enterSelect ==
  /\ phase = "loop" /\ leaves(tree) # {}
  /\ IF \E s \in tree : leaves(tree) = {s}
     THEN \E s \in leaves(tree) : returned(s)
     ELSE /\ phase' = "select" /\ cursor' = root /\ selected' = Null
          /\ UNCHANGED failed
  /\ UNCHANGED <<option, visit, flags, current_state>>

\* The loop ends at a terminal node that is not a leaf.
leaveAtTerminal ==
  /\ phase = "select" /\ cursor \in isTerminal
  /\ returned(selected)
  /\ UNCHANGED <<option, visit, flags, current_state>>

selectStep ==
  /\ phase = "select" /\ cursor \notin isTerminal
  /\ ~hasEligiableChildren(cursor)
  /\ \E n \in doSelection(cursor) :
       IF n \notin tree
       THEN failed' = "exit" /\ UNCHANGED <<phase, selected, cursor>>
       ELSE IF n \in leaves(tree) THEN returned(n)
            ELSE cursor' = n /\ UNCHANGED <<phase, selected, failed>>
  /\ UNCHANGED <<option, visit, flags, current_state>>

expanding(e) ==
  /\ phase = "select" /\ cursor \notin isTerminal
  /\ hasEligiableChildren(cursor)
  /\ e \in doExpansion(cursor)
  /\ UNCHANGED option

\* current_state->ptreeNode of a state that is gone.
expandStale ==
  /\ \E e \in {Null, Deleted} : expanding(e)
  /\ failed' = "current_state"
  /\ UNCHANGED <<visit, flags, current_state, phase, cursor, selected>>

\* Mutant: the children stay out of the MCTS tree.
BugExpandStateless ==
  /\ \E e \in tree \ leaves(tree) : expanding(e)
  /\ isInMCTSTree' = isInMCTSTree \cup expansionMarks(cursor)
  /\ selected' = Null
  /\ UNCHANGED <<visit, isTerminal, isForked, isSimulated, current_state, phase,
                 cursor, failed>>

\* A node without a state: only its children enter the MCTS tree.
expandStateless ==
  /\ \E e \in tree \ leaves(tree) :
       /\ expanding(e)
       /\ isInMCTSTree' = isInMCTSTree \cup expansionMarks(cursor) \cup kids(tree, e)
  /\ selected' = Null
  /\ UNCHANGED <<visit, isTerminal, isForked, isSimulated, current_state, phase,
                 cursor, failed>>

expandLeaf(e) ==
  /\ e \in leaves(tree) /\ expanding(e)
  /\ isInMCTSTree' = isInMCTSTree \cup {e}
  /\ UNCHANGED isForked

\* Mutant: isSimulated is not asked.
BugSimulates(e) == option.sim

simulates(e) == option.sim /\ e \notin isSimulated

\* Mutant: a new leaf may be returned without its simulation.
BugExpandKnown ==
  /\ \E e \in tree \ isTerminal : expandLeaf(e) /\ current_state' = e /\ returned(e)
  /\ UNCHANGED <<visit, isTerminal, isSimulated>>

\* Simulation is off, or the node has had its simulation.  For a terminal
\* node the state that ran last is returned instead.
expandKnown ==
  /\ \E e \in tree :
       /\ e \in isTerminal \/ ~simulates(e)
       /\ expandLeaf(e)
       /\ current_state' = IF e \in isTerminal THEN current_state ELSE e
       /\ returned(current_state')
  /\ UNCHANGED <<visit, isTerminal, isSimulated>>

\* doSimulation: simulation mode begins, and run() gets the state to suspend.
expandSimulated ==
  /\ \E e \in tree \ isTerminal :
       /\ simulates(e) /\ expandLeaf(e)
       /\ isSimulated' = isSimulated \cup {e}
       /\ current_state' = e /\ selected' = e
  /\ phase' = "suspended" /\ cursor' = root
  /\ UNCHANGED <<visit, isTerminal, failed>>

\* A block whose simulations stopped paying off: the state is terminated and
\* the loop goes on.
expandDropped ==
  /\ option.opt
  /\ \E e \in tree \ isTerminal :
       /\ simulates(e) /\ expandLeaf(e)
       /\ isSimulated' = isSimulated \cup {e}
       /\ isTerminal' = isTerminal \cup {e}
       /\ current_state' = e /\ selected' = e
  /\ UNCHANGED <<visit, phase, cursor, failed>>

-----------------------------------------------------------------------------
(* One instruction of the selected state, and updateStates.                 *)

\* Mutant: update leaves the flag of the current state's node alone.
BugUpdate(T, c, gone, forked) ==
  LET left_over == pruned(T, gone) IN
  /\ regrow(left_over, visit, isInMCTSTree \cup {c}, forked, isSimulated)
  /\ current_state' = IF c \in gone THEN Deleted ELSE c

\* update(current, added, removed) and the end of updateStates: T is the tree
\* after the instruction, c the leaf of the current state, gone the leaves of
\* the removed states.
update(T, c, gone, forked) ==
  LET left_over == pruned(T, gone) IN
  /\ regrow(left_over, visit, isInMCTSTree \ {c}, forked, isSimulated)
  /\ current_state' = IF c \in gone THEN Deleted ELSE c

running ==
  /\ phase = "run" /\ phase' = "memory" /\ selected' = Null
  /\ UNCHANGED <<option, cursor>>

executeLocal ==
  /\ running
  /\ update(tree, selected, dropped, isForked)
  /\ UNCHANGED failed

\* The leaves of the removed states when the selected one has moved to c.
movedDropped(c) ==
  (dropped \ {selected}) \cup (IF selected \in dropped THEN {c} ELSE {})

Grown(T) ==
  /\ \A n \in T : Len(n) <= option.depth
  /\ Cardinality(leaves(T)) <= StateBound

\* What two ways out of an instruction attach below n, with the leaf of the
\* running state, which always goes right.
forkOnce(n) == {<<{left(n), right(n)}, right(n)>>}

\* Three ways: one of the two states goes on to split.
forkTwice(n) ==
  LET two == {left(n), right(n)} IN
  { <<two \cup {left(left(n)), right(left(n))}, right(n)>>,
    <<two \cup {left(right(n)), right(right(n))}, right(right(n))>> }

\* The instruction splits the running state, leaving its leaf at c and the tree
\* T, and terminates the states at dead.  New ones it deletes at once; a state
\* that was dropped before is in removedStates twice.
splitInto(T, c, dead, forked) ==
  /\ running /\ Grown(T)
  /\ update(T, c, movedDropped(c) \cup dead, forked)
  /\ failed' = IF selected \in dropped /\ c \in dead THEN "invalid state removed" ELSE failed

\* Mutant: the node is not marked as forked.
BugFork ==
  \E s \in forkOnce(selected) : splitInto(tree \cup s[1], s[2], {}, isForked)

\* fork, and whom the instruction terminates: a memory access or a free forks on
\* each object the address may point to, a call on each callee.
executeFork ==
  \E s \in forkOnce(selected) \cup (IF option.multi THEN forkTwice(selected) ELSE {}) :
    LET T == tree \cup s[1] IN
    \E dead \in SUBSET (leaves(T) \cap s[1]) :
      splitInto(T, s[2], dead, isForked \cup (({selected} \cup s[1]) \ leaves(T)))

\* branch: attach without isForked.
executeSwitch ==
  /\ option.switch
  /\ \E s \in forkOnce(selected) \cup forkTwice(selected) :
       splitInto(tree \cup s[1], s[2], {}, isForked)

\* A state that was dropped before is in removedStates twice.
executeTerminate ==
  /\ running
  /\ failed' = IF selected \in dropped THEN "invalid state removed" ELSE failed
  /\ update(tree, selected, dropped \cup {selected}, isForked)

\* checkMemoryUsage; update(nullptr, {}, killed) forgets the current state.
checkMemoryUsage ==
  /\ phase = "memory" /\ phase' = "loop"
  /\ \/ UNCHANGED <<visit, flags, current_state>>
     \/ \E K \in (SUBSET leaves(tree)) \ {{}} :
          /\ option.cap
          /\ regrow(pruned(tree, K), visit, isInMCTSTree, isForked, isSimulated)
          /\ current_state' = Null
  /\ UNCHANGED <<option, cursor, selected, failed>>

-----------------------------------------------------------------------------
(* A simulation.                                                            *)

\* One instruction of the suspended state, in simulation mode, where it does not
\* fork.  updateStates(&state) clears the flag of its node, then takes the state
\* off the searcher's list with update(nullptr, {}, {state}).
executeSuspended ==
  /\ phase = "suspended" /\ phase' = "simulation"
  /\ regrow(pruned(tree, dropped), visit, isInMCTSTree \ {selected}, isForked, isSimulated)
  /\ current_state' = Null
  /\ UNCHANGED <<option, cursor, selected, failed>>

\* Mutant: the statistics stop at the simulated node.
BugBackpropagation(e) == [visit EXCEPT ![e] = @ + 1]

doBackpropagation(e) ==
  [n \in tree |-> IF IsPrefix(n, e) THEN visit[n] + 1 ELSE visit[n]]

\* The instruction that ends the simulation leaves simulation mode, so run()
\* sets the flag of the node; the resumed state is the only one in addedStates.
executeSimulationEnd ==
  /\ phase = "simulation" /\ phase' = "memory"
  /\ regrow(tree, doBackpropagation(selected), isInMCTSTree \cup {selected}, isForked,
            isSimulated)
  /\ current_state' = selected /\ selected' = Null
  /\ UNCHANGED <<option, cursor, failed>>

\* checkMemoryUsage kills the simulation, and then other states.  That it kills
\* another state first, or the resumed one afterwards, ExecutorStates has.
killSimulation ==
  /\ phase = "simulation" /\ phase' = "loop" /\ option.cap
  /\ \E K \in SUBSET (leaves(tree) \ {selected}) :
       regrow(pruned(tree, K), doBackpropagation(selected), isInMCTSTree, isForked,
              isSimulated)
  /\ current_state' = selected /\ selected' = Null
  /\ UNCHANGED <<option, cursor, failed>>

-----------------------------------------------------------------------------
expand ==
  \/ expandStale \/ expandStateless \/ expandKnown \/ expandSimulated
  \/ expandDropped

selectState == enterSelect \/ leaveAtTerminal \/ selectStep \/ expand

Next ==
  /\ failed = "none"
  /\ \/ selectState \/ executeLocal \/ executeFork \/ executeSwitch
     \/ executeTerminate \/ checkMemoryUsage
     \/ executeSuspended \/ executeSimulationEnd \/ killSimulation

Spec == Init /\ [][Next]_vars

\* The loop of selectState is sequential code that never blocks.
FairSpec == Spec /\ WF_vars(phase = "select" /\ failed = "none" /\ selectState)

-----------------------------------------------------------------------------
(* Properties                                                               *)

\* The nodes of a tree: with a node its ancestors, and below it a leaf.
Shape(T) ==
  /\ T \subseteq Seq({0, 1})
  /\ \A n \in T : \A k \in 0..Len(n) : SubSeq(n, 1, k) \in T
  /\ \A n \in T : \E l \in leaves(T) : IsPrefix(n, l)

TypeOK ==
  /\ option \in Options
  /\ \A n \in tree : Len(n) <= option.depth
  /\ Shape(tree) /\ \A n \in tree : visit[n] \in Nat
  /\ isInMCTSTree \cup isTerminal \cup isForked \cup isSimulated \subseteq tree
  /\ current_state \in leaves(tree) \cup {Null, Deleted}
  /\ phase \in {"loop", "select", "run", "suspended", "simulation", "memory"}
  /\ failed \in {"none", "no state", "exit", "current_state", "invalid state removed"}

\* Without switches and --enable-simulation-opt selectState always comes to a
\* state: it never follows current_state to a state that is gone, never returns
\* without a state and never gives up with exit(1).
SelectionFindsState == ~option.switch /\ ~option.opt => failed = "none"

\* The path doExpansion takes through current_state leads to a state that
\* exists ("Selects a state for further exploration", Searcher.h).
CurrentStateExists == failed # "current_state"

\* In a program without switches, when there is a choice, a state that run()
\* executes outside simulation mode has had its simulation, to the end, or was
\* dropped in place of it.  (Inside it executes one instruction: the
\* suspended state's, before its simulation begins.)
SimulatedBeforeRun ==
  phase = "run" /\ option.sim /\ ~option.switch /\ leaves(tree) # {selected}
    => visit[selected] > 0 \/ selected \in dropped

\* A path is simulated at most once, and the leaves whose simulation was
\* counted are the ones marked as simulated, but for the dropped ones and the
\* one that is being simulated.
SimulatedOnce ==
  \A n \in leaves(tree) :
    LET busy == phase \in {"suspended", "simulation"} /\ n = selected
    IN visit[n] = IF n \in isSimulated \ isTerminal /\ ~busy THEN 1 ELSE 0

\* computeUCT divides by visit.  In a program whose instructions all go at most
\* two ways, and through fork, two children are compared only when both have been
\* visited, except for a child --enable-simulation-opt has dropped: its zero
\* visits are divided by.
UctDefined ==
  phase = "select" /\ option.sim /\ ~option.switch /\ ~option.multi =>
    \A n \in tree : {left(n), right(n)} \subseteq tree \cap isInMCTSTree =>
      \A k \in kids(tree, n) : visit[k] > 0 \/ k \in isTerminal

\* doBackpropagation credits every ancestor: a node has at least the visits of
\* its children, whatever was deleted below it since.
VisitsAddUp ==
  \A n \in tree \ leaves(tree) :
    visit[n] >= (IF left(n) \in tree THEN visit[left(n)] ELSE 0)
                + (IF right(n) \in tree THEN visit[right(n)] ELSE 0)

\* The loop of selectState ends.
SelectionEnds == []<>(phase # "select" \/ failed # "none")

=============================================================================
