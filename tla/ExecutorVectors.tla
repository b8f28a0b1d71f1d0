-------------------------- MODULE ExecutorVectors ---------------------------
(***************************************************************************)
(* What updateStates, terminateState and the end of a simulation do to the *)
(* vectors addedStates, removedStates and suspendedStates.                 *)
(***************************************************************************)
EXTENDS ExecutorStates, TLAPS

-----------------------------------------------------------------------------
(* Bags                                                                     *)

\* An empty vector holds nothing.
LEMMA EmptyBag ==
  /\ None \in [State -> Nat] /\ In(None) = {}
  /\ \A s \in State : None[s] = 0
BY DEF None, In

\* push_back adds one occurrence and leaves the others.
LEMMA PushFacts ==
  ASSUME NEW bag \in [State -> Nat], NEW x \in State
  PROVE  /\ Push(bag, x) \in [State -> Nat]
         /\ Push(bag, x)[x] = bag[x] + 1
         /\ \A s \in State : s # x => Push(bag, x)[s] = bag[s]
         /\ In(Push(bag, x)) = In(bag) \cup {x}
BY DEF Push, In

\* A vector of one element.
LEMMA Singleton ==
  ASSUME NEW x \in State
  PROVE  /\ Push(None, x) \in [State -> Nat] /\ In(Push(None, x)) = {x}
         /\ \A s \in State : Push(None, x)[s] = IF s = x THEN 1 ELSE 0
BY DEF Push, None, In

\* Pushing a set of distinct states.
LEMMA PushAllFacts ==
  ASSUME NEW bag \in [State -> Nat], NEW S
  PROVE  /\ PushAll(bag, S) \in [State -> Nat]
         /\ \A s \in State : PushAll(bag, S)[s] = IF s \in S THEN bag[s] + 1 ELSE bag[s]
         /\ In(PushAll(bag, S)) = In(bag) \cup (S \cap State)
BY DEF PushAll, In

\* Erasing one of several occurrences.
LEMMA EraseFacts ==
  ASSUME NEW bag \in [State -> Nat], NEW x \in State, bag[x] > 0
  PROVE  /\ Erase(bag, x) \in [State -> Nat]
         /\ Erase(bag, x)[x] = bag[x] - 1
         /\ \A s \in State : s # x => Erase(bag, x)[s] = bag[s]
BY DEF Erase

-----------------------------------------------------------------------------
(* updateStates                                                             *)

\* From what UpdateReady describes, updateStates leads back to the head of a
\* loop and no assert fails.
LEMMA UpdateLeadsToHead ==
  ASSUME TypeOK, failed = "none", UpdateReady, NEW p, updateStates(p)
  PROVE  failed' = "none" /\ AtHead'
<1> DEFINE gone == In(removed) \cap Normal
           new == In(added) \cap Sim
           after == (states \cup In(added)) \ gone
<1>1. /\ \A s \in gone : removed[s] = 1 /\ s \in states \cup In(added) /\ s \notin suspendStatus
      /\ \E top \in Sim \cup {Nil} : InStep(after, top) /\ new \subseteq {top}
                                     /\ (new = {} => top = simTop)
      /\ IF searcher THEN Lists(updatedChildren, after, suspendStatus)
         ELSE ~mode /\ suspended = None /\ new = {}
  BY DEF UpdateReady
<1>2. failed' = "none"
  <2>1. searcher => \A s \in State : ~(updatedChildren[s] < 0)
    BY <1>1 DEF Lists
  <2>2. \A s \in gone : ~(removed[s] > 1 \/ s \notin states \cup In(added))
    BY <1>1
  <2> QED BY <2>1, <2>2 DEF updateStates, TypeOK
<1>3. /\ states' = after /\ added' = None /\ removed' = None
      /\ suspended' = IF searcher THEN None ELSE suspended
      /\ suspendStatus' = suspendStatus \ gone
      /\ children' = IF searcher THEN updatedChildren ELSE children
      /\ searcher' = searcher /\ mode' = mode /\ inhibit' = inhibit /\ dependent' = dependent
      /\ simTop' = IF searcher /\ new # {} THEN CHOOSE s \in new : TRUE ELSE simTop
  BY DEF updateStates, erasedStates
<1>4. suspendStatus' = suspendStatus
  BY <1>1, <1>3
<1>5. PICK top \in Sim \cup {Nil} : InStep(after, top) /\ new \subseteq {top}
                                    /\ (new = {} => top = simTop)
  BY <1>1
<1>6. simTop' = top
  <2>1. CASE new = {}
    BY <2>1, <1>3, <1>5
  <2>2. CASE new # {}
    <3>1. searcher
      BY <2>2, <1>1
    <3>2. new = {top}
      BY <2>2, <1>5
    <3> QED BY <3>1, <3>2, <1>3
  <2> QED BY <2>1, <2>2
<1>7. InStep(states, simTop)'
  BY <1>3, <1>4, <1>5, <1>6 DEF InStep
<1>8. IF searcher' THEN Lists(children, states, suspendStatus)' ELSE ~mode'
  BY <1>1, <1>3, <1>4 DEF Lists
<1>9. Quiet'
  BY <1>1, <1>3 DEF Quiet
<1> QED BY <1>2, <1>7, <1>8, <1>9 DEF AtHead

\* updateStates keeps the allocated states, the count of paths and the seed map
\* in step, provided no state waits to be removed twice.
LEMMA UpdateAccounts ==
  ASSUME TypeOK, Counted, SeedsPartition, failed = "none", NEW p, updateStates(p),
         \A s \in In(removed) \cap Normal : removed[s] = 1
  PROVE  Counted' /\ SeedsPartition' /\ (Allocated => Allocated')
<1> DEFINE gone == In(removed) \cap Normal
<1>1. /\ states' = (states \cup In(added)) \ gone /\ live' = live \ gone
      /\ added' = None /\ removed' = None /\ ended' = ended
      /\ \A s \in State : seeds'[s] = IF s \in gone THEN {} ELSE seeds[s]
  BY DEF updateStates, erasedStates, erasedSeeds, survivors
<1>2. In(added)' = {} /\ \A s \in State : removed'[s] = 0
  BY <1>1, EmptyBag DEF In
<1>3. Counted'
  <2>1. ASSUME NEW s \in Normal, s \in live' PROVE ended'[s] = removed'[s]
    <3>1. s \in State /\ removed[s] \in Nat /\ s \notin gone /\ s \in live
      BY <1>1, <2>1 DEF TypeOK, State
    <3>2. removed[s] = 0
      BY <3>1 DEF In
    <3> QED BY <1>1, <1>2, <3>1, <3>2 DEF Counted
  <2> QED BY <2>1 DEF Counted
<1>4. SeedsPartition'
  <2>1. \A s \in State : /\ seeds[s] # {} => s \in live /\ s \in states \cup In(added)
                         /\ \A t \in State \ {s} : seeds[s] \cap seeds[t] = {}
    BY DEF SeedsPartition
  <2>2. \A s \in State : seeds'[s] # {} => s \in live' /\ s \in states' \cup In(added)'
    BY <1>1, <1>2, <2>1
  <2>3. \A s \in State : \A t \in State \ {s} : seeds'[s] \cap seeds'[t] = {}
    BY <1>1, <2>1
  <2> QED BY <2>2, <2>3 DEF SeedsPartition
<1>5. Allocated => Allocated'
  BY <1>1, <1>2 DEF Allocated
<1> QED BY <1>3, <1>4, <1>5

-----------------------------------------------------------------------------
(* What an instruction leaves to updateStates                               *)

\* An instruction of a normal state has added new states and removed the current
\* state or not.
LEMMA WorkingReady ==
  ASSUME TypeOK, Working
  PROVE  UpdateReady
<1> DEFINE gone == In(removed) \cap Normal
           new == In(added) \cap Sim
           after == (states \cup In(added)) \ gone
<1> USE ExecutorAssumption
<1>1. /\ ~mode /\ suspendStatus = {} /\ ~inhibit /\ states \cap Sim = {}
      /\ suspended = None /\ current \in Normal /\ current \in states
      /\ In(added) \subseteq Normal /\ In(added) \cap states = {}
      /\ \A s \in State : added[s] <= 1
      /\ \A s \in State : removed[s] = 0 \/ (removed[s] = 1 /\ s = current)
      /\ searcher => Lists(children, states, {})
  BY DEF Working, InStep
<1>2. new = {}
  BY <1>1
<1>3. \A s \in gone : removed[s] = 1 /\ s \in states \cup In(added) /\ s \notin suspendStatus
  BY <1>1 DEF In
<1>4. InStep(after, simTop)
  BY <1>1 DEF InStep
<1>5. searcher => Lists(updatedChildren, after, suspendStatus)
  <2> SUFFICES ASSUME searcher PROVE Lists(updatedChildren, after, suspendStatus)
    OBVIOUS
  <2>1. \A s \in State : suspended[s] = 0
    BY <1>1, EmptyBag
  <2>2. \A s \in State : updatedChildren[s] =
          IF s \in Normal THEN children[s] + added[s] - removed[s] ELSE children[s]
    BY <1>1, <2>1 DEF updatedChildren, filteredStates, TypeOK
  <2>3. \A s \in State : children[s] = IF s \in Normal /\ s \in states THEN 1 ELSE 0
    BY <1>1 DEF Lists
  <2>4. \A s \in State : added[s] = IF s \in In(added) THEN 1 ELSE 0
    BY <1>1 DEF In, TypeOK
  <2>5. \A s \in State : removed[s] = IF s \in In(removed) THEN 1 ELSE 0
    BY <1>1 DEF In, TypeOK
  <2>6. In(removed) \subseteq states /\ In(removed) \subseteq Normal
    BY <1>1 DEF In
  <2> HIDE DEF gone, new
  <2>7. \A s \in State : updatedChildren[s] = IF s \in Normal /\ s \in after THEN 1 ELSE 0
    BY <1>1, <2>2, <2>3, <2>4, <2>5, <2>6 DEF gone
  <2> QED BY <1>1, <2>7 DEF Lists
<1>6. simTop \in Sim \cup {Nil}
  BY DEF TypeOK
<1> HIDE DEF gone, new, after
<1>7. IF searcher THEN Lists(updatedChildren, after, suspendStatus)
      ELSE ~mode /\ suspended = None /\ new = {}
  BY <1>1, <1>2, <1>5
<1>8. \E top \in Sim \cup {Nil} : InStep(after, top) /\ new \subseteq {top}
                                  /\ (new = {} => top = simTop)
  BY <1>2, <1>4, <1>6
<1> QED BY <1>3, <1>7, <1>8 DEF UpdateReady, gone, new, after

\* An instruction of a simulation leaves nothing.
LEMMA SimulationReady ==
  ASSUME TypeOK, AtHead, mode
  PROVE  UpdateReady
<1> USE ExecutorAssumption
<1>1. /\ InStep(states, simTop) /\ added = None /\ removed = None /\ suspended = None
      /\ searcher /\ Lists(children, states, suspendStatus) /\ simTop \in Sim
  BY DEF AtHead, InStep, Quiet
<1>2. In(added) = {} /\ In(removed) = {}
  BY <1>1, EmptyBag
<1>3. \A s \in State : updatedChildren[s] = children[s]
  BY <1>1, EmptyBag DEF updatedChildren, filteredStates, TypeOK
<1>4. Lists(updatedChildren, states, suspendStatus)
  BY <1>1, <1>3 DEF Lists
<1>5. (states \cup In(added)) \ (In(removed) \cap Normal) = states
  BY <1>2
<1> QED BY <1>1, <1>2, <1>4, <1>5 DEF UpdateReady

\* The iteration that starts a simulation leaves the simulation state and the
\* state it suspends.
LEMMA StartingReady ==
  ASSUME TypeOK, NEW x \in Sim, Starting(x)
  PROVE  UpdateReady
<1> USE ExecutorAssumption
<1>1. /\ suspendStatus = {current} /\ dependent[x] = current /\ current \in Normal
      /\ current \in states
      /\ searcher /\ mode /\ inhibit /\ states \cap Sim = {}
      /\ added = Push(None, x) /\ removed = None /\ suspended = Push(None, current)
      /\ Lists(children, states, {})
  BY DEF Starting
<1>2. In(added) = {x} /\ In(removed) = {}
  BY <1>1, EmptyBag, Singleton DEF State
<1>3. \A s \in State : /\ added[s] = IF s = x THEN 1 ELSE 0
                       /\ suspended[s] = IF s = current THEN 1 ELSE 0
                       /\ removed[s] = 0
  BY <1>1, EmptyBag, Singleton DEF State
<1>4. \A s \in State : updatedChildren[s] =
        IF s = current THEN children[s] - 1 ELSE children[s]
  BY <1>1, <1>3 DEF updatedChildren, filteredStates, TypeOK, State
<1>5. Lists(updatedChildren, states \cup {x}, suspendStatus)
  BY <1>1, <1>4 DEF Lists, State
<1>6. InStep(states \cup {x}, x)
  BY <1>1 DEF InStep
<1>7. (states \cup In(added)) \ (In(removed) \cap Normal) = states \cup {x}
  BY <1>2
<1> QED BY <1>1, <1>2, <1>5, <1>6, <1>7 DEF UpdateReady

\* What updateStates will find depends on these variables only.
LEMMA ReadyUnchanged ==
  ASSUME UpdateReady,
         UNCHANGED <<states, added, removed, suspended, suspendStatus, dependent,
                     searcher, children, simTop, mode, inhibit>>
  PROVE  UpdateReady'
<1>1. In(added)' = In(added) /\ In(removed)' = In(removed)
  BY DEF In
<1>2. updatedChildren' = updatedChildren
  BY DEF updatedChildren, filteredStates
<1> DEFINE after == (states \cup In(added)) \ (In(removed) \cap Normal)
<1>3. PICK top \in Sim \cup {Nil} :
        /\ InStep(after, top) /\ In(added) \cap Sim \subseteq {top}
        /\ (In(added) \cap Sim = {} => top = simTop)
  BY DEF UpdateReady
<1>4. after' = after /\ InStep(after, top)'
  BY <1>1, <1>3 DEF InStep
<1>5. searcher => Lists(updatedChildren, after, suspendStatus)'
  BY <1>2, <1>4 DEF UpdateReady, Lists
<1>6. \A s \in In(removed) \cap Normal :
        removed[s] = 1 /\ s \in states \cup In(added) /\ s \notin suspendStatus
  BY DEF UpdateReady
<1>7. ~searcher => ~mode /\ suspended = None /\ In(added) \cap Sim = {}
  BY DEF UpdateReady
<1> QED BY <1>1, <1>3, <1>4, <1>5, <1>6, <1>7 DEF UpdateReady

\* Whatever the instruction was, updateStates finds what it expects.
LEMMA InstructionReady ==
  ASSUME TypeOK, InInstruction
  PROVE  UpdateReady
BY WorkingReady, SimulationReady, StartingReady DEF InInstruction

\* The end of a simulation removes and counts no normal state.
LEMMA EndCounts ==
  ASSUME TypeOK, NEW x \in State, endSimulation(x)
  PROVE  \A s \in Normal : removed'[s] = removed[s] /\ ended'[s] = ended[s]
<1>1. /\ x \in Sim
      /\ removed' = PushAll(Push(Push(removed, x), x), states \cap Sim)
      /\ ended' = PushAll(Push(Push(ended, x), x), states \cap Sim)
  BY DEF endSimulation
<1>2. \A s \in Normal : s \in State /\ s # x /\ s \notin states \cap Sim
  BY <1>1, ExecutorAssumption DEF State
<1>3. ASSUME NEW bag \in [State -> Nat], NEW s \in Normal
      PROVE  PushAll(Push(Push(bag, x), x), states \cap Sim)[s] = bag[s]
  <2>1. /\ Push(bag, x) \in [State -> Nat] /\ Push(bag, x)[s] = bag[s]
    BY <1>2, PushFacts
  <2>2. /\ Push(Push(bag, x), x) \in [State -> Nat]
        /\ Push(Push(bag, x), x)[s] = Push(bag, x)[s]
    BY <1>2, <2>1, PushFacts
  <2> QED BY <1>2, <2>1, <2>2, PushAllFacts
<1>4. removed \in [State -> Nat] /\ ended \in [State -> Nat]
  BY DEF TypeOK
<1> QED BY <1>1, <1>3, <1>4

\* The simulation state terminates.
LEMMA EndStep ==
  ASSUME TypeOK, AtHead, mode, endSimulation(simTop),
         UNCHANGED <<suspended, searcher, children, simTop, dependent>>
  PROVE  UpdateReady' /\ states' = states \ Sim /\ In(added)' \subseteq states \cap Normal
<1> USE ExecutorAssumption
<1> DEFINE d == dependent[simTop]
<1>1. /\ suspendStatus = {d} /\ d \in Normal /\ d \in states /\ simTop \in Sim
      /\ added = None /\ removed = None /\ suspended = None
      /\ searcher /\ Lists(children, states, suspendStatus)
  BY DEF AtHead, InStep, Quiet
<1>2. /\ mode' = FALSE /\ inhibit' = FALSE /\ suspendStatus' = {}
      /\ added' = Push(None, d) /\ states' = states \ Sim
  BY <1>1 DEF endSimulation
<1>3. \A s \in State : added'[s] = IF s = d THEN 1 ELSE 0
  BY <1>1, <1>2, Singleton DEF State
<1>4. \A s \in Normal : removed'[s] = 0
  <2>1. simTop \in State /\ \A s \in Normal : s \in State
    BY <1>1 DEF State
  <2> QED BY <1>1, <2>1, EndCounts, EmptyBag
<1>5. In(added)' = {d}
  BY <1>1, <1>3 DEF In, State
<1>6. In(removed)' \cap Normal = {}
  BY <1>4 DEF In, State
<1>7. ((states \cup In(added)) \ (In(removed) \cap Normal))' = states \ Sim
  BY <1>1, <1>2, <1>5, <1>6
<1>8. \A s \in State : updatedChildren'[s] =
         IF s = d THEN children[s] + 1 ELSE children[s]
  <2>1. \A s \in State : suspended'[s] = 0 /\ children'[s] = children[s] /\ children[s] \in Int
    BY <1>1, EmptyBag DEF TypeOK
  <2>2. \A s \in Normal : filteredStates'[s] = 0
    BY <1>2, <1>4 DEF filteredStates, State
  <2>3. \A s \in State : updatedChildren'[s] =
           IF s \in Normal THEN children[s] + added'[s] ELSE children[s]
    BY <2>1, <2>2, <1>3 DEF updatedChildren
  <2> QED BY <2>1, <2>3, <1>1, <1>3
<1>9. Lists(updatedChildren', states \ Sim, {})
  BY <1>1, <1>8 DEF Lists, State
<1>10. InStep(states, simTop)'
  BY <1>2 DEF InStep
<1>11. simTop' \in Sim \cup {Nil} /\ In(added)' \cap Sim = {}
  BY <1>1, <1>5
<1>12. UpdateReady'
  BY <1>1, <1>2, <1>6, <1>7, <1>9, <1>10, <1>11 DEF UpdateReady
<1> QED BY <1>1, <1>2, <1>5, <1>12

-----------------------------------------------------------------------------
(* Types                                                                    *)

\* Push keeps a vector a vector.
LEMMA PushType ==
  ASSUME NEW bag \in [State -> Nat], NEW x
  PROVE  Push(bag, x) \in [State -> Nat]
<1>1. CASE x \in State
  BY <1>1, PushFacts
<1>2. CASE x \notin State
  <2>1. \A s \in State : Push(bag, x)[s] = bag[s]
    BY <1>2 DEF Push
  <2>2. Push(bag, x) = [s \in State |-> Push(bag, x)[s]]
    BY DEF Push
  <2> QED BY <2>1, <2>2
<1> QED BY <1>1, <1>2

\* terminateState keeps the types of what it changes.
LEMMA TerminateType ==
  ASSUME TypeOK, failed = "none", NEW s \in State, terminateState(s)
  PROVE  /\ live' \subseteq State /\ states' \subseteq State
         /\ added' \in [State -> Nat] /\ removed' \in [State -> Nat]
         /\ ended' \in [State -> Nat] /\ suspendStatus' \subseteq State
         /\ seeds' \in [State -> SUBSET Seed] /\ mode' \in BOOLEAN /\ inhibit' \in BOOLEAN
         /\ failed' \in {"none", "use after delete", "erased iterator", "getDependentState"}
<1>1. CASE queueRemoval(s)
  BY <1>1, PushType DEF queueRemoval, TypeOK
<1>2. CASE deleteAdded(s)
  <2>1. added' \in [State -> Nat]
    BY <1>2, EraseFacts DEF deleteAdded, TypeOK
  <2>2. seeds' \in [State -> SUBSET Seed]
    BY <1>2 DEF deleteAdded, TypeOK
  <2>3. ended' \in [State -> Nat]
    BY <1>2, PushType DEF deleteAdded, TypeOK
  <2> QED BY <1>2, <2>1, <2>2, <2>3 DEF deleteAdded, TypeOK
<1>3. CASE endSimulation(s)
  <2>1. /\ Push(Push(removed, s), s) \in [State -> Nat]
        /\ Push(Push(ended, s), s) \in [State -> Nat]
        /\ added' \in [State -> Nat]
    BY <1>3, PushType DEF endSimulation, TypeOK
  <2>2. removed' \in [State -> Nat] /\ ended' \in [State -> Nat]
    BY <1>3, <2>1, PushAllFacts DEF endSimulation
  <2> QED BY <1>3, <2>1, <2>2 DEF endSimulation, TypeOK
<1>4. CASE abortSimulation(s)
  BY <1>4 DEF abortSimulation, TypeOK
<1> QED BY <1>1, <1>2, <1>3, <1>4 DEF terminateState

=============================================================================
