---------------------------- MODULE ExecutorLoop ----------------------------
(***************************************************************************)
(* Seeding, selecting, simulating, updating and killing in run() preserve  *)
(* the inductive invariant.                                                *)
(***************************************************************************)
EXTENDS ExecutorForks

\* updateStates keeps the types.
LEMMA UpdateType ==
  ASSUME TypeOK, failed = "none", NEW p \in Phase, updateStates(p), halt' \in BOOLEAN
  PROVE  TypeOK'
<1>1. simTop' \in Sim \cup {Nil}
  <2>1. CASE searcher /\ In(added) \cap Sim # {}
    <3>1. simTop' = CHOOSE s \in In(added) \cap Sim : TRUE
      BY <2>1 DEF updateStates
    <3> QED BY <2>1, <3>1
  <2>2. CASE ~(searcher /\ In(added) \cap Sim # {})
    <3>1. simTop' = simTop
      BY <2>2 DEF updateStates
    <3> QED BY <3>1 DEF TypeOK
  <2> QED BY <2>1, <2>2
<1>2. \A s \in State : updatedChildren[s] \in Int
  <2>1. \A s \in State : /\ children[s] \in Int /\ added[s] \in Nat
                         /\ filteredStates[s] \in Nat /\ suspended[s] \in Nat
    BY DEF TypeOK, filteredStates
  <2> QED BY <2>1 DEF updatedChildren
<1>3. updatedChildren \in [State -> Int]
  BY <1>2 DEF updatedChildren
<1>4. children' \in [State -> Int] /\ suspended' \in [State -> Nat]
  BY <1>3, EmptyBag DEF updateStates, TypeOK
<1>5. added' \in [State -> Nat] /\ removed' \in [State -> Nat]
  BY EmptyBag DEF updateStates
<1>6. seeds' \in [State -> SUBSET Seed]
  BY DEF updateStates, erasedSeeds, TypeOK
<1>7. failed' \in Failure
  BY DEF updateStates, Failure
<1>8. /\ live' \subseteq State /\ states' \subseteq State /\ todo' \subseteq State
      /\ suspendStatus' \subseteq State /\ current' \in State \cup {Nil}
  BY DEF updateStates, survivors, erasedStates, In, TypeOK
<1> QED BY <1>1, <1>4, <1>5, <1>6, <1>7, <1>8 DEF updateStates, TypeOK

\* The end of an iteration.
LEMMA UpdateAfterStepKeeps ==
  ASSUME IInv, failed = "none", updateAfterStep
  PROVE  IInv'
<1> DEFINE p == IF searcher THEN "memory" ELSE "seed"
<1>1. phase = "update" /\ updateStates(p) /\ TypeOK /\ PhaseOK /\ SeedsPartition /\ p \in Phase
  BY DEF updateAfterStep, IInv, VectorsInStep, Phase
<1>2. halt' \in BOOLEAN
  BY <1>1, ExecutorAssumption DEF updateAfterStep, TypeOK
<1>3. UpdateReady /\ Allocated /\ Counted /\ doomed = {}
  BY <1>1 DEF PhaseOK
<1>4. phase' = p /\ searcher' = searcher /\ doomed' = {}
  BY <1>1, <1>3 DEF updateStates
<1> HIDE DEF p
<1>5. TypeOK'
  BY <1>1, <1>2, UpdateType
<1>6. failed' = "none" /\ AtHead'
  BY <1>1, <1>3, UpdateLeadsToHead
<1>7. Counted' /\ SeedsPartition' /\ Allocated'
  <2>1. \A s \in In(removed) \cap Normal : removed[s] = 1
    BY <1>3 DEF UpdateReady
  <2> QED BY <1>1, <1>3, <2>1, UpdateAccounts
<1> QED BY <1>4, <1>5, <1>6, <1>7 DEF p, IInv, VectorsInStep, PhaseOK, AssertsHold

\* The memory cap comes into play or not.
LEMMA MemoryKeeps ==
  ASSUME Covered, IInv, failed = "none", checkMemoryUsage
  PROVE  IInv'
<1>1. phase = "memory" /\ TypeOK /\ PhaseOK /\ SeedsPartition
  BY DEF checkMemoryUsage, IInv, VectorsInStep
<1>2. AtHead /\ searcher /\ Allocated /\ Counted /\ doomed = {}
  BY <1>1 DEF PhaseOK
<1>3. TypeOK' /\ AssertsHold'
  BY <1>1, ExecutorAssumption DEF checkMemoryUsage, keep, TypeOK, AssertsHold, Phase
<1>4. Allocated' /\ Counted' /\ SeedsPartition' /\ doomed' = {}
  BY <1>1, <1>2 DEF checkMemoryUsage, keep, In, Allocated, Counted, SeedsPartition
<1>5. CASE phase' = "loop"
  <2>1. AtHead' /\ searcher'
    BY <1>2 DEF checkMemoryUsage, keep, AtHead, Quiet, InStep, Lists
  <2> QED BY <1>3, <1>4, <1>5, <2>1 DEF IInv, VectorsInStep, PhaseOK
<1>6. CASE MemoryCap /\ phase' = "kill" /\ todo' = states
  <2>1. ~mode
    BY <1>2, <1>6 DEF Covered, AtHead, InStep
  <2>2. suspendStatus = {} /\ added = None /\ removed = None /\ suspended = None
    BY <1>2, <2>1 DEF AtHead, Quiet, InStep
  <2>3. Killing'
    BY <1>2, <1>6, <2>1, <2>2, EmptyBag
       DEF checkMemoryUsage, keep, Killing, AtHead, InStep, Lists
  <2> QED BY <1>3, <1>4, <1>6, <2>3 DEF IInv, VectorsInStep, PhaseOK
<1> QED BY <1>5, <1>6 DEF checkMemoryUsage

\* A state is killed.
LEMMA KillKeeps ==
  ASSUME Covered, IInv, failed = "none", killState
  PROVE  IInv'
<1>1. phase = "kill" /\ phase' \in {"kill", "killed"} /\ TypeOK /\ PhaseOK /\ SeedsPartition
  BY DEF killState, IInv, VectorsInStep
<1>2. MemoryCap /\ Killing /\ Allocated /\ Counted /\ doomed = {}
  BY <1>1 DEF PhaseOK
<1>3. PICK s \in todo : terminateState(s) /\ todo' = todo \ {s}
  BY DEF killState
<1>4. s \in State /\ s \in states /\ removed[s] = 0 /\ added[s] = 0 /\ s \in Normal
  <2>1. s \in states /\ s \in State
    BY <1>1, <1>2, <1>3 DEF Killing, TypeOK
  <2>2. s \notin Sim
    BY <1>2, <2>1 DEF Killing, InStep
  <2>3. added[s] = 0
    BY <1>2, <2>1, EmptyBag DEF Killing
  <2>4. removed[s] = 0
    BY <1>2, <1>3, <2>1 DEF Killing
  <2> QED BY <2>1, <2>2, <2>3, <2>4 DEF State
<1>5. queueRemoval(s)
  <2>1. ~deleteAdded(s)
    BY <1>4 DEF deleteAdded
  <2>2. ~endSimulation(s) /\ ~abortSimulation(s)
    BY <1>2 DEF Killing, endSimulation, abortSimulation
  <2> QED BY <1>3, <2>1, <2>2 DEF terminateState
<1>6. TypeOK' /\ AssertsHold'
  <2>1. todo' \subseteq State
    BY <1>1, <1>3 DEF TypeOK
  <2> QED BY <1>1, <1>3, <1>4, <2>1, TerminateType
          DEF killState, TypeOK, AssertsHold, Phase, Failure
<1>7. Allocated' /\ SeedsPartition' /\ doomed' = {}
  BY <1>1, <1>2, <1>5 DEF killState, queueRemoval, In, Allocated, SeedsPartition
<1>8. /\ removed'[s] = removed[s] + 1 /\ ended'[s] = ended[s] + 1
      /\ \A x \in State : x # s => removed'[x] = removed[x] /\ ended'[x] = ended[x]
  BY <1>1, <1>4, <1>5, PushFacts DEF queueRemoval, TypeOK
<1>9. Killing'
  <2>1. \A x \in State : removed'[x] = 0 \/ (removed'[x] = 1 /\ x \in states \ todo')
    BY <1>2, <1>3, <1>4, <1>8 DEF Killing
  <2> QED BY <1>2, <1>3, <1>5, <2>1 DEF queueRemoval, killState, Killing, InStep, Lists
<1>10. Counted'
  <2>1. ASSUME NEW x \in Normal, x \in live PROVE ended'[x] = removed'[x]
    BY <1>2, <1>8, <2>1 DEF Counted, State
  <2> QED BY <1>5, <2>1 DEF Counted, queueRemoval
<1> QED BY <1>1, <1>2, <1>6, <1>7, <1>9, <1>10 DEF IInv, VectorsInStep, PhaseOK

\* What the memory cap leaves behind is what updateStates expects.
LEMMA KilledReady ==
  ASSUME TypeOK, Killing
  PROVE  UpdateReady
<1> DEFINE gone == In(removed) \cap Normal
           after == (states \cup In(added)) \ gone
<1>1. /\ added = None /\ suspended = None /\ searcher /\ ~mode
      /\ suspendStatus = {} /\ ~inhibit /\ states \cap Sim = {} /\ In(added) = {}
      /\ Lists(children, states, {})
      /\ \A s \in State : removed[s] = 0 \/ (removed[s] = 1 /\ s \in states \ todo)
  BY EmptyBag DEF Killing, InStep
<1>2. \A s \in gone : removed[s] = 1 /\ s \in states \cup In(added) /\ s \notin suspendStatus
  BY <1>1 DEF In
<1>3. InStep(after, simTop)
  BY <1>1 DEF InStep
<1>4. \A s \in State : updatedChildren[s] = IF s \in Normal THEN children[s] - removed[s] ELSE children[s]
  BY <1>1, EmptyBag DEF updatedChildren, filteredStates, TypeOK
<1>5. \A s \in State : s \in Normal => (s \in after <=> s \in states /\ removed[s] = 0)
  BY <1>1 DEF In
<1>6. Lists(updatedChildren, after, suspendStatus)
  BY <1>1, <1>4, <1>5 DEF Lists
<1>7. simTop \in Sim \cup {Nil}
  BY DEF TypeOK
<1> QED BY <1>1, <1>2, <1>3, <1>6, <1>7 DEF UpdateReady

\* updateStates after the kills.
LEMMA UpdateAfterKillKeeps ==
  ASSUME IInv, failed = "none", updateAfterKill
  PROVE  IInv'
<1>1. phase \in {"kill", "killed"} /\ updateStates("loop") /\ TypeOK /\ PhaseOK
      /\ SeedsPartition /\ halt' = halt
  BY DEF updateAfterKill, IInv, VectorsInStep
<1>2. Killing /\ Allocated /\ Counted /\ doomed = {}
  BY <1>1 DEF PhaseOK
<1>3. TypeOK'
  BY <1>1, UpdateType DEF TypeOK, Phase
<1>4. failed' = "none" /\ AtHead'
  BY <1>1, <1>2, KilledReady, UpdateLeadsToHead
<1>5. searcher' /\ phase' = "loop" /\ doomed' = {}
  BY <1>1, <1>2 DEF updateStates, Killing
<1>6. Counted' /\ SeedsPartition' /\ Allocated'
  <2>1. \A s \in In(removed) \cap Normal : removed[s] = 1
    BY <1>2 DEF Killing, In
  <2> QED BY <1>1, <1>2, <2>1, UpdateAccounts
<1> QED BY <1>3, <1>4, <1>5, <1>6 DEF IInv, VectorsInStep, PhaseOK, AssertsHold

\* The head of a loop: what PhaseOK says there.
LEMMA LoopHead ==
  ASSUME IInv, failed = "none", phase \in {"seed", "loop"}
  PROVE  /\ TypeOK /\ AssertsHold /\ SeedsPartition /\ AtHead /\ (searcher <=> phase = "loop")
         /\ added = None /\ removed = None /\ suspended = None /\ In(added) = {}
         /\ Allocated /\ Counted /\ doomed = {}
         /\ \A s \in State : seeds[s] # {} => s \in states
         /\ ~mode => states \cap Sim = {} /\ suspendStatus = {}
<1>1. TypeOK /\ PhaseOK /\ AssertsHold /\ SeedsPartition
  BY DEF IInv, VectorsInStep
<1>2. AtHead /\ (searcher <=> phase = "loop") /\ Allocated /\ Counted /\ doomed = {}
  BY <1>1 DEF PhaseOK
<1>3. added = None /\ removed = None /\ suspended = None /\ In(added) = {}
  BY <1>2, EmptyBag DEF AtHead, Quiet
<1>4. ~mode => states \cap Sim = {} /\ suspendStatus = {}
  BY <1>2 DEF AtHead, InStep
<1>5. \A s \in State : seeds[s] # {} => s \in states
  BY <1>1, <1>3 DEF SeedsPartition
<1> QED BY <1>1, <1>2, <1>3, <1>4, <1>5

\* A state of the right kind is chosen for execution.
LEMMA ChosenKeeps ==
  ASSUME IInv, failed = "none", phase \in {"seed", "loop"}, NEW s \in states, chosen(s),
         IF mode THEN s = simTop ELSE s \in Normal
  PROVE  IInv'
<1>0. /\ phase' = "execute" /\ current' = s /\ acts' = {s}
      /\ UNCHANGED <<doomed, states, removed, seeds, searcher, children, simTop, atLimit,
                     halt, todo, failed, live, added, suspended, suspendStatus,
                     dependent, simulated, mode, inhibit, ended>>
  BY DEF chosen, choosing
<1>1. TypeOK' /\ AssertsHold'
  BY <1>0, LoopHead DEF TypeOK, AssertsHold, Phase
<1>2. AtHead'
  BY <1>0, LoopHead DEF AtHead, Quiet, InStep, Lists
<1>3. In(added)' = {} /\ \A x \in State : added'[x] = 0 /\ removed'[x] = 0
  BY <1>0, LoopHead, EmptyBag DEF In
<1>4. Allocated' /\ Counted' /\ SeedsPartition'
  BY <1>0, <1>3, LoopHead DEF Allocated, Counted, SeedsPartition
<1>5. InInstruction'
  <2>1. CASE mode
    BY <1>0, <1>2, <2>1, LoopHead DEF InInstruction
  <2>2. CASE ~mode
    <3>1. /\ InStep(states, simTop)' /\ suspended' = None
          /\ searcher' => Lists(children, states, {})'
      BY <1>0, <1>2, <2>2 DEF AtHead, Quiet, InStep
    <3>2. Working'
      <4>1. current' \in Normal \cap states' /\ ~mode'
        BY <1>0, <2>2
      <4>2. In(added)' \subseteq Normal \ states' /\ doomed' = {}
        BY <1>0, <1>3, LoopHead
      <4>3. \A x \in State : added'[x] <= 1
        BY <1>3
      <4> QED BY <1>0, <1>3, <3>1, <4>1, <4>2, <4>3 DEF Working
    <3> QED BY <3>2 DEF InInstruction
  <2> QED BY <2>1, <2>2
<1> QED BY <1>0, <1>1, <1>4, <1>5, StillExecuting

\* The seeding loop picks a state.
LEMMA SeededKeeps ==
  ASSUME IInv, failed = "none", selectSeeded
  PROVE  IInv'
<1>1. phase = "seed"
  BY DEF selectSeeded
<1>2. PICK s \in State : seeds[s] # {} /\ chosen(s)
  BY DEF selectSeeded
<1>3. s \in states /\ ~mode
  BY <1>1, <1>2, LoopHead DEF AtHead
<1>4. s \in Normal
  BY <1>1, <1>3, LoopHead DEF State
<1> QED BY <1>1, <1>2, <1>3, <1>4, ChosenKeeps

\* The searcher is constructed.
LEMMA ConstructKeeps ==
  ASSUME IInv, failed = "none", constructSearcher
  PROVE  IInv'
<1>1. phase = "seed" /\ phase' = "loop" /\ children' = PushAll(None, states)
  BY DEF constructSearcher
<1>2. ~mode /\ states \cap Sim = {} /\ suspendStatus = {}
  BY <1>1, LoopHead DEF AtHead
<1>3. /\ children' \in [State -> Int]
      /\ \A s \in State : children'[s] = IF s \in states THEN 1 ELSE 0
  BY <1>1, EmptyBag, PushAllFacts
<1>4. TypeOK' /\ AssertsHold'
  BY <1>1, <1>3, LoopHead DEF constructSearcher, TypeOK, AssertsHold, Phase, IInv
<1>5. Lists(children, states, suspendStatus)'
  BY <1>2, <1>3 DEF constructSearcher, Lists, State
<1>6. AtHead' /\ searcher'
  BY <1>1, <1>2, <1>5, LoopHead DEF constructSearcher, AtHead, Quiet, InStep
<1>7. Allocated' /\ Counted' /\ SeedsPartition' /\ doomed' = {}
  BY <1>1, LoopHead DEF constructSearcher, In, Allocated, Counted, SeedsPartition
<1> QED BY <1>1, <1>4, <1>6, <1>7 DEF IInv, VectorsInStep, PhaseOK

\* What the core searcher lists in normal mode.
LEMMA Listed ==
  ASSUME IInv, failed = "none", phase = "loop", ~mode
  PROVE  /\ \A s \in State : children[s] = IF s \in Normal /\ s \in states THEN 1 ELSE 0
         /\ In(children) = states /\ states \subseteq Normal
<1>1. \A s \in State : children[s] = IF s \in Normal /\ s \in states THEN 1 ELSE 0
  BY LoopHead DEF AtHead, Lists
<1>2. states \subseteq Normal
  BY LoopHead DEF TypeOK, State
<1>3. In(children) = states
  BY <1>1, <1>2 DEF In, State
<1> QED BY <1>1, <1>2, <1>3

\* The core searcher picks a state; it always has one.
LEMMA SelectKeeps ==
  ASSUME IInv, failed = "none", selectState
  PROVE  IInv'
<1>1. phase = "loop" /\ ~mode /\ states # {}
  BY DEF selectState, inLoop
<1>2. In(children) # {}
  BY <1>1, Listed
<1>3. PICK s \in In(children) : chosen(s)
  BY <1>2 DEF selectState
<1>4. s \in states /\ s \in Normal
  BY <1>1, <1>3, Listed
<1> QED BY <1>1, <1>3, <1>4, ChosenKeeps

\* A simulation starts.
LEMMA DoSimulationKeeps ==
  ASSUME IInv, failed = "none", doSimulation
  PROVE  IInv'
<1>1. phase = "loop" /\ ~mode
  BY DEF doSimulation, inLoop
<1>2. PICK s \in Normal, x \in Sim \ live :
        /\ expandable(s) /\ choosing(s)
        /\ mode' = TRUE /\ inhibit' = TRUE
        /\ suspendState(s)
        /\ live' = live \cup {x} /\ dependent' = [dependent EXCEPT ![x] = s]
        /\ added' = Push(added, x) /\ simulated' = simulated \cup {s}
  BY DEF doSimulation
<1>3. s \in states
  BY <1>1, <1>2, Listed DEF expandable
<1>4. s \in State /\ x \in State
  BY DEF State
<1>5. /\ added' = Push(None, x) /\ suspended' = Push(None, s) /\ suspendStatus' = {s}
      /\ phase' = "execute" /\ current' = s /\ acts' = {s} /\ doomed' = {}
      /\ UNCHANGED <<states, removed, seeds, searcher, children, simTop, atLimit, halt,
                     todo, failed, ended>>
  BY <1>1, <1>2, LoopHead DEF choosing, suspendState, doSimulation
<1>6. /\ added' \in [State -> Nat] /\ suspended' \in [State -> Nat] /\ In(added)' = {x}
  BY <1>4, <1>5, Singleton DEF In
<1>7. dependent' \in [Sim -> Normal \cup {Nil}] /\ dependent'[x] = s
  BY <1>1, <1>2, LoopHead DEF TypeOK
<1>8. TypeOK' /\ AssertsHold'
  <2>1. TypeOK /\ AssertsHold
    BY DEF IInv
  <2>2. /\ live' \subseteq State /\ suspendStatus' \subseteq State
        /\ simulated' \subseteq State /\ acts' \subseteq State
    BY <1>2, <1>4, <1>5, <2>1 DEF TypeOK
  <2> QED BY <1>2, <1>4, <1>5, <1>6, <1>7, <2>1, <2>2 DEF TypeOK, AssertsHold, Phase
<1>9. Starting(x)'
  <2>1. Lists(children, states, {})'
    BY <1>1, <1>5, Listed DEF Lists
  <2>2. searcher' /\ removed' = None /\ states' \cap Sim = {}
    BY <1>1, <1>5, LoopHead
  <2> QED BY <1>2, <1>3, <1>5, <1>7, <2>1, <2>2 DEF Starting
<1>10. InInstruction'
  BY <1>5, <1>9 DEF InInstruction
<1>11. Allocated'
  <2>1. x \notin Normal
    BY ExecutorAssumption
  <2> QED BY <1>1, <1>2, <1>5, <1>6, <2>1, LoopHead DEF Allocated
<1>12. Counted' /\ SeedsPartition'
  <2>1. Counted'
    BY <1>1, <1>2, <1>5, LoopHead, ExecutorAssumption DEF Counted
  <2>2. SeedsPartition'
    BY <1>1, <1>2, <1>5, LoopHead DEF SeedsPartition
  <2> QED BY <2>1, <2>2
<1> QED BY <1>5, <1>8, <1>10, <1>11, <1>12, StillExecuting

\* The simulation searcher picks the simulation state.
LEMMA SelectSimulationKeeps ==
  ASSUME Covered, IInv, failed = "none", selectSimulation
  PROVE  IInv'
<1>1. phase = "loop" /\ mode
  BY DEF selectSimulation, inLoop
<1>2. simTop \in Sim /\ simTop \in states
  BY <1>1, LoopHead DEF AtHead, InStep
<1>3. chosen(simTop)
  BY <1>2 DEF selectSimulation, Covered
<1> QED BY <1>1, <1>2, <1>3, ChosenKeeps

=============================================================================
