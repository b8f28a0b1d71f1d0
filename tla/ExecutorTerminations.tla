------------------------ MODULE ExecutorTerminations ------------------------
(***************************************************************************)
(* An instruction that terminates one of its states preserves the          *)
(* inductive invariant.                                                    *)
(***************************************************************************)
EXTENDS ExecutorVectors

\* What the invariant says in the middle of an instruction.
LEMMA Executing ==
  ASSUME IInv, failed = "none", phase = "execute"
  PROVE  TypeOK /\ Allocated /\ Counted /\ InInstruction /\ SeedsPartition
BY DEF IInv, VectorsInStep, PhaseOK

\* The states an instruction works on: a normal state and those it has forked,
\* a simulation, or a state just suspended.
LEMMA Subjects ==
  ASSUME IInv, failed = "none", phase = "execute", NEW c \in acts \cup doomed
  PROVE  /\ c \in State
         /\ \/ Working
            \/ AtHead /\ mode /\ c = simTop /\ c \in Sim /\ acts = {c} /\ doomed = {}
            \/ mode /\ inhibit /\ c \in Normal /\ Sim # {}
<1>1. TypeOK /\ InInstruction
  BY Executing
<1>2. c \in State
  BY <1>1 DEF TypeOK
<1>3. CASE Working
  BY <1>2, <1>3
<1>4. CASE ~Working
  <2>1. doomed = {} /\ acts \subseteq {current} /\ c = current /\ acts = {c}
    BY <1>1, <1>4 DEF InInstruction
  <2>2. \/ AtHead /\ mode /\ current = simTop
        \/ \E x \in Sim : Starting(x)
    BY <1>1, <1>4, <2>1 DEF InInstruction
  <2>3. CASE AtHead /\ mode /\ current = simTop
    BY <1>2, <2>1, <2>3 DEF AtHead, InStep
  <2>4. CASE \E x \in Sim : Starting(x)
    BY <1>2, <2>1, <2>4 DEF Starting
  <2> QED BY <2>2, <2>3, <2>4
<1> QED BY <1>3, <1>4

\* Where there are simulations there are no seeds.
LEMMA NoSeeds ==
  ASSUME Covered, TypeOK, Sim # {}
  PROVE  Seed = {} /\ \A s \in State : seeds[s] = {}
BY DEF Covered, TypeOK

\* An instruction queues the current state for removal.
LEMMA QueueWorks ==
  ASSUME TypeOK, Working, Allocated, Counted, SeedsPartition, failed = "none", instruction,
         current \in acts \cup doomed, queueRemoval(current),
         acts' = acts \ {current}, doomed' = doomed \ {current}
  PROVE  Working' /\ Allocated' /\ Counted' /\ SeedsPartition'
<1> DEFINE c == current
<1>1. /\ c \in State /\ removed[c] = 0 /\ removed \in [State -> Nat] /\ ended \in [State -> Nat]
  BY DEF Working, TypeOK
<1>2. /\ removed' = Push(removed, c) /\ ended' = Push(ended, c)
      /\ UNCHANGED <<current, live, states, added, suspended, suspendStatus, seeds,
                     searcher, children, simTop, dependent, mode, inhibit, failed>>
  BY DEF queueRemoval, instruction
<1>3. /\ removed'[c] = 1 /\ ended'[c] = ended[c] + 1
      /\ \A s \in State : s # c => removed'[s] = removed[s] /\ ended'[s] = ended[s]
  BY <1>1, <1>2, PushFacts
<1>4. In(added)' = In(added)
  BY <1>2 DEF In
<1>5. Working'
  <2>1. \A s \in State :
          removed'[s] = 0 \/ (removed'[s] = 1 /\ s = current' /\ s \notin acts' \cup doomed')
    BY <1>2, <1>3 DEF Working
  <2>2. InStep(states, simTop)' /\ (searcher' => Lists(children, states, {})')
    BY <1>2 DEF Working, InStep, Lists
  <2> QED BY <1>2, <1>4, <2>1, <2>2 DEF Working
<1>6. Allocated'
  BY <1>2, <1>4 DEF Allocated
<1>7. Counted'
  <2>1. ASSUME NEW s \in Normal, s \in live PROVE ended'[s] = removed'[s]
    BY <1>1, <1>3, <2>1 DEF Counted, State
  <2> QED BY <1>2, <2>1 DEF Counted
<1>8. SeedsPartition'
  BY <1>2, <1>4 DEF SeedsPartition
<1> QED BY <1>5, <1>6, <1>7, <1>8

\* An instruction terminates a state it has forked.
LEMMA DeleteWorks ==
  ASSUME TypeOK, Working, Allocated, Counted, SeedsPartition, failed = "none", instruction,
         NEW c \in In(added), deleteAdded(c),
         acts' = acts \ {c}, doomed' = doomed \ {c}
  PROVE  Working' /\ Allocated' /\ Counted' /\ (SeedsPartition' \/ failed' # "none")
<1>1. /\ c \in State /\ c \in Normal /\ added[c] = 1 /\ c \notin states /\ c # current
      /\ added \in [State -> Nat] /\ ended \in [State -> Nat]
  BY DEF Working, TypeOK, In
<1>2. /\ added' = Erase(added, c) /\ live' = live \ {c} /\ ended' = Push(ended, c)
      /\ suspendStatus' = suspendStatus \ {c} /\ seeds' = [seeds EXCEPT ![c] = {}]
      /\ UNCHANGED <<current, states, removed, suspended, searcher, children, simTop,
                     dependent, mode, inhibit>>
  BY DEF deleteAdded, instruction
<1>3. /\ added'[c] = 0 /\ \A s \in State : s # c => added'[s] = added[s]
      /\ \A s \in State : s # c => ended'[s] = ended[s]
  BY <1>1, <1>2, EraseFacts, PushFacts
<1>4. In(added)' = In(added) \ {c}
  BY <1>3 DEF In
<1>5. suspendStatus = {} /\ suspendStatus' = {}
  BY <1>2 DEF Working, InStep
<1>6. Working'
  <2>1. InStep(states, simTop)' /\ (searcher' => Lists(children, states, {})')
    BY <1>2, <1>5 DEF Working, InStep, Lists
  <2>2. \A s \in State : added'[s] <= 1
    BY <1>3 DEF Working
  <2>3. \A s \in State :
          removed'[s] = 0 \/ (removed'[s] = 1 /\ s = current' /\ s \notin acts' \cup doomed')
    BY <1>2 DEF Working
  <2>4. acts' \cup doomed' \subseteq In(added)' \cup {current'}
    BY <1>2, <1>4 DEF Working
  <2>5. In(added)' \subseteq Normal \ states'
    BY <1>2, <1>4 DEF Working
  <2> QED BY <1>2, <2>1, <2>2, <2>3, <2>4, <2>5 DEF Working
<1>7. Allocated'
  BY <1>1, <1>2, <1>4 DEF Allocated
<1>8. Counted'
  <2>1. ASSUME NEW s \in Normal, s \in live' PROVE ended'[s] = removed'[s]
    BY <1>2, <1>3, <2>1 DEF Counted, State
  <2> QED BY <2>1 DEF Counted
<1>9. SeedsPartition'
  <2>1. \A s \in State : seeds'[s] = IF s = c THEN {} ELSE seeds[s]
    BY <1>2 DEF TypeOK
  <2>2. \A s \in State : seeds'[s] # {} => s \in live' /\ s \in states' \cup In(added)'
    BY <1>2, <1>4, <2>1 DEF SeedsPartition
  <2>3. \A s \in State : \A t \in State \ {s} : seeds'[s] \cap seeds'[t] = {}
    BY <2>1 DEF SeedsPartition
  <2> QED BY <2>2, <2>3 DEF SeedsPartition
<1> QED BY <1>6, <1>7, <1>8, <1>9

\* A simulation ends.
LEMMA EndWorks ==
  ASSUME TypeOK, AtHead, mode, simTop \in State, Allocated, Counted, SeedsPartition,
         failed = "none", instruction, endSimulation(simTop), \A s \in State : seeds[s] = {}
  PROVE  UpdateReady' /\ Allocated' /\ Counted' /\ SeedsPartition'
<1>1. UpdateReady' /\ states' = states \ Sim /\ In(added)' \subseteq states \cap Normal
  BY EndStep DEF instruction
<1>2. live' = live /\ seeds' = seeds
  BY DEF endSimulation
<1>3. In(added) = {}
  BY EmptyBag DEF AtHead, Quiet
<1>4. Allocated'
  BY <1>1, <1>2, <1>3, ExecutorAssumption DEF Allocated
<1>5. Counted'
  BY <1>2, EndCounts DEF Counted
<1>6. SeedsPartition'
  BY <1>2 DEF SeedsPartition
<1> QED BY <1>1, <1>4, <1>5, <1>6

\* In the middle of an instruction the invariant comes down to these facts.
LEMMA StillExecuting ==
  ASSUME TypeOK', AssertsHold', phase' = "execute",
         failed' = "none" => Allocated' /\ Counted' /\ InInstruction' /\ SeedsPartition'
  PROVE  IInv'
<1>1. SeedsPartition'
  BY DEF SeedsPartition
<1>2. VectorsInStep'
  BY DEF VectorsInStep, PhaseOK
<1> QED BY <1>1, <1>2 DEF IInv

\* An instruction terminates one of its states.
LEMMA TerminationKeeps ==
  ASSUME Covered, IInv, failed = "none", instruction, NEW c \in acts \cup doomed,
         terminateState(c), acts' = acts \ {c}, doomed' = doomed \ {c},
         halt' \in BOOLEAN, simulated' = simulated
  PROVE  IInv'
<1>1. /\ phase = "execute" /\ phase' = "execute" /\ c \in State
      /\ TypeOK /\ Allocated /\ Counted /\ SeedsPartition
  BY Executing, Subjects DEF instruction
<1>2. TypeOK' /\ AssertsHold'
  BY <1>1, TerminateType DEF instruction, TypeOK, AssertsHold, Phase, Failure
<1>3. CASE Working
  <2>1. queueRemoval(c) \/ deleteAdded(c)
    BY <1>3 DEF Working, terminateState, endSimulation, abortSimulation
  <2>2. c = current \/ c \in In(added)
    BY <1>3 DEF Working
  <2>3. CASE c = current
    <3>1. ~deleteAdded(c)
      BY <1>1, <1>3, <2>3 DEF Working, deleteAdded, In
    <3> QED BY <1>1, <1>2, <1>3, <2>1, <2>3, <3>1, QueueWorks, StillExecuting
            DEF InInstruction
  <2>4. CASE c \in In(added)
    <3>1. ~queueRemoval(c)
      BY <1>1, <2>4 DEF queueRemoval, In
    <3>2. Working' /\ Allocated' /\ Counted' /\ (SeedsPartition' \/ failed' # "none")
      BY <1>1, <1>3, <2>1, <2>4, <3>1, DeleteWorks
    <3> QED BY <1>1, <1>2, <3>2, StillExecuting DEF InInstruction
  <2> QED BY <2>2, <2>3, <2>4
<1>4. CASE AtHead /\ mode /\ c = simTop /\ c \in Sim /\ acts = {c} /\ doomed = {}
  <2>1. endSimulation(c)
    BY <1>4, ExecutorAssumption DEF terminateState, queueRemoval, deleteAdded, abortSimulation
  <2>2. \A s \in State : seeds[s] = {}
    BY <1>1, <1>4, NoSeeds
  <2>3. UpdateReady' /\ Allocated' /\ Counted' /\ SeedsPartition'
    BY <1>1, <1>4, <2>1, <2>2, EndWorks
  <2>4. acts' = {} /\ doomed' = {}
    BY <1>4
  <2> QED BY <1>1, <1>2, <2>3, <2>4, StillExecuting DEF InInstruction
<1>5. CASE mode /\ c \in Normal
  <2>1. failed' # "none"
    BY <1>5, ExecutorAssumption
       DEF terminateState, queueRemoval, deleteAdded, endSimulation, abortSimulation
  <2> QED BY <1>1, <1>2, <2>1, StillExecuting
<1> QED BY <1>1, <1>3, <1>4, <1>5, Subjects

\* The program terminates a state.
LEMMA TerminateKeeps ==
  ASSUME Covered, IInv, failed = "none", executeTerminate
  PROVE  IInv'
<1>1. instruction /\ doomed = {} /\ doomed' = {} /\ simulated' = simulated
  BY DEF executeTerminate, executing
<1>2. PICK c \in acts : terminateState(c) /\ acts' = acts \ {c}
  BY DEF executeTerminate, Covered
<1>3. halt' \in BOOLEAN
  BY ExecutorAssumption DEF executeTerminate, IInv, TypeOK
<1> QED BY <1>1, <1>2, <1>3, TerminationKeeps

\* fork or branch terminates a state.
LEMMA DoomedKeeps ==
  ASSUME Covered, IInv, failed = "none", executeDoomed
  PROVE  IInv'
<1>1. PICK c \in doomed :
        terminateState(c) /\ doomed' = doomed \ {c} /\ acts' = acts \ {c}
  BY DEF executeDoomed
<1>2. instruction /\ simulated' = simulated /\ halt' \in BOOLEAN
  BY DEF executeDoomed, IInv, TypeOK
<1> QED BY <1>1, <1>2, TerminationKeeps

=============================================================================
