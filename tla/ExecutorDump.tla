---------------------------- MODULE ExecutorDump ----------------------------
(***************************************************************************)
(* Leaving the loop of run() and dumping the states preserve the inductive *)
(* invariant.                                                              *)
(***************************************************************************)
EXTENDS ExecutorLoop

\* run() leaves its loop.
LEMMA LeaveKeeps ==
  ASSUME IInv, failed = "none", leaveLoop
  PROVE  IInv'
<1>1. /\ phase \in {"seed", "loop"} /\ phase' = "dump" /\ todo' = states /\ searcher' = FALSE
      /\ UNCHANGED <<current, acts, doomed, live, states, added, removed, suspended,
                     suspendStatus, dependent, seeds, children, simTop, simulated,
                     mode, inhibit, atLimit, halt, ended, failed>>
  BY DEF leaveLoop, leaving
<1>2. TypeOK' /\ AssertsHold'
  BY <1>1, LoopHead DEF TypeOK, AssertsHold, Phase
<1>3. Dumping'
  BY <1>1, LoopHead, EmptyBag DEF Dumping, Allocated, State
<1>4. Counted' /\ SeedsPartition' /\ doomed' = {}
  BY <1>1, LoopHead DEF Counted, SeedsPartition, In
<1> QED BY <1>1, <1>2, <1>3, <1>4 DEF IInv, VectorsInStep, PhaseOK

\* run() leaves its loop and only counts the states.
LEMMA LeaveCountingKeeps ==
  ASSUME IInv, failed = "none", leaveCounting
  PROVE  IInv'
<1>1. /\ phase \in {"seed", "loop"} /\ phase' = "done" /\ searcher' = FALSE
      /\ ended' = PushAll(ended, states \cap Normal)
      /\ UNCHANGED <<current, acts, doomed, live, states, added, removed, suspended,
                     suspendStatus, dependent, seeds, children, simTop, simulated,
                     mode, inhibit, atLimit, halt, todo, failed>>
  BY DEF leaveCounting, leaving
<1>2. ended' \in [State -> Nat]
  BY <1>1, LoopHead, PushAllFacts DEF TypeOK
<1>3. TypeOK' /\ AssertsHold'
  BY <1>1, <1>2, LoopHead DEF TypeOK, AssertsHold, Phase
<1>4. SeedsPartition' /\ doomed' = {}
  BY <1>1, LoopHead DEF SeedsPartition, In
<1> QED BY <1>1, <1>3, <1>4 DEF IInv, VectorsInStep, PhaseOK

\* doDumpStates queues a state for removal.
LEMMA DumpQueues ==
  ASSUME TypeOK, Dumping, Counted, SeedsPartition, NEW s \in todo, queueRemoval(s),
         todo' = todo \ {s}, searcher' = searcher
  PROVE  Dumping' /\ Counted' /\ SeedsPartition'
<1>1. /\ s \in State /\ removed \in [State -> Nat] /\ ended \in [State -> Nat]
      /\ \A t \in Normal : t \in State
  BY DEF TypeOK, State
<1>2. /\ removed'[s] = removed[s] + 1 /\ ended'[s] = ended[s] + 1
      /\ \A t \in State : t # s => removed'[t] = removed[t] /\ ended'[t] = ended[t]
      /\ UNCHANGED <<live, states, added, seeds, failed>>
  BY <1>1, PushFacts DEF queueRemoval
<1>3. Dumping'
  <2>1. s \in Normal => removed[s] = 0 /\ s \in states
    BY <1>1 DEF Dumping
  <2> QED BY <1>1, <1>2, <2>1 DEF Dumping
<1>4. Counted'
  <2>1. ASSUME NEW t \in Normal, t \in live PROVE ended'[t] = removed'[t]
    BY <1>1, <1>2, <2>1 DEF Counted
  <2> QED BY <1>2, <2>1 DEF Counted
<1>5. SeedsPartition'
  BY <1>2 DEF SeedsPartition, In
<1> QED BY <1>3, <1>4, <1>5

\* doDumpStates deletes a resumed state out of addedStates.
LEMMA DumpDeletes ==
  ASSUME TypeOK, Dumping, Counted, SeedsPartition, failed = "none", NEW s \in todo,
         deleteAdded(s), todo' = todo \ {s}, searcher' = searcher
  PROVE  Dumping' /\ Counted' /\ SeedsPartition'
<1>1. /\ s \in State /\ added \in [State -> Nat] /\ ended \in [State -> Nat]
      /\ \A t \in Normal : t \in State
  BY DEF TypeOK, State
<1>2. /\ \A t \in State : t # s => added'[t] = added[t] /\ ended'[t] = ended[t]
      /\ live' = live \ {s} /\ seeds' = [seeds EXCEPT ![s] = {}]
      /\ UNCHANGED <<states, removed>>
  BY <1>1, EraseFacts, PushFacts DEF deleteAdded
<1>3. Dumping'
  BY <1>2 DEF Dumping
<1>4. Counted'
  BY <1>1, <1>2 DEF Counted
<1>5. SeedsPartition'
  <2>1. \A t \in State : seeds'[t] = IF t = s THEN {} ELSE seeds[t]
    BY <1>2 DEF TypeOK
  <2>2. In(added) \subseteq In(added)' \cup {s}
    BY <1>2 DEF In
  <2>3. \A t \in State : seeds'[t] # {} => t \in live' /\ t \in states' \cup In(added)'
    BY <1>2, <2>1, <2>2 DEF SeedsPartition
  <2>4. \A t \in State : \A u \in State \ {t} : seeds'[t] \cap seeds'[u] = {}
    BY <2>1 DEF SeedsPartition
  <2> QED BY <2>3, <2>4 DEF SeedsPartition
<1> QED BY <1>3, <1>4, <1>5

\* doDumpStates ends a simulation.
LEMMA DumpEnds ==
  ASSUME Covered, TypeOK, Dumping, Counted, NEW s \in todo,
         endSimulation(s), todo' = todo \ {s}, searcher' = searcher
  PROVE  Dumping' /\ Counted' /\ SeedsPartition'
<1>1. s \in State /\ s \in Sim /\ states' = states \ Sim /\ live' = live /\ seeds' = seeds
  BY DEF endSimulation, TypeOK
<1>2. \A t \in Normal : /\ t \in states' <=> t \in states
                        /\ t \in todo' <=> t \in todo
                        /\ removed'[t] = removed[t] /\ ended'[t] = ended[t]
  BY <1>1, EndCounts, ExecutorAssumption
<1>3. Dumping'
  BY <1>1, <1>2 DEF Dumping
<1>4. Counted'
  BY <1>1, <1>2 DEF Counted
<1>5. SeedsPartition'
  BY <1>1, NoSeeds DEF SeedsPartition
<1> QED BY <1>3, <1>4, <1>5

\* doDumpStates terminates a state.
LEMMA DumpKeeps ==
  ASSUME Covered, IInv, failed = "none", dumpState
  PROVE  IInv'
<1>1. /\ phase = "dump" /\ phase' = "dump" /\ TypeOK /\ Dumping /\ Counted
      /\ SeedsPartition /\ doomed = {} /\ doomed' = {} /\ searcher' = searcher
  BY DEF dumpState, IInv, VectorsInStep, PhaseOK
<1>2. PICK s \in todo : terminateState(s) /\ todo' = todo \ {s}
  BY DEF dumpState
<1>3. s \in State /\ todo' \subseteq State
  BY <1>1, <1>2 DEF TypeOK
<1>4. TypeOK' /\ AssertsHold'
  BY <1>1, <1>2, <1>3, TerminateType DEF dumpState, TypeOK, AssertsHold, Phase, Failure
<1>5. CASE failed' # "none"
  BY <1>4, <1>5 DEF IInv, VectorsInStep, SeedsPartition
<1>6. CASE failed' = "none"
  <2>1. ~abortSimulation(s)
    BY <1>6 DEF abortSimulation
  <2>2. Dumping' /\ Counted' /\ SeedsPartition'
    BY <1>1, <1>2, <2>1, DumpQueues, DumpDeletes, DumpEnds DEF terminateState
  <2> QED BY <1>1, <1>4, <2>2 DEF IInv, VectorsInStep, PhaseOK
<1> QED BY <1>5, <1>6

\* The last updateStates.
LEMMA DumpDoneKeeps ==
  ASSUME IInv, failed = "none", dumpDone
  PROVE  IInv'
<1>1. /\ phase = "dump" /\ updateStates("done") /\ TypeOK /\ Dumping /\ halt' = halt
      /\ Counted /\ SeedsPartition /\ doomed = {}
  BY DEF dumpDone, IInv, VectorsInStep, PhaseOK
<1>2. TypeOK'
  BY <1>1, UpdateType DEF TypeOK, Phase
<1>3. \A s \in In(removed) \cap Normal : removed[s] = 1 /\ s \in states
  BY <1>1 DEF Dumping, In
<1>4. phase' = "done" /\ failed' = "none" /\ doomed' = {}
  BY <1>1, <1>3 DEF updateStates, Dumping
<1>5. SeedsPartition'
  BY <1>1, <1>3, UpdateAccounts
<1> QED BY <1>2, <1>4, <1>5 DEF IInv, VectorsInStep, PhaseOK, AssertsHold

=============================================================================
