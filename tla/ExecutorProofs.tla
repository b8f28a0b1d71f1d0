--------------------------- MODULE ExecutorProofs ---------------------------
(***************************************************************************)
(* NoStateLost, SimulationProtocol, SeedsPartition, PathsCountedOnce and   *)
(* AssertsHold for any numbers of states, simulations and seeds, in the    *)
(* configurations Covered names.                                           *)
(***************************************************************************)
EXTENDS ExecutorDump

-----------------------------------------------------------------------------
(* Theorems                                                                 *)

\* run() starts with one state that owns every seed.
LEMMA InitOK ==
  ASSUME Init
  PROVE  IInv
<1> USE ExecutorAssumption
<1>1. TypeOK /\ AssertsHold
  <2>1. seeds \in [State -> SUBSET Seed] /\ dependent \in [Sim -> Normal \cup {Nil}]
    BY DEF Init
  <2>2. /\ added \in [State -> Nat] /\ removed \in [State -> Nat]
        /\ suspended \in [State -> Nat] /\ ended \in [State -> Nat]
        /\ children \in [State -> Int]
    BY EmptyBag DEF Init
  <2> QED BY <2>1, <2>2 DEF Init, TypeOK, AssertsHold, Phase, Failure, State
<1>2. AtHead /\ ~searcher
  BY DEF Init, AtHead, Quiet, InStep
<1>3. /\ In(added) = {} /\ states = {InitialState} /\ live = {InitialState} /\ doomed = {}
      /\ \A s \in State : removed[s] = 0 /\ ended[s] = 0
      /\ \A s \in State : seeds[s] = IF s = InitialState THEN Seed ELSE {}
  BY EmptyBag DEF Init
<1>4. Allocated /\ Counted
  BY <1>3 DEF Allocated, Counted, State
<1>5. SeedsPartition
  BY <1>3 DEF SeedsPartition
<1> QED BY <1>1, <1>2, <1>3, <1>4, <1>5 DEF Init, IInv, VectorsInStep, PhaseOK

\* A stuttering step keeps the inductive invariant.
LEMMA StutterKeeps ==
  ASSUME IInv, UNCHANGED vars
  PROVE  IInv'
<1>1. In(added)' = In(added) /\ failed' = failed /\ phase' = phase /\ doomed' = doomed
      /\ acts' = acts /\ current' = current /\ mode' = mode /\ simTop' = simTop
  BY DEF vars, In
<1>2. TypeOK' /\ AssertsHold' /\ SeedsPartition'
  BY <1>1 DEF vars, IInv, TypeOK, AssertsHold, SeedsPartition
<1>3. (AtHead => AtHead') /\ (Dumping => Dumping') /\ (Killing => Killing')
  BY DEF vars, AtHead, Quiet, InStep, Lists, Dumping, Killing
<1>4. (Allocated => Allocated') /\ (Counted => Counted')
  BY <1>1 DEF vars, Allocated, Counted
<1>5. UpdateReady => UpdateReady'
  BY ReadyUnchanged DEF vars
<1>6. \A x \in Sim : Starting(x) => Starting(x)'
  BY DEF vars, Starting, Lists
<1>7. Working => Working'
  BY <1>1 DEF vars, Working, InStep, Lists
<1>8. InInstruction => InInstruction'
  BY <1>1, <1>3, <1>5, <1>6, <1>7 DEF InInstruction
<1>9. searcher' = searcher
  BY DEF vars
<1>10. PhaseOK => PhaseOK'
  BY <1>1, <1>3, <1>4, <1>5, <1>8, <1>9 DEF PhaseOK
<1> QED BY <1>1, <1>2, <1>10 DEF IInv, VectorsInStep

\* Every step of run() keeps the inductive invariant.
LEMMA NextKeeps ==
  ASSUME Covered, IInv, [Next]_vars
  PROVE  IInv'
<1>1. CASE UNCHANGED vars
  BY <1>1, StutterKeeps
<1>2. CASE Next
  <2>1. failed = "none"
    BY <1>2 DEF Next
  <2>2. ~dropRepeated
    BY DEF Covered, dropRepeated
  <2>3. CASE execute
    BY <2>1, <2>3, TerminateKeeps, DoomedKeeps, ForkKeeps, BranchKeeps,
       BranchInhibitedKeeps, DoneKeeps DEF execute
  <2>4. CASE select
    BY <2>1, <2>2, <2>4, SeededKeeps, SelectKeeps, DoSimulationKeeps,
       SelectSimulationKeeps DEF select
  <2> QED BY <1>2, <2>1, <2>3, <2>4, UpdateAfterStepKeeps, MemoryKeeps, KillKeeps,
             UpdateAfterKillKeeps, ConstructKeeps, LeaveKeeps, LeaveCountingKeeps,
             DumpKeeps, DumpDoneKeeps
          DEF Next
<1> QED BY <1>1, <1>2

\* The inductive invariant itself.
LEMMA Inductive == Covered => (Spec => []IInv)
<1> SUFFICES ASSUME Covered PROVE Spec => []IInv
  OBVIOUS
<1>1. Init => IInv
  BY InitOK
<1>2. IInv /\ [Next]_vars => IInv'
  BY NextKeeps
<1> QED BY <1>1, <1>2, PTL DEF Spec

\* Between any two steps of run(), in the middle of an instruction too, the
\* vectors, the searcher's list, the flags, the allocated states and the count
\* of paths are in step, however often an instruction forks and terminates, as
\* long as the program makes no careless call.
THEOREM ExecutorInvariant == Covered => (Spec => []VectorsInStep)
<1> SUFFICES ASSUME Covered PROVE Spec => []VectorsInStep
  OBVIOUS
<1>1. IInv => VectorsInStep
  BY DEF IInv
<1> QED BY <1>1, Inductive, PTL

\* updateStates, suspendState and resumeState between them lose no path and
\* schedule none twice.
THEOREM NoStateIsLost == Covered => (Spec => []NoStateLost)
<1> SUFFICES ASSUME Covered PROVE Spec => []NoStateLost
  OBVIOUS
<1>1. IInv => NoStateLost
  BY DEF IInv, VectorsInStep, PhaseOK, AtHead, Lists, NoStateLost, State
<1> QED BY <1>1, Inductive, PTL

\* Simulation mode means one simulation state and one suspended state, the one
\* it depends on.
THEOREM SimulationInStep == Covered => (Spec => []SimulationProtocol)
<1> SUFFICES ASSUME Covered PROVE Spec => []SimulationProtocol
  OBVIOUS
<1>1. IInv => SimulationProtocol
  BY DEF IInv, VectorsInStep, PhaseOK, AtHead, InStep, SimulationProtocol
<1> QED BY <1>1, Inductive, PTL

\* seedMap has no entry for a deleted state, and no seed has two owners, with
\* OnlyReplaySeeds or without.
THEOREM SeedsArePartitioned == Covered => (Spec => []SeedsPartition)
<1> SUFFICES ASSUME Covered PROVE Spec => []SeedsPartition
  OBVIOUS
<1>1. IInv => SeedsPartition
  BY DEF IInv
<1> QED BY <1>1, Inductive, PTL

\* As long as the program makes no careless call, no assert of updateStates or of
\* a searcher fails, fork is not reached in a simulation, and no searcher runs
\* out of states, however often an instruction forks and terminates.
THEOREM NoAssertFails == Covered => (Spec => []AssertsHold)
<1> SUFFICES ASSUME Covered PROVE Spec => []AssertsHold
  OBVIOUS
<1>1. IInv => AssertsHold
  BY DEF IInv
<1> QED BY <1>1, Inductive, PTL

-----------------------------------------------------------------------------
(* The count of paths                                                       *)

\* What terminateState deletes it counts.
LEMMA TerminationCounts ==
  ASSUME TypeOK, Counted, NEW c \in State, terminateState(c), removed[c] = 0 \/ added[c] = 0,
         NEW s \in Normal, s \in live, s \notin live'
  PROVE  ended'[s] = 1
<1>1. deleteAdded(c) /\ s = c
  BY DEF terminateState, queueRemoval, deleteAdded, endSimulation, abortSimulation
<1>2. ended' = Push(ended, c) /\ ended \in [State -> Nat] /\ added[c] > 0
  BY <1>1 DEF deleteAdded, TypeOK
<1>3. removed[c] = 0
  BY <1>2
<1>4. ended[c] = 0
  BY <1>1, <1>3 DEF Counted
<1> QED BY <1>1, <1>2, <1>4, PushFacts

\* What updateStates deletes has been counted.
LEMMA UpdateCounts ==
  ASSUME TypeOK, Counted, NEW p, updateStates(p),
         \A s \in In(removed) \cap Normal : removed[s] = 1,
         NEW s \in Normal, s \in live, s \notin live'
  PROVE  ended'[s] = 1
<1>1. s \in In(removed) /\ ended' = ended
  BY DEF updateStates, survivors
<1> QED BY <1>1 DEF Counted

\* No step deletes a state that has not been counted exactly once.
LEMMA DeletedIsCounted ==
  ASSUME Covered, IInv, Next, NEW s \in Normal, s \in live, s \notin live'
  PROVE  ended'[s] = 1
<1>1. failed = "none" /\ TypeOK /\ PhaseOK
  BY DEF Next, IInv, VectorsInStep
<1>2. ASSUME execute PROVE ended'[s] = 1
  <2>1. phase = "execute" /\ Counted
    BY <1>1, <1>2 DEF execute, executeTerminate, executeDoomed, executeFork, executeBranch,
       executeBranchInhibited, executeDone, executing, instruction, PhaseOK
  <2>2. PICK c \in acts \cup doomed : terminateState(c)
    BY <1>2 DEF execute, executeTerminate, executeDoomed, executeFork, executeBranch,
       executeBranchInhibited, executeDone, branch
  <2>3. c \in State
    BY <1>1, <2>1, Subjects
  <2>4. CASE Working
    BY <1>1, <2>1, <2>2, <2>3, <2>4, TerminationCounts DEF Working
  <2>5. CASE mode
    BY <2>2, <2>5 DEF terminateState, queueRemoval, deleteAdded, endSimulation, abortSimulation
  <2> QED BY <1>1, <2>1, <2>4, <2>5, Subjects
<1>3. ASSUME updateAfterStep PROVE ended'[s] = 1
  <2>1. UpdateReady /\ Counted
    BY <1>1, <1>3 DEF updateAfterStep, PhaseOK
  <2> QED BY <1>1, <1>3, <2>1, UpdateCounts DEF updateAfterStep, UpdateReady
<1>4. ASSUME killState PROVE ended'[s] = 1
  <2>1. Killing /\ Counted
    BY <1>1, <1>4 DEF killState, PhaseOK
  <2>2. PICK c \in todo : terminateState(c)
    BY <1>4 DEF killState
  <2>3. c \in State /\ added[c] = 0
    BY <1>1, <2>1, EmptyBag DEF TypeOK, Killing
  <2> QED BY <1>1, <2>1, <2>2, <2>3, TerminationCounts
<1>5. ASSUME updateAfterKill PROVE ended'[s] = 1
  <2>1. Killing /\ Counted
    BY <1>1, <1>5 DEF updateAfterKill, PhaseOK
  <2>2. \A t \in In(removed) \cap Normal : removed[t] = 1
    BY <2>1 DEF Killing, In
  <2> QED BY <1>1, <1>5, <2>1, <2>2, UpdateCounts DEF updateAfterKill
<1>6. ASSUME dumpState PROVE ended'[s] = 1
  <2>1. Dumping /\ Counted
    BY <1>1, <1>6 DEF dumpState, PhaseOK
  <2>2. PICK c \in todo : terminateState(c)
    BY <1>6 DEF dumpState
  <2>3. c \in State /\ c = s
    BY <1>1, <2>2 DEF TypeOK, terminateState, queueRemoval, deleteAdded, endSimulation,
       abortSimulation
  <2>4. removed[c] = 0
    BY <2>1, <2>2, <2>3 DEF Dumping
  <2> QED BY <1>1, <2>1, <2>2, <2>3, <2>4, TerminationCounts
<1>7. ASSUME dumpDone PROVE ended'[s] = 1
  <2>1. Dumping /\ Counted
    BY <1>1, <1>7 DEF dumpDone, PhaseOK
  <2>2. \A t \in In(removed) \cap Normal : removed[t] = 1
    BY <2>1 DEF Dumping, In
  <2> QED BY <1>1, <1>7, <2>1, <2>2, UpdateCounts DEF dumpDone
<1>8. ~checkMemoryUsage /\ ~constructSearcher /\ ~leaveLoop /\ ~leaveCounting
  BY DEF checkMemoryUsage, keep, constructSearcher, leaveLoop, leaveCounting, leaving
<1>9. ~select
  <2>1. ~dropRepeated
    BY DEF Covered, dropRepeated
  <2> QED BY <2>1 DEF select, selectSeeded, selectState, doSimulation, selectSimulation, chosen
<1> QED BY <1>2, <1>3, <1>4, <1>5, <1>6, <1>7, <1>8, <1>9 DEF Next

\* What is allocated when run() returns has been counted exactly once.
LEMMA ReturnedIsCounted ==
  ASSUME IInv, Next, phase # "done", phase' = "done", NEW s \in Normal, s \in live'
  PROVE  ended'[s] = 1
<1>1. failed = "none" /\ TypeOK /\ PhaseOK /\ s \in State
  BY DEF Next, IInv, VectorsInStep, State
<1>2. leaveCounting \/ dumpDone
  <2>1. ~execute
    BY DEF execute, executeTerminate, executeDoomed, executeFork, executeBranch,
       executeBranchInhibited, executeDone, executing, instruction
  <2>2. ~select
    BY DEF select, selectSeeded, selectState, doSimulation, dropRepeated,
       selectSimulation, chosen, choosing
  <2>3. /\ ~updateAfterStep /\ ~checkMemoryUsage /\ ~killState /\ ~updateAfterKill
        /\ ~constructSearcher /\ ~leaveLoop /\ ~dumpState
    BY DEF updateAfterStep, updateStates, checkMemoryUsage, killState, updateAfterKill,
       constructSearcher, leaveLoop, dumpState
  <2> QED BY <2>1, <2>2, <2>3 DEF Next
<1>3. CASE leaveCounting
  <2>1. phase \in {"seed", "loop"} /\ live' = live /\ ended' = PushAll(ended, states \cap Normal)
    BY <1>3 DEF leaveCounting, leaving
  <2>2. s \in states /\ removed[s] = 0 /\ ended[s] = removed[s] /\ ended \in [State -> Nat]
    BY <1>1, <2>1, LoopHead, EmptyBag DEF Allocated, Counted, TypeOK
  <2> QED BY <1>1, <2>1, <2>2, PushAllFacts
<1>4. CASE dumpDone
  <2>1. Dumping /\ todo = {} /\ live' = live \ (In(removed) \cap Normal)
    BY <1>1, <1>4 DEF dumpDone, updateStates, survivors, PhaseOK
  <2>2. s \in live /\ removed[s] = 1
    BY <2>1 DEF Dumping
  <2>3. s \in In(removed)
    BY <1>1, <2>2 DEF In
  <2> QED BY <2>1, <2>3
<1> QED BY <1>2, <1>3, <1>4

\* incPathsExplored counts every path once: a state that is deleted, by
\* updateStates or out of addedStates, and a state that is left over when run()
\* returns, halted or not, dumping its states or not.
THEOREM PathsAreCountedOnce == Covered => (Spec => PathsCountedOnce)
<1> SUFFICES ASSUME Covered PROVE Spec => PathsCountedOnce
  OBVIOUS
<1> DEFINE Counts ==
      failed' = "none" =>
        \A s \in Normal :
          \/ s \in live /\ s \notin live'
          \/ s \in live' /\ phase # "done" /\ phase' = "done"
          => ended'[s] = 1
<1>1. IInv /\ [Next]_vars => [Counts]_vars
  <2> SUFFICES ASSUME IInv, Next, failed' = "none", NEW s \in Normal,
                      \/ s \in live /\ s \notin live'
                      \/ s \in live' /\ phase # "done" /\ phase' = "done"
               PROVE  ended'[s] = 1
    OBVIOUS
  <2> QED BY DeletedIsCounted, ReturnedIsCounted
<1> QED BY <1>1, Inductive, PTL DEF Spec, PathsCountedOnce
=============================================================================
