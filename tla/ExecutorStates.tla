--------------------------- MODULE ExecutorStates ---------------------------
(***************************************************************************)
(* The life of execution states in klee::Executor: seeding, the main       *)
(* interpreter loop, fork/branch, termination, updateStates, the memory    *)
(* cap, the dump on halt, and the simulation protocol Vital adds           *)
(* (suspend a state, run a copy of it, resume it).                         *)
(*                                                                         *)
(* A state is a member of Normal (the pointer; reusable once deleted) or   *)
(* of Sim (simulation copies; the code never deletes them).  The vectors   *)
(* addedStates, removedStates, suspendedStates and the searcher's list are *)
(* bags, because a vector may hold a state twice and the asserts of        *)
(* updateStates notice it.  What the program does at an instruction is     *)
(* nondeterministic: a sequence of forks, branches and terminations of the *)
(* states the instruction works on.                                        *)
(***************************************************************************)
EXTENDS Integers, FiniteSets

CONSTANTS Normal,           \* addresses of normal states
          Sim,              \* addresses of simulation states
          Seed,             \* the --seed-file inputs; {} without seeding
          InitialState,
          Nil,
          SimulationSearch, \* "dfs" or "random-path"
          SimulationOpt,    \* --enable-simulation-opt
          MemoryCap,        \* MaxMemory is set
          MaxDepth,         \* MaxDepth is set
          OnlyReplaySeeds,
          Careless,         \* the program makes a call whose handler goes on
                            \* with a state it has terminated
          MayHalt           \* a timer, a signal or --exit-on-error may halt

ASSUME ExecutorAssumption ==
  /\ InitialState \in Normal
  /\ Normal \cap Sim = {}
  /\ Nil \notin Normal \cup Sim
  /\ SimulationSearch \in {"dfs", "random-path"}
  /\ SimulationOpt \in BOOLEAN /\ MemoryCap \in BOOLEAN /\ MaxDepth \in BOOLEAN
  /\ OnlyReplaySeeds \in BOOLEAN /\ Careless \in BOOLEAN /\ MayHalt \in BOOLEAN

VARIABLES
  phase,      \* where run() is
  current,    \* the state run() executes, or Nil
  acts,       \* the states the present instruction still works on
  doomed,     \* states fork or branch terminates before it returns
  live,       \* allocated states; a live normal state owns one tree leaf
  states,     \* Executor::states
  added,      \* addedStates
  removed,    \* removedStates
  suspended,  \* suspendedStates
  suspendStatus, \* normal states whose suspendStatus is set (a simulation
                 \* copies the flag, but it is read for normal states only)
  dependent,  \* dependentState of a simulation state
  seeds,      \* seedMap: the seeds of a state, {} when it has no entry
  searcher,   \* constructUserSearcher has run and the searcher is not deleted
  children,   \* the list of the core searcher
  simTop,     \* states.back() of the simulation searcher: a DFSSearcher never
              \* drops a simulation state, so the rest is never seen again
  simulated,  \* states whose node has isSimulated set
  mode,       \* is_simulation_mode
  inhibit,    \* inhibitForking
  atLimit,    \* atMemoryLimit
  halt,       \* haltExecution
  todo,       \* states a loop over a copy of `states' has yet to visit
  ended,      \* how often a state was counted by incPathsExplored
  failed      \* the assert or exit(1) that ended the process, or "none"

vars == <<phase, current, acts, doomed, live, states, added, removed, suspended,
          suspendStatus, dependent, seeds, searcher, children, simTop,
          simulated, mode, inhibit, atLimit, halt, todo, ended, failed>>

State == Normal \cup Sim
None == [s \in State |-> 0]
In(bag) == {s \in State : bag[s] > 0}
Push(bag, s) == [bag EXCEPT ![s] = @ + 1]
Erase(bag, s) == [bag EXCEPT ![s] = @ - 1]
PushAll(bag, S) == [s \in State |-> IF s \in S THEN bag[s] + 1 ELSE bag[s]]

Init ==
  /\ phase = "seed" /\ current = Nil /\ acts = {} /\ doomed = {}
  /\ live = {InitialState}
  /\ states = {InitialState}
  /\ added = None /\ removed = None /\ suspended = None
  /\ suspendStatus = {} /\ dependent = [s \in Sim |-> Nil]
  /\ seeds = [s \in State |-> IF s = InitialState THEN Seed ELSE {}]
  /\ searcher = FALSE /\ children = None /\ simTop = Nil /\ simulated = {}
  /\ mode = FALSE /\ inhibit = FALSE /\ atLimit = FALSE /\ halt = FALSE
  /\ todo = {} /\ ended = None /\ failed = "none"

-----------------------------------------------------------------------------
(* Termination.  terminateState has four courses.                           *)

\* The state is known to the searcher: it waits in removedStates.
queueRemoval(s) ==
  /\ ~mode /\ added[s] = 0
  /\ removed' = Push(removed, s) /\ ended' = Push(ended, s)
  /\ UNCHANGED <<live, states, added, suspendStatus, seeds, mode, inhibit, failed>>

\* Mutant: no look-up in addedStates before the deletion.
BugDeleteAdded(s) ==
  /\ ~mode
  /\ added' = Erase(added, s) /\ live' = live \ {s}
  /\ suspendStatus' = suspendStatus \ {s}
  /\ seeds' = [seeds EXCEPT ![s] = {}] /\ ended' = Push(ended, s)
  /\ failed' = failed
  /\ UNCHANGED <<states, removed, mode, inhibit>>

\* Mutant: the deleted state is not counted.
BugDeleteUncounted(s) ==
  /\ ~mode /\ added[s] > 0
  /\ added' = Erase(added, s) /\ live' = live \ {s}
  /\ suspendStatus' = suspendStatus \ {s}
  /\ seeds' = [seeds EXCEPT ![s] = {}]
  /\ failed' \in {"none", "use after delete"}
  /\ UNCHANGED <<states, removed, mode, inhibit, ended>>

\* The state is in addedStates: deleted at once.  The code then reads
\* state.isNormalState() and writes state.ptreeNode->isTerminal: undefined,
\* the process may or may not survive it.
deleteAdded(s) ==
  /\ ~mode /\ added[s] > 0
  /\ added' = Erase(added, s) /\ live' = live \ {s}
  /\ suspendStatus' = suspendStatus \ {s}
  /\ seeds' = [seeds EXCEPT ![s] = {}] /\ ended' = Push(ended, s)
  /\ failed' \in {"none", "use after delete"}
  /\ UNCHANGED <<states, removed, mode, inhibit>>

\* Mutant: inhibitForking is not reset.
BugEndSimulation(s) ==
  /\ mode /\ s \in Sim
  /\ mode' = FALSE
  /\ suspendStatus' = suspendStatus \ {dependent[s]}
  /\ added' = Push(added, dependent[s])
  /\ removed' = Push(removed, s) /\ ended' = Push(ended, s)
  /\ states' = states \ Sim
  /\ UNCHANGED <<live, seeds, inhibit, failed>>

\* The simulation ends: the state it depends on is resumed, and the simulation
\* state is terminated again by onSimulationStateExit and once more by its loop
\* over `states', which erases what its iterator points to: undefined, the loop
\* may go on or the process may die.
endSimulation(s) ==
  LET others == states \cap Sim IN
  /\ mode /\ s \in Sim
  /\ mode' = FALSE /\ inhibit' = FALSE
  /\ suspendStatus' = suspendStatus \ {dependent[s]}
  /\ added' = Push(added, dependent[s])
  /\ removed' = PushAll(Push(Push(removed, s), s), others)
  /\ ended' = PushAll(Push(Push(ended, s), s), others)
  /\ states' = states \ Sim
  /\ failed' \in {"none"} \cup {x \in {"erased iterator"} : others # {}}
  /\ UNCHANGED <<live, seeds>>

\* A normal state terminates in simulation mode: notifyDependentState asks it
\* for its dependent state.
abortSimulation(s) ==
  /\ mode /\ s \in Normal
  /\ failed' = "getDependentState"
  /\ UNCHANGED <<live, states, added, removed, suspendStatus, seeds, mode,
                 inhibit, ended>>

terminateState(s) ==
  queueRemoval(s) \/ deleteAdded(s) \/ endSimulation(s) \/ abortSimulation(s)

-----------------------------------------------------------------------------
(* executeInstruction.  An instruction may fork and terminate states several *)
(* times: a memory access terminates the side that is out of bounds, a call *)
(* through a symbolic pointer forks a state for each callee and runs it.    *)

branchingPermitted == ~inhibit /\ ~atLimit

\* ExecutionState::branch copies the type of the state.
Fresh(c) == (IF c \in Sim THEN Sim ELSE Normal) \ live

\* ... and its suspendStatus.
Copies(F, c) == IF c \in suspendStatus THEN F ELSE {}

\* Nothing an instruction does changes these.
instruction ==
  /\ phase = "execute"
  /\ UNCHANGED <<phase, current, suspended, dependent, searcher, children,
                 simTop, atLimit, todo>>

\* fork and branch have returned: the instruction may do something else.
executing == instruction /\ doomed = {}

\* terminateStateOnExit, OnError, OnSolverError, Early...: halt for an error
\* that --exit-on-error names.  A careless call goes on with the state: a call
\* through a symbolic pointer terminates `state' for an illegal callee although
\* another callee has already ended it; va_start goes on to its next store, and
\* a special function to its own termination, after a failed memory access.
executeTerminate ==
  /\ executing
  /\ \E c \in acts :
       /\ terminateState(c)
       /\ acts' \in {acts \ {c}} \cup
                    {A \in {acts} : Careless /\ removed[c] = 0 /\ c \in live'}
  /\ halt' \in {halt, halt \/ MayHalt}
  /\ UNCHANGED <<doomed, simulated>>

\* The terminations that fork (beyond MaxDepth) and branch (of the states
\* without a seed) make themselves.
executeDoomed ==
  /\ instruction
  /\ \E c \in doomed :
       terminateState(c) /\ doomed' = doomed \ {c} /\ acts' = acts \ {c}
  /\ UNCHANGED <<simulated, halt>>

\* fork: both sides are feasible.  T are the seeds that satisfy the condition.
\* A seeded state forks whatever branchingPermitted says, but with
\* OnlyReplaySeeds it follows its seeds when they agree.
forks(c, T) ==
  /\ seeds[c] = {} => branchingPermitted
  /\ OnlyReplaySeeds /\ seeds[c] # {} => T # {} /\ T # seeds[c]

\* Beyond MaxDepth fork terminates both sides.
tooDeep(c, f) == {{}} \cup {D \in {{c, f}} : MaxDepth}

executeFork ==
  /\ executing
  /\ \E c \in acts : \E f \in Fresh(c), T \in SUBSET seeds[c] :
       /\ forks(c, T)
       /\ failed' = IF mode /\ c \in Sim THEN "fork here?" ELSE failed
       /\ live' = live \cup {f} /\ added' = Push(added, f)
       /\ acts' = acts \cup {f} /\ doomed' \in tooDeep(c, f)
       /\ seeds' = [seeds EXCEPT ![c] = T, ![f] = seeds[c] \ T]
       /\ suspendStatus' = suspendStatus \cup Copies({f}, c)
       /\ simulated' = simulated \ {c, f} /\ ended' = [ended EXCEPT ![f] = 0]
  /\ UNCHANGED <<states, removed, mode, inhibit, halt>>

\* The states branch leaves without a seed of the seeded state c; with
\* OnlyReplaySeeds it terminates them.
unseeded(c, F, to) ==
  {s \in F \cup {c} : /\ OnlyReplaySeeds /\ seeds[c] # {}
                      /\ \A x \in seeds[c] : to[x] # s}

\* State c branches into itself and F; seed x goes to state to[x].
branch(c, F, to) ==
  /\ live' = live \cup F /\ added' = PushAll(added, F)
  /\ acts' = acts \cup F /\ doomed' = unseeded(c, F, to)
  /\ seeds' = [s \in State |-> IF s \in F \cup {c} THEN {x \in seeds[c] : to[x] = s}
                               ELSE seeds[s]]
  /\ ended' = [s \in State |-> IF s \in F THEN 0 ELSE ended[s]]
  /\ suspendStatus' = suspendStatus \cup Copies(F, c)
  /\ simulated' = simulated \ (F \cup {c})

\* A switch, or an allocation or indirect branch with several outcomes.
executeBranch ==
  /\ executing /\ branchingPermitted
  /\ \E c \in acts : \E F \in SUBSET Fresh(c) : \E to \in [seeds[c] -> F \cup {c}] :
       Cardinality(F) \in 1..2 /\ branch(c, F, to)
  /\ UNCHANGED <<states, removed, mode, inhibit, halt, failed>>

\* branch when branching is not permitted: the state takes one side, and the
\* seeds of the others are dropped.
executeBranchInhibited ==
  /\ executing /\ ~branchingPermitted
  /\ \E c \in acts, T \in SUBSET Seed :
       /\ T \subseteq seeds[c]
       /\ seeds' = [seeds EXCEPT ![c] = T]
       /\ doomed' = {s \in {c} : OnlyReplaySeeds /\ seeds[c] # {} /\ T = {}}
  /\ UNCHANGED <<acts, live, states, added, removed, suspendStatus, simulated,
                 mode, inhibit, halt, ended, failed>>

executeDone ==
  /\ phase = "execute" /\ doomed = {}
  /\ phase' = "update" /\ acts' = {}
  /\ UNCHANGED <<current, doomed, live, states, added, removed, suspended,
                 suspendStatus, dependent, seeds, searcher, children, simTop,
                 simulated, mode, inhibit, atLimit, halt, todo, ended, failed>>

-----------------------------------------------------------------------------
(* updateStates                                                             *)

\* Mutant: every normal state is kept back.
BugFilteredStates == [s \in State |-> IF s \in Normal THEN 0 ELSE removed[s]]

\* Removed states the searcher is told of: all but suspended normal states.
filteredStates ==
  [s \in State |-> IF s \in Normal /\ s \in suspendStatus THEN 0 ELSE removed[s]]

\* Mutant: suspended states are not taken from the searcher.
BugUpdatedChildren ==
  [s \in State |-> IF s \in Normal THEN children[s] + added[s] - filteredStates[s]
                   ELSE children[s]]

\* Mutant: the searcher is told of a removed state twice.
BugRemovedTwice ==
  [s \in State |-> IF s \in Normal
                   THEN children[s] + added[s] - 2 * filteredStates[s] - suspended[s]
                   ELSE children[s]]

\* The core searcher's list after update(current, addedStates, filteredStates)
\* and removeState of every suspended state; below 0 its assert fails.
updatedChildren ==
  [s \in State |-> IF s \in Normal
                   THEN children[s] + added[s] - filteredStates[s] - suspended[s]
                   ELSE children[s]]

\* Mutants: the removed state is not erased from `states', not erased from
\* seedMap, not deleted.
BugErasedStates(gone) == states \cup In(added)
BugErasedSeeds(gone) == seeds
BugSurvivors(gone) == live

erasedStates(gone) == (states \cup In(added)) \ gone
erasedSeeds(gone) == [s \in State |-> IF s \in gone THEN {} ELSE seeds[s]]
survivors(gone) == live \ gone

\* Removed normal states are erased from `states', the seed map and the
\* process tree, and deleted.
updateStates(next) ==
  LET gone == In(removed) \cap Normal IN
  /\ failed' = IF searcher /\ \E s \in State : updatedChildren[s] < 0
               THEN "invalid state removed"
               ELSE IF \E s \in gone : removed[s] > 1 \/ s \notin states \cup In(added)
               THEN "it2!=states.end()" ELSE failed
  /\ children' = IF searcher THEN updatedChildren ELSE children
  /\ simTop' = IF searcher /\ In(added) \cap Sim # {}
               THEN CHOOSE s \in In(added) \cap Sim : TRUE ELSE simTop
  /\ suspended' = IF searcher THEN None ELSE suspended
  /\ states' = erasedStates(gone)
  /\ live' = survivors(gone)
  /\ suspendStatus' = suspendStatus \ gone
  /\ seeds' = erasedSeeds(gone)
  /\ added' = None /\ removed' = None
  /\ current' = Nil /\ phase' = next /\ todo' = {}
  /\ UNCHANGED <<acts, doomed, dependent, searcher, simulated, mode, inhibit,
                 atLimit, ended>>

\* The end of an iteration of the seeding loop or the main loop; timers.invoke,
\* which may halt, comes right before it.
updateAfterStep ==
  /\ phase = "update"
  /\ updateStates(IF searcher THEN "memory" ELSE "seed")
  /\ halt' \in {halt, halt \/ MayHalt}

-----------------------------------------------------------------------------
(* checkMemoryUsage, at the end of an iteration.                            *)

keep == <<current, acts, doomed, live, states, added, removed, suspended, suspendStatus,
          dependent, seeds, searcher, children, simTop, simulated, mode,
          inhibit, halt, ended, failed>>

checkMemoryUsage ==
  /\ phase = "memory"
  /\ \/ phase' = "loop" /\ atLimit' \in {FALSE, MemoryCap} /\ UNCHANGED todo
     \/ MemoryCap /\ states # {} /\ phase' = "kill" /\ atLimit' = TRUE /\ todo' = states
  /\ UNCHANGED keep

\* Mutant: a victim is not moved out of the way and may be drawn again.
BugKillState ==
  /\ phase = "kill" /\ phase' \in {"kill", "killed"}
  /\ \E s \in todo : ended[s] < 2 /\ terminateState(s)
  /\ UNCHANGED <<current, acts, doomed, suspended, dependent, searcher, children,
                 simTop, simulated, atLimit, halt, todo>>

killState ==
  /\ phase = "kill" /\ phase' \in {"kill", "killed"}
  /\ \E s \in todo : terminateState(s) /\ todo' = todo \ {s}
  /\ UNCHANGED <<current, acts, doomed, suspended, dependent, searcher, children,
                 simTop, simulated, atLimit, halt>>

\* run() does this only outside simulation mode, which the first kill ends.
updateAfterKill ==
  /\ phase = "killed" \/ (phase = "kill" /\ todo = {})
  /\ ~mode
  /\ updateStates("loop") /\ UNCHANGED halt

-----------------------------------------------------------------------------
(* Choosing a state.                                                        *)

choosing(s) ==
  /\ current' = s /\ acts' = {s} /\ phase' = "execute"
  /\ UNCHANGED <<doomed, states, removed, seeds, searcher, children, simTop, atLimit,
                 halt, todo, failed>>

chosen(s) ==
  /\ choosing(s)
  /\ UNCHANGED <<live, added, suspended, suspendStatus, dependent, simulated,
                 mode, inhibit, ended>>

\* The seeding loop takes the next key of seedMap (any, here).
selectSeeded ==
  /\ phase = "seed" /\ ~halt
  /\ \E s \in State : seeds[s] # {} /\ chosen(s)

\* All seeds are used up, or the seed time has expired (halted or not):
\* construct the searcher and hand it every state.
constructSearcher ==
  /\ phase = "seed"
  /\ phase' = "loop" /\ searcher' = TRUE /\ children' = PushAll(None, states)
  /\ UNCHANGED <<current, acts, doomed, live, states, added, removed, suspended,
                 suspendStatus, dependent, seeds, simTop, simulated, mode,
                 inhibit, atLimit, halt, todo, ended, failed>>

inLoop == phase = "loop" /\ states # {} /\ ~halt

\* The core searcher returns one of its states.  It may be one that
\* dropRepeated has terminated: doSelection reaches a leaf without asking
\* whether it is terminal.
selectState ==
  /\ inLoop /\ ~mode
  /\ IF In(children) = {}
     THEN /\ failed' = "No children"   \* MCTSSearcher without a child: exit(1)
          /\ UNCHANGED <<phase, current, acts, doomed, live, states, added, removed,
                         suspended, suspendStatus, dependent, seeds, searcher, children,
                         simTop, simulated, mode, inhibit, atLimit, halt, todo,
                         ended>>
     ELSE \E s \in In(children) : chosen(s)

\* The state MCTSSearcher expands, when there is a choice; each node is
\* simulated once.
expandable(s) ==
  /\ s \in In(children) /\ Cardinality(In(children)) > 1
  /\ s \notin simulated /\ removed[s] = 0

\* Mutant: the state's own flag is not set.
BugSuspendState(s) == suspended' = Push(suspended, s) /\ UNCHANGED suspendStatus

suspendState(s) ==
  suspended' = Push(suspended, s) /\ suspendStatus' = suspendStatus \cup {s}

\* doSimulation: suspendState, startSimulationState; then run() executes the
\* suspended state.
doSimulation ==
  /\ inLoop /\ ~mode
  /\ \E s \in Normal, x \in Sim \ live :
       /\ expandable(s) /\ choosing(s)
       /\ mode' = TRUE /\ inhibit' = TRUE
       /\ suspendState(s)
       /\ live' = live \cup {x} /\ dependent' = [dependent EXCEPT ![x] = s]
       /\ added' = Push(added, x) /\ simulated' = simulated \cup {s}
  /\ UNCHANGED ended

\* --enable-simulation-opt: a block whose simulations stopped paying off is
\* not simulated; its state is terminated and the search goes on.
dropRepeated ==
  /\ inLoop /\ ~mode /\ SimulationOpt
  /\ \E s \in Normal : expandable(s) /\ terminateState(s) /\ simulated' = simulated \cup {s}
  /\ UNCHANGED <<phase, current, acts, doomed, suspended, dependent, searcher,
                 children, simTop, atLimit, halt, todo>>

\* SplittedSearcher in simulation mode.  RandomPathSearcher follows the tree to
\* the leaf of the simulation state, whose state field is the suspended state.
selectSimulation ==
  /\ inLoop /\ mode
  /\ chosen(IF SimulationSearch = "dfs" THEN simTop ELSE dependent[simTop])

-----------------------------------------------------------------------------
(* The end of run().                                                        *)

\* Mutant: the main loop does not look at haltExecution.
BugLeaving ==
  /\ phase = "loop" /\ states = {}
  /\ searcher' = FALSE
  /\ UNCHANGED <<current, acts, doomed, live, states, added, removed, suspended,
                 suspendStatus, dependent, seeds, children, simTop, simulated,
                 mode, inhibit, atLimit, halt, failed>>

\* The loop ends, a halt interrupts seeding, or OnlySeed asks for no more than
\* seeding; the searcher is deleted.
leaving ==
  /\ \/ phase = "loop" /\ (states = {} \/ halt)
     \/ phase = "seed" /\ Seed # {}
  /\ searcher' = FALSE
  /\ UNCHANGED <<current, acts, doomed, live, states, added, removed, suspended,
                 suspendStatus, dependent, seeds, children, simTop, simulated,
                 mode, inhibit, atLimit, halt, failed>>

\* doDumpStates visits the states, a simulation state (id 0) first.
leaveLoop ==
  leaving /\ phase' = "dump" /\ todo' = states /\ UNCHANGED ended

\* Mutant: a suspended state is not counted.
BugLeaveCounting ==
  /\ leaving /\ phase' = "done"
  /\ ended' = PushAll(ended, (states \cap Normal) \ suspendStatus)
  /\ UNCHANGED todo

\* Without DumpStatesOnHalt it only counts the normal states.
leaveCounting ==
  /\ leaving /\ phase' = "done" /\ ended' = PushAll(ended, states \cap Normal)
  /\ UNCHANGED todo

dumpState ==
  /\ phase = "dump"
  /\ \E s \in todo :
       /\ todo \cap Sim # {} => s \in Sim
       /\ terminateState(s) /\ todo' = todo \ {s}
  /\ UNCHANGED <<phase, current, acts, doomed, suspended, dependent, searcher,
                 children, simTop, simulated, atLimit, halt>>

dumpDone ==
  /\ phase = "dump" /\ todo = {}
  /\ updateStates("done") /\ UNCHANGED halt

-----------------------------------------------------------------------------
execute ==
  \/ executeTerminate \/ executeDoomed \/ executeFork \/ executeBranch
  \/ executeBranchInhibited \/ executeDone

select ==
  \/ selectSeeded \/ selectState \/ doSimulation
  \/ dropRepeated \/ selectSimulation

Next ==
  /\ failed = "none"
  /\ \/ execute \/ updateAfterStep \/ checkMemoryUsage \/ killState
     \/ updateAfterKill \/ constructSearcher \/ select
     \/ leaveLoop \/ leaveCounting \/ dumpState \/ dumpDone

Spec == Init /\ [][Next]_vars

\* run() is one thread that never blocks: some step is always taken.  An
\* instruction ends: its loops go over finitely many objects, callees or cases.
FairSpec == Spec /\ WF_vars(Next) /\ SF_vars(Next /\ executeDone)

-----------------------------------------------------------------------------
(* Properties                                                               *)

Phase == {"seed", "loop", "execute", "update", "memory", "kill", "killed",
          "dump", "done"}
Failure == {"none", "use after delete", "erased iterator", "getDependentState",
            "fork here?", "invalid state removed", "it2!=states.end()",
            "No children"}

\* The variables have the types of the members of Executor they stand for.
TypeOK ==
  /\ phase \in Phase /\ failed \in Failure
  /\ acts \subseteq State /\ doomed \subseteq State
  /\ current \in State \cup {Nil} /\ simTop \in Sim \cup {Nil}
  /\ live \subseteq State /\ states \subseteq State /\ todo \subseteq State
  /\ suspendStatus \subseteq State /\ simulated \subseteq State
  /\ added \in [State -> Nat] /\ removed \in [State -> Nat]
  /\ suspended \in [State -> Nat] /\ ended \in [State -> Nat]
  /\ children \in [State -> Int]
  /\ dependent \in [Sim -> Normal \cup {Nil}]
  /\ seeds \in [State -> SUBSET Seed]
  /\ searcher \in BOOLEAN /\ mode \in BOOLEAN /\ inhibit \in BOOLEAN
  /\ atLimit \in BOOLEAN /\ halt \in BOOLEAN

\* At the head of the main loop the core searcher lists exactly the normal
\* states that are not suspended, each once: updateStates, suspendState and
\* resumeState between them lose no path and schedule none twice.
NoStateLost ==
  failed = "none" /\ phase = "loop" =>
    \A s \in Normal :
      children[s] = IF s \in states \ suspendStatus THEN 1 ELSE 0

\* At the head of the main loop simulation mode means: one simulation state in
\* `states', on top of the simulation searcher, one suspended state, the one it
\* depends on, and forking inhibited; normal mode means none of it.
SimulationProtocol ==
  failed = "none" /\ phase = "loop" =>
    IF mode
    THEN /\ states \cap Sim = {simTop} /\ inhibit
         /\ suspendStatus = {dependent[simTop]} /\ suspendStatus \subseteq states
    ELSE states \cap Sim = {} /\ suspendStatus = {} /\ ~inhibit

\* seedMap never has an entry for a deleted state (the seeding loop
\* dereferences its keys), and fork and branch never give one seed to two
\* states.
SeedsPartition ==
  failed = "none" =>
    \A s \in State :
      /\ seeds[s] # {} => s \in live /\ s \in states \cup In(added)
      /\ \A t \in State \ {s} : seeds[s] \cap seeds[t] = {}

\* Executor::states holds no deleted state.
NothingDangling == failed = "none" => states \subseteq live

\* The asserts of updateStates and of the searchers, the exit(1) of fork in
\* simulation mode and the exit(1) of a searcher without states are never
\* reached.
AssertsHold ==
  failed \notin {"fork here?", "invalid state removed", "it2!=states.end()",
                 "No children"}

\* incPathsExplored counts every path once, neither more nor less often: a
\* normal state that is deleted has been counted exactly once since it was
\* allocated, and so has every one that is still allocated when run() returns.
PathsCountedOnce ==
  [][failed' = "none" =>
       \A s \in Normal :
         \/ s \in live /\ s \notin live'
         \/ s \in live' /\ phase # "done" /\ phase' = "done"
         => ended'[s] = 1]_vars

\* terminateState calls getDependentState on simulation states only, as its
\* assert demands.
OnlySimulationsHaveDependents == failed # "getDependentState"

\* A state terminateState deletes "immediately" out of addedStates never
\* reached the searcher.
DeletedNeverReachedSearcher ==
  [][\A s \in Normal : added[s] > 0 /\ added'[s] = 0 /\ s \notin live' => s \notin states]_vars

\* A simulation ends: a simulated path runs for a bounded number of
\* instructions.
SimulationEnds == mode ~> ~mode

\* A halt is honoured: once haltExecution is set run() dumps the states and
\* returns, or the process dies.
HaltEnds == halt ~> (phase = "done" \/ failed # "none")

-----------------------------------------------------------------------------
(* The inductive invariant behind NoStateLost, SimulationProtocol,          *)
(* SeedsPartition, PathsCountedOnce and AssertsHold.  It holds when         *)
(* simulations are not combined with seeds or with the memory cap, use the  *)
(* depth-first searcher, no state is dropped by --enable-simulation-opt and *)
(* the program makes no careless call.                                      *)
Covered ==
  /\ ~SimulationOpt /\ ~Careless
  /\ Sim = {} \/ (Seed = {} /\ ~MemoryCap /\ SimulationSearch = "dfs")

Quiet == added = None /\ removed = None /\ suspended = None

\* The searcher's list when L are the states and P the suspended ones.
Lists(list, L, P) ==
  \A s \in State : list[s] = IF s \in Normal /\ s \in L /\ s \notin P THEN 1 ELSE 0

\* The simulation protocol when L are the states and top the simulation state.
InStep(L, top) ==
  IF mode
  THEN /\ inhibit /\ top \in Sim /\ L \cap Sim = {top}
       /\ suspendStatus = {dependent[top]}
       /\ dependent[top] \in Normal /\ dependent[top] \in L
  ELSE ~inhibit /\ suspendStatus = {} /\ L \cap Sim = {}

AtHead ==
  /\ Quiet /\ InStep(states, simTop)
  /\ IF searcher THEN Lists(children, states, suspendStatus) ELSE ~mode

\* In the middle of an instruction of a normal state, which works on that state
\* and on what it has forked; a state it terminates it leaves alone.
Working ==
  /\ ~mode /\ InStep(states, simTop) /\ suspended = None
  /\ current \in Normal \cap states
  /\ In(added) \subseteq Normal \ states /\ \A s \in State : added[s] <= 1
  /\ acts \cup doomed \subseteq In(added) \cup {current}
  /\ \A s \in State :
       removed[s] = 0 \/ (removed[s] = 1 /\ s = current /\ s \notin acts \cup doomed)
  /\ searcher => Lists(children, states, {})

\* doSimulation has just suspended the current state for simulation x.
Starting(x) ==
  /\ searcher /\ mode /\ inhibit /\ states \cap Sim = {}
  /\ added = Push(None, x) /\ removed = None /\ suspended = Push(None, current)
  /\ current \in Normal \cap states /\ suspendStatus = {current} /\ dependent[x] = current
  /\ Lists(children, states, {})

\* What updateStates will find.
UpdateReady ==
  LET gone == In(removed) \cap Normal
      new == In(added) \cap Sim
      after == (states \cup In(added)) \ gone
  IN /\ \A s \in gone : removed[s] = 1 /\ s \in states \cup In(added) /\ s \notin suspendStatus
     /\ \E top \in Sim \cup {Nil} : InStep(after, top) /\ new \subseteq {top}
                                    /\ (new = {} => top = simTop)
     /\ IF searcher THEN Lists(updatedChildren, after, suspendStatus)
        ELSE ~mode /\ suspended = None /\ new = {}

\* The memory cap is at work (no simulation).
Killing ==
  /\ searcher /\ ~mode /\ InStep(states, simTop) /\ Lists(children, states, {})
  /\ added = None /\ suspended = None /\ todo \subseteq states
  /\ \A s \in State : removed[s] = 0 \/ (removed[s] = 1 /\ s \in states \ todo)

\* doDumpStates is at work.
Dumping ==
  /\ ~searcher /\ todo \cap Normal \subseteq states
  /\ \A s \in Normal : removed[s] = 0 \/ (removed[s] = 1 /\ s \in states \ todo)
  /\ \A s \in Normal \cap live : s \in states /\ (s \in todo \/ removed[s] = 1)

\* In the middle of an instruction: of a normal state, of one just suspended, of
\* a simulation, or of a simulation that has ended.
InInstruction ==
  \/ Working
  \/ /\ doomed = {} /\ acts \subseteq {current}
     /\ \/ AtHead /\ mode /\ current = simTop
        \/ \E x \in Sim : Starting(x)
        \/ acts = {} /\ UpdateReady

\* The states run() knows of are the allocated ones.
Allocated ==
  /\ states \subseteq live /\ In(added) \subseteq live
  /\ live \cap Normal \subseteq states \cup In(added)

\* A state has been counted when it waits to be removed, and not before.
Counted == \A s \in Normal \cap live : ended[s] = removed[s]

PhaseOK ==
  /\ phase \notin {"dump", "done"} => Allocated
  /\ phase # "done" => Counted
  /\ phase = "seed" => AtHead /\ ~searcher
  /\ phase \in {"loop", "memory"} => AtHead /\ searcher
  /\ phase = "execute" => InInstruction
  /\ phase # "execute" => doomed = {}
  /\ phase = "update" => UpdateReady
  /\ phase \in {"kill", "killed"} => MemoryCap /\ Killing
  /\ phase = "dump" => Dumping

\* Between any two steps of run(), in the middle of an instruction too, the
\* vectors, the searcher's list, the flags, the allocated states and the count
\* of paths are in step with the phase run() is in.
VectorsInStep == failed = "none" => PhaseOK

IInv == TypeOK /\ AssertsHold /\ SeedsPartition /\ VectorsInStep
=============================================================================
