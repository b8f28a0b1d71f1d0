# A TLA+ model of Vital

Vital is KLEE with a Monte Carlo tree search (MCTS) over KLEE's process tree:
before a path is explored, a copy of its state is run to the end (a
*simulation*), the type-unsafe memory operations it meets are its reward, and
the rewards guide which path is run next. This project models the part of Vital
that is concurrent in spirit if not in threads: many execution states, several
searchers, a shared tree, and a main loop that applies their changes in batches.

## The system and its parts

| part | state | operations | what makes it hard |
|---|---|---|---|
| process tree, `PTree.cpp` | nodes, child pointers with tag bits | attach, remove | compression and unlinking while searchers keep bits in the pointers |
| random-path searcher, `Searcher.cpp` | its bit in every pointer | update, selectState | must find its own states in a tree others restructure |
| executor, `Executor.cpp` | `states`, `addedStates`, `removedStates`, `suspendedStates`, `seedMap` | run, fork, branch, terminateState, updateStates, checkMemoryUsage, doDumpStates | changes are queued, and one state may be in two queues |
| simulations, `Executor.cpp`, `ExecutionState.h` | mode, `inhibitForking`, suspend status, dependent state | suspend, start, exit, resume | spans several iterations of the loop, and can be cut short by kills and halts |
| MCTS searcher, `Searcher.cpp` | flags and visits in tree nodes, `current_state` | selectState, doSelection, doExpansion, update, doBackpropagation | flags are set at different times by fork, update, simulation and deletion |
| bounded merging, `MergeHandler.cpp`, `Searcher.cpp` | handlers, paused states | open, close, release, update | lifetime by reference counts that live in the states |
| other searchers, memory, KDAlloc, solver chain, statistics, driver, POSIX runtime, CCured inference | | | see *What is not modelled* |

The executor calls the searcher twice per iteration: `selectState` returns a
state, the executor runs one instruction of it (which forks, terminates or
suspends states into vectors), and `updateStates` hands the vectors to the
searcher, then to `states`, and deletes what was removed, which also removes it
from the process tree and from its merge handlers.

## Modules

**ProcessTree** models `PTree` together with any number of random-path
searchers. A node is reached through one tagged pointer, so `tag[n]` is the set
of searchers whose bit is set on the way to `n`. The climbs and walks
(`markStep`, `clearStep`, `walkStep`, `unlinkStep`, `spliceStep`) take one loop
iteration per step. The callers are nondeterministic: any live state may be given
to any searcher and taken back.

**ExecutorStates** models `run()` from seeding to `doDumpStates`. Vectors are
bags, because a state queued twice is what the asserts of `updateStates` notice.
`failed` names the assert or `exit(1)` that ended the process. The program under
test is nondeterministic, and an instruction is a sequence of effects: it starts
with the selected state in `acts`, the states it still works on; a fork or branch
adds the new ones, a termination takes one out, and `executeDone` ends it at any
time. So a state can be forked and ended in one instruction, as an access through
a symbolic pointer (`executeMemoryOperation`), a free (`resolveExact`) or a call
through a symbolic function pointer does. `doomed` holds the states that `fork`
(beyond `-max-depth`) and `branch` (without a seed) terminate themselves before
they return. With `Careless` the program also makes calls whose handler goes on
with a state it has terminated: the symbolic call of Executor.cpp:2621-2624,
`va_start`, and special functions that read a string. Undefined behaviour (reading
a state after deleting it, an iterator whose element was erased) is a choice
between going on and dying. The module also has Vital's simulation protocol and
the `SplittedSearcher` that switches between the core and the simulation searcher.
A simulation copies `suspendStatus` in the code and not in the model: the flag is
read for normal states only.

**MctsSearch** models `MCTSSearcher`, one iteration of `selectState`'s loop per
step. A node is its path from the root. Scores and rewards only decide between
two children, so that choice is nondeterministic. A simulation is what touches the
tree: `expandSimulated` (`doSimulation`) suspends the state, `executeSuspended` is
the one instruction `run()` executes of it in simulation mode, whose
`updateStates` takes its node out of the MCTS tree, and the simulation ends
(`executeSimulationEnd`) or is killed by the memory cap (`killSimulation`), which
leaves the node out. An instruction splits the running state in two, or in three
if the program has such instructions (`multi`), and may terminate any of the
states it makes. ExecutorStates has the protocol of simulations, and what happens
when the suspended state terminates.

**MergeRegions** models `MergeHandler`, `MergingSearcher` and the
`klee_open_merge`/`klee_close_merge` handlers. A handler exists as long as a
state has it in `openMergeStack`. Whether two states can be merged, and whether a
state is close enough to be prioritised, is nondeterministic. The base searcher
is one that keeps a list of states. Instructions have several effects as in
ExecutorStates; with `SymbolicCall` one may fork and open or close regions
together, which is when `MergingSearcher::update` drops a fork. The ghost variable
`lost` remembers the states this happened to.

`MC*` modules give TLC symmetry sets and small constants. `Bug*` definitions are
wrong variants of the definition that follows them: every property is known to
fail for one of them.

## Runs

| run | question | instance |
|---|---|---|
| `process_tree` | do the bits always lead to the searcher's states, do the asserts hold, does selection return an owned state, does every loop move strictly up or down; is `IInv` invariant? | 5 nodes, 3 states, 2 searchers, compression |
| `executor_seeds` | is a state lost, counted twice or not at all, or a seed duplicated? | 5 states, 3 seeds, memory cap, depth limit, halts |
| `executor_simulation` | do suspend, simulate and resume keep searcher, `states` and flags in step, and is every path counted once? | 4 states, 3 simulations, depth limit, halts |
| `executor_halt` | does a halt end `run()` whatever it interrupts; do seeds keep one owner? | 3 states, 1 simulation, 2 seeds replayed only, memory cap, dropped states, careless calls, halts |
| `mcts` | does `selectState` end, find a state, simulate each path once and before it is run, and divide by visits that are not zero? | depth 3 or 2, 3 states, seven option sets |
| `merge` | can regions make all states wait; is an update lost while a state is paused? | 4 states, 3 handlers, 2 close points, nesting 2, all options |

Each passing run also checks its module's type invariant, but for
`executor_simulation` and `executor_halt`, whose module `executor_seeds` covers.

Some properties are stated for part of what the model does, because the code does
not have them elsewhere:

* `AssertsHold` of ExecutorStates is checked without careless calls and without
  `--enable-simulation-opt`; `executor_call` and `executor_opt` show it fail with
  them.
* `SelectionFindsState` is about programs without switches and runs without
  `--enable-simulation-opt`. `mcts_switch` shows the first; with the option
  `selectState` may return without a state, or return one it has dropped.
* `SimulatedBeforeRun` is about programs without switches and about what `run()`
  executes outside simulation mode. Inside it the suspended state executes one
  instruction before its simulation. A dropped leaf may be run without one.
* `UctDefined` is about programs whose instructions go at most two ways, through
  `fork`. It excepts the leaves that `--enable-simulation-opt` (on by default) has
  dropped: they stay in the MCTS tree with no visit, and `computeUCT` divides by
  it. With switches, or with two forks in one instruction, nodes without a visit
  are compared as well.
* `AssertsHold` of MergeRegions is about programs that do not open and close
  regions through symbolic function pointers, and accepts one failure by name,
  the memory-cap kill of a paused state. `PausedOrListed` allows a lost fork with
  such calls only.

Six runs show a disagreement between the code and what it says of itself:

* `executor_abort`: the state that `doSimulation` suspends is still executed once,
  in simulation mode. If that instruction ends it, `getDependentState` asserts.
* `executor_kill`: a resumed state is in `addedStates` and in `states` at once. A
  kill in that window takes the branch "never reached searcher, just delete
  immediately".
* `executor_no_limit`: the limit on instructions per simulation is documented but
  commented out, so one endless path keeps simulation mode on for ever.
* `executor_opt`: with `--enable-simulation-opt` a state that `selectState`
  terminated can be returned, run and terminated again.
* `executor_call`: a call through a symbolic function pointer may end `state` in
  one callee and then terminates the same `state` for an illegal one, so it is in
  `removedStates` twice.
* `mcts_switch`: a switch taken while there is a single state leaves its node
  unmarked. While one of its children that holds no state is still outside the
  MCTS tree, `doExpansion` follows `current_state` to a deleted state.

### Bounds

Three states need five tree nodes, and with them a node that has a parent can be
spliced while two searchers have states on either side. Three states let one be
current, one new and one removed; four or five add a bystander, and let `branch`
make several at once. Three simulations let one follow another twice, so stale
tops of the simulation searcher occur. Depth 3 gives MCTS an inner node whose
parent and children are inner or deleted; the option sets that multiply the
states most (three-way splits with simulations, switches, dropped leaves) have
depth 2, where an inner node still has inner and deleted neighbours. Four states with nesting 2 give two
states waiting in an inner region while one waits outside and one runs.
Deadlock is not checked, since `run()` really stops when no state is left or an
assert has failed.

### Fairness

Everything modelled is sequential code in one thread that never blocks, so weak
fairness of the running code is justified: of all steps in ExecutorStates and of
`selectState` in MctsSearch. In ExecutorStates `executeDone` is strongly fair: the
loops inside an instruction go over finitely many objects, callees or cases, so
that it ends. ProcessTree has no fairness; that its loops end is the action
property `LoopsMove`, since the tree is finite and each round leaves its node for
one strictly above or below. Nothing is assumed of the
program under test: a simulated path may run for ever, which is what
`executor_no_limit` uses. MergeRegions has no liveness property, because how long a
state waits depends on that program.

## Proofs

`ProcessTreeProofs` proves, for any sets of nodes, states and searchers and with
or without compression, that no assertion fails (`AssertionsNeverFail`), that
selection returns only owned states (`SelectionIsOwned`), that the tree keeps its
shape (`TreeKeepsItsShape`), that a searcher's bit is on exactly the pointers that
lead to its states (`BitsAreExact`) and that no loop visits a node twice
(`LoopsAlwaysMove`). The inductive invariant is `IInv` and `Acyclic`: pointers
agree in both directions (`PointersAgree`), states sit at leaves, and a leaf
without one is about to be unlinked (`StatesAtLeaves`), the cursor is where its
loop says (`CursorOK`), a bit is on a pointer exactly when it is on one below or
an owned state is there, but for the pointer a climb is about to write
(`TagsExact`), only the node about to be spliced has a single child
(`Compressed`), the root pointer of a tree that has gone has no bit (`RootClear`),
and some bounded numbering puts parents before children (`Acyclic`). `AssertsHold`
alone is not inductive: it says nothing of the bits above the cursor, which the
next iteration reads. `Acyclic` gives each climb its end and each bit an owned
state below it: the lowest node of a set of nodes is the root, and the highest one
that has the bit holds the state.

`ExecutorProofs` proves `IInv` of ExecutorStates inductive and from it, for any
numbers of states, simulations and seeds, `VectorsInStep` (`ExecutorInvariant`),
`NoStateIsLost`, `SimulationInStep`, `SeedsArePartitioned`, `NoAssertFails` and
`PathsAreCountedOnce`. They hold under `Covered`: no call is careless, simulations
are not combined with seeds, the memory cap or random-path simulation search, and
`--enable-simulation-opt` is off. `Covered` is needed: `executor_call` and
`executor_opt` are counterexamples without it, and so is a suspended state that
still has seeds and forks, whose copy the searcher lists though it is marked as
suspended. The properties
speak of the head of the loop or of the end of a state, so the invariant says for
every phase what `updateStates` is going to find (`UpdateReady`), what holds in
the middle of an instruction after any number of forks and terminations
(`Working`: what it works on is the current state or new, a terminated one is left
alone), in the iteration that has just suspended a state (`Starting`), how far a
kill or a dump has got (`Killing`, `Dumping`), and that a state has been counted
exactly when it waits to be removed (`Counted`). One lemma per action keeps it.
The lemmas are in a chain of modules: what is done to the vectors
(`ExecutorVectors`), the instructions (`ExecutorTerminations`, `ExecutorForks`), the
loop of `run()` (`ExecutorLoop`) and its end (`ExecutorDump`).
`PathsAreCountedOnce` is an action property: the two places where a state is
deleted (`DeletedIsCounted`) and the two where `run()` returns
(`ReturnedIsCounted`) follow from `Counted`.

Only model-checked: the liveness properties, which are beyond the prover,
`NothingDangling`, and everything of MctsSearch and MergeRegions. The constants'
assumptions are typing facts (`PTreeAssumption`, `ExecutorAssumption`,
`MctsAssumption`, `MergeAssumption`).

## What is not modelled, and the plan

Instruction semantics, expression rewriting, translation to solvers, LLVM passes,
parsing, printing and file formats are data and I/O, and stay out. In this order
the rest is planned:

1. The searcher contract (a searcher returns a state it was given and not told to
   remove), with DFS, BFS, random, weighted random, batching, iterative deepening,
   interleaved and merging searchers as implementations of it by refinement. Then
   merging over the MCTS searcher.
2. KDAlloc: slot bitmap with its two fingers and copy-on-write, quarantine, sized
   regions and large objects, against an abstract allocator.
3. The solver chain: counterexample cache, query cache and independent-constraint
   splitting against an oracle over small constraint sets.
4. Copy-on-write address spaces and the immutable tree below them.
5. The watchdog, the POSIX descriptor table, tree streams.
6. Pure algorithms: expansion scores, rewards, minimum distances, division by
   constants, CCured's pointer classification.
7. Proofs for MctsSearch (in programs without switches every inner node is
   forked) and MergeRegions (regions nest, so waiting is acyclic).
