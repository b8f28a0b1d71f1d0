---------------------------- MODULE MergeRegions ----------------------------
(***************************************************************************)
(* Bounded merging (-use-merge): MergeHandler, MergingSearcher, the        *)
(* klee_open_merge and klee_close_merge handlers and the part of run()     *)
(* that creates, updates and deletes states around them, over a base       *)
(* searcher that keeps a plain list of states.                             *)
(*                                                                         *)
(* A MergeHandler lives as long as a state has it in its openMergeStack;   *)
(* its destructor releases the states that wait in it.  Whether two states *)
(* can be merged (ExecutionState::merge) and whether a state is within     *)
(* twice the mean distance (getPrioritizeState) is nondeterministic.       *)
(*                                                                         *)
(* An instruction may fork and terminate several times, one effect per     *)
(* step here; a call through a symbolic function pointer forks a state for *)
(* each callee, and each may open or close a region.  The calls whose      *)
(* handler goes on with a state it has terminated are in ExecutorStates.   *)
(***************************************************************************)
EXTENDS Naturals, Sequences, SequencesExt, FiniteSets

CONSTANTS State, InitialState, Nil,
          Handler,     \* addresses of MergeHandlers
          ClosePoint,  \* the klee_close_merge calls of the program
          Incomplete,  \* the values of -use-incomplete-merge to explore
          MemoryCap,   \* the values of `MaxMemory is set' to explore
          SymbolicCall, \* the values of `regions are opened and closed through
                       \* symbolic function pointers' to explore
          NestBound    \* bound on the nesting of merge regions

ASSUME MergeAssumption ==
  /\ InitialState \in State /\ Nil \notin State
  /\ Incomplete \subseteq BOOLEAN /\ MemoryCap \subseteq BOOLEAN
  /\ SymbolicCall \subseteq BOOLEAN
  /\ NestBound \in Nat

VARIABLES
  option,   \* [incomplete, cap, call], fixed for a run
  phase,    \* "select", "execute", "update", "memory"
  current,
  acts,     \* the states the instruction may still do something with
  states,   \* Executor::states
  added, removed,
  openMergeStack,
  openStates,         \* MergeHandler::openStates
  reachedCloseMerge,  \* MergeHandler::reachedCloseMerge
  pausedStates, inCloseMerge,  \* of MergingSearcher
  base,     \* the list of the base searcher
  lost,     \* ghost: live states an update did not pass on to the base searcher
  failed    \* the assert that ended the process, or "none"

merging == <<openMergeStack, openStates, reachedCloseMerge, pausedStates,
             inCloseMerge, base>>
vars == <<option, phase, current, acts, states, added, removed, merging, lost, failed>>

Live == states \cup added

\* The references to handler h, and the handlers that exist (mergeGroups).
holders(st, h) == {s \in State : Contains(st[s], h)}
mergeGroups == {h \in Handler : holders(openMergeStack, h) # {}}

waiting(h) == UNION {reachedCloseMerge[h][p] : p \in ClosePoint}
hasMergedStates(h) == waiting(h) # {}

Init ==
  /\ option \in [incomplete : Incomplete, cap : MemoryCap, call : SymbolicCall]
  /\ phase = "select" /\ current = Nil /\ acts = {} /\ lost = {}
  /\ states = {InitialState} /\ added = {} /\ removed = {}
  /\ openMergeStack = [s \in State |-> <<>>]
  /\ openStates = [h \in Handler |-> {}]
  /\ reachedCloseMerge = [h \in Handler |-> [p \in ClosePoint |-> {}]]
  /\ pausedStates = {} /\ inCloseMerge = {}
  /\ base = {InitialState} /\ failed = "none"

-----------------------------------------------------------------------------
(* selectState                                                              *)

\* releaseStates of the handlers H, when the paused states, the states at a
\* close point and the base searcher's list are the given ones.
releaseStates(H, paused, closing, list) ==
  LET released == UNION {waiting(h) : h \in H} IN
  /\ pausedStates' = paused \ released
  /\ inCloseMerge' = closing \ released
  /\ base' = list \cup released
  /\ reachedCloseMerge' = [h \in Handler |->
                             IF h \in H THEN [p \in ClosePoint |-> {}] ELSE reachedCloseMerge[h]]

chosen(s) ==
  /\ current' = s /\ acts' = {s} /\ phase' = "execute"
  /\ UNCHANGED <<option, states, added, removed, openMergeStack, openStates, lost, failed>>

\* Handlers H had no state to prioritise and are released on the way; then a
\* state of a later handler is prioritised.
selectPrioritized ==
  /\ phase = "select" /\ base # {} /\ option.incomplete
  /\ \E H \in SUBSET {h \in mergeGroups : hasMergedStates(h)} :
       \E h \in mergeGroups \ H : \E s \in openStates[h] \ inCloseMerge :
         /\ hasMergedStates(h)
         /\ releaseStates(H, pausedStates, inCloseMerge, base)
         /\ chosen(s)

\* Mutant: -use-incomplete-merge is not looked at.
BugSelectBase ==
  /\ phase = "select" /\ base # {}
  /\ \E s \in base : releaseStates(mergeGroups, pausedStates, inCloseMerge, base) /\ chosen(s)

\* Otherwise the base searcher decides, after every waiting state is released.
selectBase ==
  /\ phase = "select" /\ states # {}
  /\ IF base = {}
     THEN /\ failed' = "base searcher is empty"
          /\ UNCHANGED <<option, phase, current, acts, states, added, removed, merging, lost>>
     ELSE LET H == IF option.incomplete THEN mergeGroups ELSE {}
              list == base \cup UNION {waiting(h) : h \in H}
          IN \E s \in list :
               releaseStates(H, pausedStates, inCloseMerge, base) /\ chosen(s)

-----------------------------------------------------------------------------
(* The stacks and handlers when states go.                                  *)

\* The stacks when the states S are deleted.
deleted(S) == [s \in State |-> IF s \in S THEN <<>> ELSE openMergeStack[s]]

\* The handler is destroyed with its last reference.
destroyed(st) == {h \in mergeGroups : holders(st, h) = {}}

-----------------------------------------------------------------------------
(* One instruction of the current state.                                    *)

\* The instruction does something with state c.
executing(c) == phase = "execute" /\ c \in acts /\ UNCHANGED <<option, phase, current, states, lost>>

\* ... and nothing else: a call forks before it only if its callee is symbolic.
calling(c) ==
  /\ executing(c) /\ acts' = acts \ {c}
  /\ option.call \/ (c = current /\ added = {})

\* Mutant: the state is deleted at once instead of being queued.
BugTerminate ==
  /\ phase = "execute" /\ acts = {current} /\ states' = states \ {current} /\ acts' = {}
  /\ UNCHANGED <<option, phase, current, added, removed, merging, lost, failed>>

executeTerminate ==
  /\ executing(current) /\ acts' = acts \ {current}
  /\ removed' = removed \cup {current}
  /\ UNCHANGED <<added, merging, failed>>

\* A state of this instruction "never reached searcher": its destructor leaves
\* its open handlers.
deleteAdded ==
  \E c \in added :
    LET st == deleted({c}) IN
    /\ executing(c) /\ acts' = acts \ {c} /\ added' = added \ {c}
    /\ openMergeStack' = st
    /\ openStates' = [h \in Handler |-> openStates[h] \ {c}]
    /\ releaseStates(destroyed(st), pausedStates, inCloseMerge, base)
    /\ UNCHANGED <<removed, failed>>

\* Mutant: the copy is not registered with the open handlers.
BugFork ==
  \E c \in acts : \E s \in State \ Live :
    /\ executing(c) /\ added' = added \cup {s} /\ acts' = acts \cup {s}
    /\ openMergeStack' = [openMergeStack EXCEPT ![s] = openMergeStack[c]]
    /\ UNCHANGED <<removed, openStates, reachedCloseMerge, pausedStates,
                   inCloseMerge, base, failed>>

\* The copy constructor copies openMergeStack and registers the copy.
executeFork ==
  \E c \in acts : \E s \in State \ Live :
    /\ executing(c) /\ added' = added \cup {s} /\ acts' = acts \cup {s}
    /\ openMergeStack' = [openMergeStack EXCEPT ![s] = openMergeStack[c]]
    /\ openStates' = [h \in Handler |->
                        IF Contains(openMergeStack[c], h)
                        THEN openStates[h] \cup {s} ELSE openStates[h]]
    /\ UNCHANGED <<removed, reachedCloseMerge, pausedStates, inCloseMerge, base, failed>>

\* Mutant: the state that opens the region is not registered.
BugOpenMerge ==
  \E c \in acts :
    /\ calling(c) /\ Len(openMergeStack[c]) < NestBound
    /\ \E h \in Handler \ mergeGroups :
         openMergeStack' = [openMergeStack EXCEPT ![c] = Append(@, h)]
    /\ UNCHANGED <<added, removed, openStates, reachedCloseMerge, pausedStates,
                   inCloseMerge, base, failed>>

handleOpenMerge ==
  \E c \in acts :
    /\ calling(c) /\ Len(openMergeStack[c]) < NestBound
    /\ \E h \in Handler \ mergeGroups :
         /\ openMergeStack' = [openMergeStack EXCEPT ![c] = Append(@, h)]
         /\ openStates' = [openStates EXCEPT ![h] = {c}]
    /\ UNCHANGED <<added, removed, reachedCloseMerge, pausedStates, inCloseMerge,
                   base, failed>>

\* handleCloseMerge up to the close point: what fails before addClosedState
\* looks for a state to merge with.
closeFails(c, h) ==
  IF c \in inCloseMerge THEN "close_merge while being closed"
  ELSE IF c \notin openStates[h] THEN "it != openStates.end()" ELSE failed

\* addClosedState when the state is merged into one that waits at the same
\* close point: it is terminated.  A state of this instruction is deleted at
\* once, and its destructor looks for it among the open states it has left.
closeMerged ==
  \E c \in acts :
    LET h == Last(openMergeStack[c])
        st == [openMergeStack EXCEPT ![c] = Front(@)]
    IN
    /\ openMergeStack[c] # <<>> /\ calling(c)
    /\ \E p \in ClosePoint : reachedCloseMerge[h][p] # {}
    /\ failed' = IF c \in added THEN "it != openStates.end()" ELSE closeFails(c, h)
    /\ removed' = removed \cup ({c} \ added)
    /\ openMergeStack' = st
    /\ openStates' = [openStates EXCEPT ![h] = @ \ {c}]
    /\ releaseStates(destroyed(st), pausedStates, inCloseMerge, base)
    /\ UNCHANGED added

\* Mutant: the reference is dropped before the state is added to the waiting
\* ones, which the destructor then misses.
BugCloseWaits ==
  \E c \in acts :
    LET h == Last(openMergeStack[c])
        st == [openMergeStack EXCEPT ![c] = Front(@)]
    IN
    /\ openMergeStack[c] # <<>> /\ calling(c) /\ failed' = failed
    /\ \E p \in ClosePoint :
         reachedCloseMerge' = [reachedCloseMerge EXCEPT ![h][p] = @ \cup {c}]
    /\ pausedStates' = pausedStates \cup {c}
    /\ inCloseMerge' = inCloseMerge \cup {c}
    /\ base' = base \ {c}
    /\ openMergeStack' = st
    /\ openStates' = [openStates EXCEPT ![h] = @ \ {c}]
    /\ UNCHANGED <<added, removed>>

\* addClosedState when it is not: the state is paused, which takes it off the
\* base searcher's list.  If it had the last reference it is released again
\* with all the others.
closeWaits ==
  \E c \in acts :
    LET h == Last(openMergeStack[c])
        st == [openMergeStack EXCEPT ![c] = Front(@)]
        last == h \in destroyed(st)
        released == waiting(h) \cup {c}
    IN
    /\ openMergeStack[c] # <<>> /\ calling(c)
    /\ failed' = IF closeFails(c, h) # failed THEN closeFails(c, h)
                 ELSE IF c \in pausedStates THEN "paused twice"
                 ELSE IF c \notin base THEN "invalid state removed"
                 ELSE failed
    /\ \E p \in ClosePoint :
         reachedCloseMerge' = IF last THEN [reachedCloseMerge EXCEPT ![h] = [q \in ClosePoint |-> {}]]
                              ELSE [reachedCloseMerge EXCEPT ![h][p] = @ \cup {c}]
    /\ pausedStates' = IF last THEN pausedStates \ released ELSE pausedStates \cup {c}
    /\ inCloseMerge' = IF last THEN inCloseMerge \ released ELSE inCloseMerge \cup {c}
    /\ base' = IF last THEN base \cup released ELSE base \ {c}
    /\ openMergeStack' = st
    /\ openStates' = [openStates EXCEPT ![h] = @ \ {c}]
    /\ UNCHANGED <<added, removed>>

executeDone ==
  /\ phase = "execute" /\ phase' = "update" /\ acts' = {}
  /\ UNCHANGED <<option, current, states, added, removed, merging, lost, failed>>

-----------------------------------------------------------------------------
(* updateStates                                                             *)

\* Mutant: the update is lost whenever some state is paused.
BugUpdatedBase(cur, new, gone) ==
  IF pausedStates # {} THEN base ELSE (base \cup new) \ gone

\* MergingSearcher::update: nothing of an update reaches the base searcher
\* when the current state is paused.
updatedBase(cur, new, gone) ==
  IF cur \in pausedStates THEN base ELSE (base \cup new) \ gone

\* The base searcher asserts "invalid state removed" when it is asked to remove
\* a state it does not list; the paused ones are told apart here.
updateStates(cur, new, gone, next) ==
  LET st == deleted(gone) IN
  /\ failed' = IF cur \notin pausedStates /\ gone \cap pausedStates # {}
               THEN "paused state removed"
               ELSE IF cur \notin pausedStates /\ ~(gone \subseteq base \cup new)
               THEN "invalid state removed"
               ELSE IF \E h \in Handler : \E s \in gone :
                         Contains(openMergeStack[s], h) /\ s \notin openStates[h]
               THEN "it != openStates.end()" ELSE failed
  /\ states' = Live \ gone
  /\ openMergeStack' = st
  /\ openStates' = [h \in Handler |-> openStates[h] \ gone]
  /\ releaseStates(destroyed(st), pausedStates, inCloseMerge, updatedBase(cur, new, gone))
  /\ lost' = (lost \cup (IF cur \in pausedStates THEN new ELSE {})) \ gone
  /\ added' = {} /\ removed' = {} /\ current' = Nil /\ acts' = {} /\ phase' = next
  /\ UNCHANGED option

updateAfterStep ==
  phase = "update" /\ updateStates(current, added, removed, "memory")

checkMemoryUsage ==
  /\ phase = "memory"
  /\ \/ phase' = "select"
        /\ UNCHANGED <<option, current, acts, states, added, removed, merging, lost, failed>>
     \/ \E K \in SUBSET states :
          option.cap /\ K # {} /\ updateStates(Nil, {}, K, "select")

-----------------------------------------------------------------------------
execute ==
  \/ executeTerminate \/ deleteAdded \/ executeFork
  \/ handleOpenMerge \/ closeMerged \/ closeWaits \/ executeDone

Next ==
  /\ failed = "none"
  /\ \/ selectPrioritized \/ selectBase \/ execute \/ updateAfterStep
     \/ checkMemoryUsage

Spec == Init /\ [][Next]_vars

-----------------------------------------------------------------------------
(* Properties                                                               *)

TypeOK ==
  /\ option \in [incomplete : BOOLEAN, cap : BOOLEAN, call : BOOLEAN]
  /\ phase \in {"select", "execute", "update", "memory"}
  /\ IF phase \in {"execute", "update"} THEN current \in states ELSE current = Nil
  /\ states \subseteq State /\ added \subseteq State \ states
  /\ removed \subseteq states /\ lost \subseteq states
  /\ acts \subseteq {current} \cup added
  /\ \A s \in State : openMergeStack[s] \in Seq(Handler) /\ Len(openMergeStack[s]) <= NestBound
  /\ openStates \in [Handler -> SUBSET State]
  /\ reachedCloseMerge \in [Handler -> [ClosePoint -> SUBSET State]]
  /\ pausedStates \subseteq State /\ inCloseMerge \subseteq State /\ base \subseteq State

\* No assert of MergeHandler, MergingSearcher, handleCloseMerge or the base
\* searcher fails, in a program that does not open and close regions through
\* symbolic function pointers, but for the one of the base searcher when the
\* memory cap kills a paused state.  In particular the base searcher is not empty
\* while there are states: regions never make every state wait for another.
AssertsHold ==
  ~option.call => failed \in {"none"} \cup {f \in {"paused state removed"} : option.cap}

\* The paused states are those that wait at a close point (so continueState
\* finds what it releases), and between instructions the base searcher lists
\* exactly the other states: no fork or exit is lost by update, except, with
\* calls through symbolic function pointers, what the instruction that paused
\* the current state has forked.
PausedOrListed ==
  failed = "none" =>
    /\ pausedStates = inCloseMerge
    /\ pausedStates = UNION {waiting(h) : h \in Handler}
    /\ phase = "select" => base = states \ (pausedStates \cup lost) /\ pausedStates \subseteq states
    /\ lost # {} => option.call

\* Every waiting state waits in a handler that a live state still holds in
\* its openMergeStack, so that somebody is left to release it.
WaitingIsReferenced ==
  failed = "none" =>
    \A h \in Handler : hasMergedStates(h) => \E s \in Live : Contains(openMergeStack[s], h)

\* The openStates of a handler are the live states inside its region: what
\* getPrioritizeState returns has not been deleted.
OpenStatesExact ==
  \A h \in Handler : openStates[h] = {s \in Live : Contains(openMergeStack[s], h)}

\* Without incomplete merging a waiting state goes on only when every state
\* that ran into the same klee_open_merge has left the region.
ReleasedTogether ==
  [][\A h \in Handler : ~option.incomplete /\ hasMergedStates(h) /\ ~hasMergedStates(h)'
       => h \notin mergeGroups']_vars
=============================================================================
