--------------------------- MODULE ExecutorForks ----------------------------
(***************************************************************************)
(* An instruction that forks, branches or ends preserves the inductive     *)
(* invariant.                                                              *)
(***************************************************************************)
EXTENDS ExecutorTerminations

\* States fork only in normal mode.
LEMMA ForksNormally ==
  ASSUME Covered, IInv, failed = "none", phase = "execute", NEW c \in acts \cup doomed,
         branchingPermitted \/ seeds[c] # {}
  PROVE  /\ Working /\ c \in Normal /\ c \in State /\ c \in live
         /\ c \in states \cup In(added)
         /\ Fresh(c) = Normal \ live /\ \A F : Copies(F, c) = {}
<1>1. c \in State /\ TypeOK /\ Allocated
  BY Subjects, Executing
<1>2. Working
  <2>1. CASE AtHead /\ mode /\ c \in Sim
    BY <1>1, <2>1, NoSeeds DEF AtHead, InStep, branchingPermitted
  <2>2. CASE mode /\ inhibit /\ Sim # {}
    BY <1>1, <2>2, NoSeeds DEF branchingPermitted
  <2> QED BY <2>1, <2>2, Subjects
<1>3. c \in Normal /\ c \in states \cup In(added) /\ suspendStatus = {}
  BY <1>2 DEF Working, InStep
<1>4. Fresh(c) = Normal \ live
  BY <1>3, ExecutorAssumption DEF Fresh
<1> QED BY <1>1, <1>2, <1>3, <1>4 DEF Copies, Allocated

\* New states F join the instruction.
LEMMA JoinWorks ==
  ASSUME TypeOK, Working, Allocated, Counted, instruction,
         NEW F \in SUBSET (Normal \ live), NEW c \in In(added) \cup {current},
         acts \subseteq In(added) \cup {current},
         c \in acts, doomed = {}, doomed' \subseteq F \cup {c},
         live' = live \cup F, acts' = acts \cup F,
         \A s \in State : added'[s] = IF s \in F THEN added[s] + 1 ELSE added[s],
         \A s \in State : ended'[s] = IF s \in F THEN 0 ELSE ended[s],
         UNCHANGED <<states, removed, suspendStatus, mode, inhibit>>
  PROVE  Working' /\ Allocated' /\ Counted' /\ In(added)' = In(added) \cup F
<1>1. UNCHANGED <<current, suspended, dependent, searcher, children, simTop>>
  BY DEF instruction
<1>2. F \subseteq State /\ F \cap states = {} /\ F \cap In(added) = {} /\ current \notin F
  BY DEF State, Allocated, Working
<1>3. \A s \in F : added[s] = 0 /\ removed[s] = 0
  BY <1>2 DEF In, TypeOK, Working
<1>4. In(added)' = In(added) \cup F
  BY <1>2, <1>3 DEF In, TypeOK
<1>5. Working'
  <2>1. InStep(states, simTop)' /\ (searcher' => Lists(children, states, {})')
    BY <1>1 DEF Working, InStep, Lists
  <2>2. \A s \in State : added'[s] <= 1
    BY <1>3 DEF Working
  <2>3. acts' \cup doomed' \subseteq In(added)' \cup {current'}
    BY <1>1, <1>4
  <2>4. \A s \in State :
          removed'[s] = 0 \/ (removed'[s] = 1 /\ s = current' /\ s \notin acts' \cup doomed')
    BY <1>1, <1>2 DEF Working
  <2>5. In(added)' \subseteq Normal \ states'
    BY <1>2, <1>4 DEF Working
  <2> QED BY <1>1, <2>1, <2>2, <2>3, <2>4, <2>5 DEF Working
<1>6. Allocated'
  BY <1>4 DEF Allocated
<1>7. Counted'
  <2>1. ASSUME NEW s \in Normal, s \in live' PROVE ended'[s] = removed'[s]
    <3>1. s \in State
      BY DEF State
    <3>2. CASE s \in F
      BY <1>3, <3>1, <3>2
    <3>3. CASE s \notin F
      BY <2>1, <3>1, <3>3 DEF Counted
    <3> QED BY <3>2, <3>3
  <2> QED BY <2>1 DEF Counted
<1> QED BY <1>4, <1>5, <1>6, <1>7

\* fork.
LEMMA ForkKeeps ==
  ASSUME Covered, IInv, failed = "none", executeFork
  PROVE  IInv'
<1>1. instruction /\ phase = "execute" /\ phase' = "execute" /\ doomed = {}
  BY DEF executeFork, executing, instruction
<1>2. PICK c \in acts : \E f \in Fresh(c), T \in SUBSET seeds[c] :
        /\ forks(c, T)
        /\ failed' = IF mode /\ c \in Sim THEN "fork here?" ELSE failed
        /\ live' = live \cup {f} /\ added' = Push(added, f)
        /\ acts' = acts \cup {f} /\ doomed' \in tooDeep(c, f)
        /\ seeds' = [seeds EXCEPT ![c] = T, ![f] = seeds[c] \ T]
        /\ suspendStatus' = suspendStatus \cup Copies({f}, c)
        /\ simulated' = simulated \ {c, f} /\ ended' = [ended EXCEPT ![f] = 0]
  BY DEF executeFork
<1>3. PICK f \in Fresh(c), T \in SUBSET seeds[c] :
        /\ forks(c, T)
        /\ failed' = IF mode /\ c \in Sim THEN "fork here?" ELSE failed
        /\ live' = live \cup {f} /\ added' = Push(added, f)
        /\ acts' = acts \cup {f} /\ doomed' \in tooDeep(c, f)
        /\ seeds' = [seeds EXCEPT ![c] = T, ![f] = seeds[c] \ T]
        /\ suspendStatus' = suspendStatus \cup Copies({f}, c)
        /\ simulated' = simulated \ {c, f} /\ ended' = [ended EXCEPT ![f] = 0]
  BY <1>2
<1>4. /\ Working /\ c \in Normal /\ c \in State /\ c \in live /\ c \in states \cup In(added)
      /\ f \in Normal /\ f \notin live /\ suspendStatus' = suspendStatus
  BY <1>1, <1>3, ForksNormally DEF forks
<1>5. TypeOK /\ Allocated /\ Counted /\ SeedsPartition
  BY <1>1, Executing
<1>6. f \in State /\ f # c
  BY <1>4 DEF State
<1>7. /\ added' \in [State -> Nat] /\ ended' \in [State -> Nat]
      /\ \A s \in State : added'[s] = IF s \in {f} THEN added[s] + 1 ELSE added[s]
      /\ \A s \in State : ended'[s] = IF s \in {f} THEN 0 ELSE ended[s]
  <2>1. added \in [State -> Nat] /\ ended \in [State -> Nat]
    BY <1>5 DEF TypeOK
  <2>2. /\ added' \in [State -> Nat] /\ added'[f] = added[f] + 1
        /\ \A s \in State : s # f => added'[s] = added[s]
    BY <1>3, <1>6, <2>1, PushFacts
  <2>3. ended' \in [State -> Nat] /\ \A s \in State : ended'[s] = IF s \in {f} THEN 0 ELSE ended[s]
    BY <1>3, <1>6, <2>1
  <2> QED BY <2>2, <2>3
<1>8. /\ seeds' \in [State -> SUBSET Seed] /\ seeds'[c] = T /\ seeds'[f] = seeds[c] \ T
      /\ \A s \in State : s # f /\ s # c => seeds'[s] = seeds[s]
  BY <1>3, <1>4, <1>5, <1>6 DEF TypeOK
<1>9. doomed' \subseteq {f, c}
  BY <1>3 DEF tooDeep
<1>10. TypeOK' /\ AssertsHold'
  <2>1. /\ failed' = "none" /\ live' \subseteq State /\ simulated' \subseteq State
        /\ acts' \subseteq State /\ doomed' \subseteq State
    BY <1>3, <1>4, <1>5, <1>6, <1>9 DEF TypeOK, Working
  <2> QED BY <1>1, <1>4, <1>5, <1>7, <1>8, <2>1
          DEF executeFork, instruction, TypeOK, AssertsHold, Failure
<1>11. UNCHANGED <<states, removed, suspendStatus, mode, inhibit>>
  BY <1>4 DEF executeFork
<1>12. Working' /\ Allocated' /\ Counted' /\ In(added)' = In(added) \cup {f}
  <2>1. {f} \in SUBSET (Normal \ live) /\ doomed' \subseteq {f} \cup {c}
    BY <1>4, <1>9
  <2>2. acts \subseteq In(added) \cup {current}
    BY <1>4 DEF Working
  <2> QED BY <1>1, <1>3, <1>4, <1>5, <1>7, <1>11, <2>1, <2>2, JoinWorks
<1>13. SeedsPartition'
  <2>1. \A s \in State : /\ seeds[s] # {} => s \in live /\ s \in states \cup In(added)
                         /\ \A t \in State \ {s} : seeds[s] \cap seeds[t] = {}
    BY <1>5 DEF SeedsPartition
  <2>2. \A s \in State : seeds'[s] # {} => s \in live' /\ s \in states' \cup In(added)'
    BY <1>3, <1>4, <1>8, <1>11, <1>12, <2>1
  <2>3. \A s \in State : \A t \in State \ {s} : seeds'[s] \cap seeds'[t] = {}
    BY <1>3, <1>4, <1>6, <1>8, <2>1
  <2> QED BY <2>2, <2>3 DEF SeedsPartition
<1> QED BY <1>1, <1>10, <1>12, <1>13, StillExecuting DEF InInstruction

\* branch.
LEMMA BranchKeeps ==
  ASSUME Covered, IInv, failed = "none", executeBranch
  PROVE  IInv'
<1>1. instruction /\ phase = "execute" /\ phase' = "execute" /\ doomed = {}
      /\ branchingPermitted
  BY DEF executeBranch, executing, instruction
<1>a. PICK c \in acts : \E F \in SUBSET Fresh(c) : \E to \in [seeds[c] -> F \cup {c}] :
        branch(c, F, to)
  BY DEF executeBranch
<1>b. PICK F \in SUBSET Fresh(c) : \E to \in [seeds[c] -> F \cup {c}] : branch(c, F, to)
  BY <1>a
<1>2. PICK to \in [seeds[c] -> F \cup {c}] : branch(c, F, to)
  BY <1>b
<1>3. /\ live' = live \cup F /\ added' = PushAll(added, F) /\ acts' = acts \cup F
      /\ doomed' \subseteq F \cup {c}
      /\ suspendStatus' = suspendStatus \cup Copies(F, c)
      /\ simulated' = simulated \ (F \cup {c})
      /\ \A s \in State : seeds'[s] = IF s \in F \cup {c} THEN {x \in seeds[c] : to[x] = s}
                                      ELSE seeds[s]
      /\ \A s \in State : ended'[s] = IF s \in F THEN 0 ELSE ended[s]
      /\ ended' = [s \in State |-> ended'[s]] /\ seeds' = [s \in State |-> seeds'[s]]
  BY <1>2 DEF branch, unseeded
<1>4. /\ Working /\ c \in Normal /\ c \in State /\ c \in live /\ c \in states \cup In(added)
      /\ F \in SUBSET (Normal \ live) /\ suspendStatus' = suspendStatus
  BY <1>1, <1>3, ForksNormally
<1>5. TypeOK /\ Allocated /\ Counted /\ SeedsPartition /\ F \subseteq State
  BY <1>1, <1>4, Executing DEF State
<1>6. /\ added' \in [State -> Nat]
      /\ \A s \in State : added'[s] = IF s \in F THEN added[s] + 1 ELSE added[s]
  BY <1>3, <1>5, PushAllFacts DEF TypeOK
<1>7. TypeOK' /\ AssertsHold'
  <2>a. \A s \in State : ended[s] \in Nat /\ seeds[s] \subseteq Seed
    BY <1>5 DEF TypeOK
  <2>1. ended' \in [State -> Nat]
    <3>1. \A s \in State : ended'[s] \in Nat
      BY <1>3, <2>a
    <3> QED BY <1>3, <3>1
  <2>2. seeds' \in [State -> SUBSET Seed]
    <3>1. \A s \in State : seeds'[s] \subseteq Seed
      BY <1>3, <1>4, <2>a
    <3> QED BY <1>3, <3>1
  <2>3. /\ live' \subseteq State /\ simulated' \subseteq State
        /\ acts' \subseteq State /\ doomed' \subseteq State
    BY <1>3, <1>4, <1>5 DEF TypeOK
  <2> QED BY <1>1, <1>4, <1>5, <1>6, <2>1, <2>2, <2>3
          DEF executeBranch, instruction, TypeOK, AssertsHold, Failure
<1>8. UNCHANGED <<states, removed, suspendStatus, mode, inhibit>>
  BY <1>4 DEF executeBranch
<1>9. Working' /\ Allocated' /\ Counted' /\ In(added)' = In(added) \cup F
  <2>1. c \in In(added) \cup {current} /\ acts \subseteq In(added) \cup {current}
    BY <1>4 DEF Working
  <2> QED BY <1>1, <1>3, <1>4, <1>5, <1>6, <1>8, <2>1, JoinWorks
<1>10. SeedsPartition'
  <2>1. \A s \in State : /\ seeds[s] # {} => s \in live /\ s \in states \cup In(added)
                         /\ \A t \in State \ {s} : seeds[s] \cap seeds[t] = {}
    BY <1>5 DEF SeedsPartition
  <2>2. \A s \in State : seeds'[s] # {} => s \in live' /\ s \in states' \cup In(added)'
    BY <1>3, <1>4, <1>8, <1>9, <2>1
  <2>3. ASSUME NEW s \in State, NEW t \in State \ {s} PROVE seeds'[s] \cap seeds'[t] = {}
    <3>1. CASE s \in F \cup {c} /\ t \in F \cup {c}
      BY <1>3, <3>1
    <3>2. CASE s \notin F \cup {c} /\ t \notin F \cup {c}
      BY <1>3, <2>1, <3>2
    <3>3. CASE s \in F \cup {c} /\ t \notin F \cup {c}
      <4>1. seeds'[s] \subseteq seeds[c] /\ seeds'[t] = seeds[t] /\ seeds[c] \cap seeds[t] = {}
        BY <1>3, <1>4, <2>1, <3>3
      <4> QED BY <4>1
    <3>4. CASE s \notin F \cup {c} /\ t \in F \cup {c}
      <4>1. seeds'[t] \subseteq seeds[c] /\ seeds'[s] = seeds[s] /\ seeds[c] \cap seeds[s] = {}
        BY <1>3, <1>4, <2>1, <3>4
      <4> QED BY <4>1
    <3> QED BY <3>1, <3>2, <3>3, <3>4
  <2> QED BY <2>2, <2>3 DEF SeedsPartition
<1> QED BY <1>1, <1>7, <1>9, <1>10, StillExecuting DEF InInstruction

\* branch when branching is not permitted.
LEMMA BranchInhibitedKeeps ==
  ASSUME Covered, IInv, failed = "none", executeBranchInhibited
  PROVE  IInv'
<1>1. /\ instruction /\ phase = "execute" /\ phase' = "execute" /\ doomed = {}
      /\ UNCHANGED <<acts, live, states, added, removed, suspendStatus, simulated,
                     mode, inhibit, halt, ended, failed>>
      /\ UNCHANGED <<current, suspended, dependent, searcher, children, simTop,
                     atLimit, todo>>
  BY DEF executeBranchInhibited, executing, instruction
<1>2. PICK c \in acts, T \in SUBSET Seed :
        /\ T \subseteq seeds[c] /\ seeds' = [seeds EXCEPT ![c] = T]
        /\ doomed' = {s \in {c} : OnlyReplaySeeds /\ seeds[c] # {} /\ T = {}}
  BY DEF executeBranchInhibited
<1>3. TypeOK /\ Allocated /\ Counted /\ InInstruction /\ SeedsPartition /\ c \in State
  BY <1>1, Executing, Subjects
<1>4. /\ seeds' \in [State -> SUBSET Seed] /\ seeds'[c] = T
      /\ \A s \in State : s # c => seeds'[s] = seeds[s]
  BY <1>2, <1>3 DEF TypeOK
<1>5. TypeOK' /\ AssertsHold'
  <2>1. doomed' \subseteq State
    BY <1>2, <1>3
  <2>2. AssertsHold
    BY DEF IInv
  <2> QED BY <1>1, <1>3, <1>4, <2>1, <2>2 DEF TypeOK, AssertsHold
<1>6. In(added)' = In(added)
  BY <1>1 DEF In
<1>7. Allocated' /\ Counted'
  BY <1>1, <1>3, <1>6 DEF Allocated, Counted
<1>8. SeedsPartition'
  <2>1. \A s \in State : /\ seeds[s] # {} => s \in live /\ s \in states \cup In(added)
                         /\ \A t \in State \ {s} : seeds[s] \cap seeds[t] = {}
    BY <1>3 DEF SeedsPartition
  <2>2. \A s \in State : seeds'[s] \subseteq seeds[s]
    BY <1>2, <1>4
  <2>3. \A s \in State : seeds'[s] # {} => s \in live' /\ s \in states' \cup In(added)'
    BY <1>1, <1>6, <2>1, <2>2
  <2>4. ASSUME NEW s \in State, NEW t \in State \ {s} PROVE seeds'[s] \cap seeds'[t] = {}
    BY <2>1, <2>2
  <2> QED BY <2>3, <2>4 DEF SeedsPartition
<1>9. InInstruction'
  <2>1. CASE Working
    <3>1. InStep(states, simTop)' /\ (searcher' => Lists(children, states, {})')
      BY <1>1, <2>1 DEF Working, InStep, Lists
    <3>2. acts' \cup doomed' = acts \cup doomed
      BY <1>1, <1>2
    <3>3. Working'
      BY <1>1, <1>6, <2>1, <3>1, <3>2 DEF Working
    <3> QED BY <3>3 DEF InInstruction
  <2>2. CASE ~Working
    <3>1. doomed' = {}
      BY <1>1, <1>2, <2>2, ForksNormally
    <3>2. acts' \subseteq {current'}
      BY <1>1, <1>3, <2>2 DEF InInstruction
    <3>3. CASE AtHead /\ mode /\ current = simTop
      <4>1. AtHead'
        BY <1>1, <3>3 DEF AtHead, Quiet, InStep, Lists
      <4> QED BY <1>1, <3>1, <3>2, <3>3, <4>1 DEF InInstruction
    <3>4. ASSUME NEW x \in Sim, Starting(x) PROVE InInstruction'
      <4>1. Starting(x)'
        BY <1>1, <3>4 DEF Starting, Lists
      <4> QED BY <3>1, <3>2, <4>1 DEF InInstruction
    <3>5. acts # {}
      OBVIOUS
    <3> QED BY <1>3, <2>2, <3>3, <3>4, <3>5 DEF InInstruction
  <2> QED BY <2>1, <2>2
<1> QED BY <1>1, <1>5, <1>7, <1>8, <1>9, StillExecuting

\* The instruction is over.
LEMMA DoneKeeps ==
  ASSUME IInv, failed = "none", executeDone
  PROVE  IInv'
<1>1. /\ phase = "execute" /\ phase' = "update" /\ acts' = {} /\ doomed' = {}
      /\ UNCHANGED <<current, live, states, added, removed, suspended,
                     suspendStatus, dependent, seeds, searcher, children, simTop,
                     simulated, mode, inhibit, atLimit, halt, todo, ended, failed>>
  BY DEF executeDone
<1>2. TypeOK /\ Allocated /\ Counted /\ InInstruction /\ SeedsPartition /\ AssertsHold
  BY <1>1, Executing DEF IInv
<1>3. TypeOK' /\ AssertsHold'
  BY <1>1, <1>2 DEF TypeOK, AssertsHold, Phase
<1>4. In(added)' = In(added)
  BY <1>1 DEF In
<1>5. Allocated' /\ Counted' /\ SeedsPartition'
  BY <1>1, <1>2, <1>4 DEF Allocated, Counted, SeedsPartition
<1>6. UpdateReady'
  BY <1>1, <1>2, InstructionReady, ReadyUnchanged
<1> QED BY <1>1, <1>3, <1>5, <1>6 DEF IInv, VectorsInStep, PhaseOK

=============================================================================
