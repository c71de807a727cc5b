--------------------------- MODULE RunnerLiveness ---------------------------
(***************************************************************************)
(* Slots come free: a run whose docupipe process has ended, or has been    *)
(* sent SIGTERM, leaves its slot, for any number of runs and any limit.    *)
(* GuardsEnable is a hypothesis because the prover has no rule for         *)
(* ENABLED: it says of each action whose fairness is assumed that it is    *)
(* enabled where its own guard holds, which its definition gives.          *)
(***************************************************************************)
EXTENDS RunnerProofs

-----------------------------------------------------------------------------
Ended(r) == proc[r] \in {"zero", "nonzero"}

\* A process lives only from its spawn to its executor's wait for it, or longer when
\* the executor has failed; only a process that lives is sent a signal.
Places(r) ==
  /\ proc[r] = "alive" => pc[r] \in {"recording", "streaming", "failing", "closing", "gone"}
  /\ r \in signalled => proc[r] = "alive"
  /\ pc[r] \in {"recording", "streaming", "finalizing"} => proc[r] # "none"

ProcessesPlaced == \A r \in Runs : Places(r)

\* Its executor has nothing long to wait for.
Doomed(r) == r \in signalled \/ Ended(r)

\* Where a step can take the executor of a run that is in a slot.
GoesTo(at) ==
  CASE at = "granted"    -> {"granted", "loading", "gone"}
    [] at = "loading"    -> {"loading", "rejecting", "importing", "preparing", "failing", "gone"}
    [] at = "rejecting"  -> {"rejecting", "committed", "failing", "gone"}
    [] at = "importing"  -> {"importing", "preparing", "failing", "gone"}
    [] at = "preparing"  -> {"preparing", "spawning", "failing", "gone"}
    [] at = "spawning"   -> {"spawning", "recording", "failing", "gone"}
    [] at = "recording"  -> {"recording", "streaming", "failing", "gone"}
    [] at = "streaming"  -> {"streaming", "finalizing", "failing", "gone"}
    [] at = "finalizing" -> {"finalizing", "committed", "failing", "gone"}
    [] at = "committed"  -> {"committed", "failing", "gone"}
    [] at = "failing"    -> {"failing", "closing", "gone"}
    [] at = "closing"    -> {"closing", "gone"}

Late == {"recording", "streaming", "finalizing", "committed", "failing", "closing"}

-----------------------------------------------------------------------------
\* A step leaves the executor where it is or takes it on, towards the end of its slot.
LEMMA SlotMoves ==
  ASSUME IInv, [Next]_vars, NEW q \in Runs, pc[q] \in InSlot
  PROVE  pc'[q] \in GoesTo(pc[q])
<1>0. TypeOK /\ NoLostWakeup /\ DOMAIN pc = Runs
  BY DEF IInv, TypeOK
<1>1. CASE pc'[q] = pc[q]
  BY <1>1 DEF GoesTo, InSlot
<1>2. ASSUME NEW r \in Runs,
             \/ OuterStep(r) \/ Begin(r) \/ Resume(r) \/ InnerStep(r)
             \/ Finish(r) \/ CancelHandler(r) \/ ProcessExit(r)
      PROVE  pc'[q] \in GoesTo(pc[q])
  <2>1. CASE q # r
    <3>1. pc'[q] = pc[q] \/ pc[q] = "waiting"
      BY <1>0, <1>2, <2>1, OthersLeftAlone DEF LeftAlone
    <3> QED
      BY <1>1, <3>1 DEF InSlot
  <2>2. CASE q = r
    <3>1. CASE OuterStep(r) \/ Begin(r)
      BY <2>2, <3>1 DEF OuterStep, StartRun, CreateExecutor, RefreshRaises, Begin, InSlot
    <3>2. CASE Resume(r) \/ Finish(r)
      <4>1. \/ pc[r] = "granted" /\ pc'[r] = "loading"
            \/ pc[r] \in {"committed", "closing"} /\ pc'[r] = "gone"
        BY <3>2 DEF Resume, Finish
      <4> QED
        BY <2>2, <4>1 DEF GoesTo
    <3>3. CASE Load(r) \/ Imported(r) \/ Reject(r) \/ MarkRunning(r) \/ Spawn(r)
      BY <1>0, <2>2, <3>3 DEF Load, Imported, Reject, MarkRunning, Spawn, GoesTo
    <3>4. CASE RecordPid(r) \/ ProcessEnded(r) \/ Finalize(r)
      BY <1>0, <2>2, <3>4 DEF RecordPid, ProcessEnded, Finalize, GoesTo
    <3>5. CASE Raise(r)
      BY <1>0, <2>2, <3>5 DEF Raise, InTry, GoesTo
    <3>6. CASE MarkFailed(r) \/ MarkSwallowed(r)
      BY <1>0, <2>2, <3>6 DEF MarkFailed, MarkSwallowed, AfterMark, GoesTo
    <3>7. CASE CancelHandler(r) \/ ProcessExit(r)
      <4>1. UNCHANGED pc
        BY <3>7 DEF CancelHandler, CancelRead, CancelSignal, CancelCommit, CancelRaises, ProcessExit
      <4> QED
        BY <1>1, <4>1
    <3> QED
      BY <1>2, <3>1, <3>2, <3>3, <3>4, <3>5, <3>6, <3>7 DEF InnerStep
  <2> QED
    BY <2>1, <2>2
<1>3. CASE Shutdown \/ Exit
  <2>1. pc'[q] = Interrupted(pc[q]) \/ pc'[q] = "gone"
    BY <1>3 DEF Shutdown, Exit, InSlot
  <2> QED
    BY <2>1 DEF Interrupted, InTry, GoesTo, InSlot
<1>4. CASE Restart \/ UNCHANGED vars
  BY <1>1, <1>4 DEF Restart, vars
<1> QED
  BY <1>2, <1>3, <1>4, NextCases

\* A step of the executor's own takes it on.
LEMMA SlotWork ==
  ASSUME IInv, NEW q \in Runs, pc[q] \in InSlot, Works(q)
  PROVE  pc'[q] # pc[q]
<1>0. DOMAIN pc = Runs
  BY DEF IInv, TypeOK
<1>1. CASE CreateExecutor(q) \/ Begin(q)
  BY <1>1 DEF CreateExecutor, Begin, InSlot
<1>2. CASE Resume(q) \/ Finish(q)
  <2>1. pc'[q] \in {"loading", "gone"} /\ pc[q] \notin {"loading", "gone"}
    BY <1>2 DEF Resume, Finish
  <2> QED
    BY <2>1
<1>3. CASE Load(q) \/ Reject(q) \/ MarkRunning(q) \/ Spawn(q)
  BY <1>0, <1>3 DEF Load, Imported, Reject, MarkRunning, Spawn
<1>4. CASE RecordPid(q) \/ ProcessEnded(q) \/ Finalize(q) \/ MarkFailed(q)
  BY <1>0, <1>4 DEF RecordPid, ProcessEnded, Finalize, MarkFailed, AfterMark
<1> QED
  BY <1>1, <1>2, <1>3, <1>4 DEF Works

-----------------------------------------------------------------------------
\* A run's process and its executor keep step.
LEMMA PlacesStep == IInv /\ ProcessesPlaced /\ [Next]_vars => ProcessesPlaced'
<1> SUFFICES ASSUME IInv, ProcessesPlaced, [Next]_vars, NEW q \in Runs
             PROVE  Places(q)'
  BY DEF ProcessesPlaced
<1>0. /\ TypeOK /\ NoLostWakeup /\ Places(q)
      /\ DOMAIN pc = Runs /\ DOMAIN proc = Runs
      /\ server = "down" => pc[q] \in {"none", "gone"}
  BY DEF IInv, TypeOK, ProcessesPlaced, DownIsEmpty
<1>1. ASSUME NEW r \in Runs,
             \/ OuterStep(r) \/ Begin(r) \/ Resume(r) \/ InnerStep(r) \/ Finish(r)
      PROVE  Places(q)'
  <2>0. UNCHANGED signalled
    BY <1>1 DEF OuterStep, InnerStep, StartRun, CreateExecutor, RefreshRaises, Begin, Resume,
       Finish, Load, Imported, Reject, MarkRunning, Spawn, RecordPid, ProcessEnded, Finalize, Raise,
       MarkFailed, MarkSwallowed, procVars
  <2>1. CASE q # r
    <3>1. LeftAlone(q)
      BY <1>0, <1>1, <2>1, OthersLeftAlone
    <3> QED
      BY <1>0, <2>0, <3>1 DEF LeftAlone, Places
  <2>2. CASE q = r
    <3>1. CASE Spawn(r)
      BY <1>0, <2>0, <2>2, <3>1 DEF Spawn, Places
    <3>2. CASE ~ Spawn(r)
      <4>1. UNCHANGED proc
        BY <1>1, <3>2 DEF OuterStep, InnerStep, StartRun, CreateExecutor, RefreshRaises, Begin,
           Resume, Finish, Load, Imported, Reject, MarkRunning, RecordPid, ProcessEnded, Finalize, Raise,
           MarkFailed, MarkSwallowed, procVars
      <4>2. pc[q] \in Late => pc'[q] \in GoesTo(pc[q])
        BY SlotMoves DEF Late, InSlot
      <4>3. /\ pc[q] \notin Late => pc'[q] \notin {"recording", "streaming", "finalizing"}
            /\ pc[q] = "gone" => pc'[q] = "gone"
        <5>1. CASE OuterStep(r)
          BY <1>0, <2>2, <5>1 DEF OuterStep, StartRun, CreateExecutor, RefreshRaises
        <5>2. CASE Begin(r)
          BY <1>0, <2>2, <5>2 DEF Begin
        <5>3. CASE Resume(r) \/ Finish(r)
          <6>1. pc'[r] \in {"loading", "gone"} /\ pc[r] # "gone"
            BY <5>3 DEF Resume, Finish
          <6> QED
            BY <2>2, <6>1
        <5>4. CASE InnerStep(r)
          BY <1>0, <2>2, <3>2, <5>4
             DEF InnerStep, Load, Imported, Reject, MarkRunning, RecordPid, ProcessEnded, Finalize, Raise,
                 InTry, MarkFailed, MarkSwallowed, AfterMark, Late
        <5> QED
          BY <1>1, <5>1, <5>2, <5>3, <5>4
      <4>4. proc[q] = "alive" /\ pc[q] = "streaming" => pc'[q] # "finalizing"
        BY <1>0, <1>1, <2>2, <3>2
           DEF OuterStep, InnerStep, StartRun, CreateExecutor, RefreshRaises, Begin, Resume,
               Finish, Load, Imported, Reject, MarkRunning, RecordPid, ProcessEnded, Finalize, Raise,
               MarkFailed, MarkSwallowed
      <4> QED
        BY <1>0, <2>0, <4>1, <4>2, <4>3, <4>4 DEF Places, GoesTo, Late
    <3> QED
      BY <3>1, <3>2
  <2> QED
    BY <2>1, <2>2
<1>2. ASSUME NEW r \in Runs, CancelHandler(r)
      PROVE  Places(q)'
  <2>1. UNCHANGED <<pc, proc>>
    BY <1>2 DEF CancelHandler, CancelRead, CancelSignal, CancelCommit, CancelRaises, procVars
  <2>2. q \in signalled' => q \in signalled \/ proc[q] = "alive"
    BY <1>2 DEF CancelHandler, CancelRead, CancelSignal, CancelCommit, CancelRaises, procVars, Bearers
  <2> QED
    BY <1>0, <2>1, <2>2 DEF Places
<1>3. ASSUME NEW r \in Runs, ProcessExit(r)
      PROVE  Places(q)'
  <2>1. PICK code \in {"zero", "nonzero"} : proc' = [proc EXCEPT ![r] = code]
    BY <1>3 DEF ProcessExit
  <2>2. UNCHANGED pc /\ signalled' = signalled \ {r}
    BY <1>3 DEF ProcessExit
  <2> QED
    BY <1>0, <2>1, <2>2 DEF Places
<1>4. CASE Shutdown \/ Exit
  <2>1. UNCHANGED <<proc, signalled>>
    BY <1>4 DEF Shutdown, Exit, procVars
  <2>2. pc'[q] \in {Interrupted(pc[q]), pc[q], "gone"}
    BY <1>4 DEF Shutdown, Exit
  <2> QED
    BY <1>0, <2>1, <2>2 DEF Places, Interrupted, InTry
<1>5. CASE Restart \/ UNCHANGED vars
  BY <1>0, <1>5 DEF Restart, vars, procVars, Places
<1> QED
  BY <1>1, <1>2, <1>3, <1>4, <1>5, NextCases

\* A signal and an exit code are for ever.
LEMMA EndIsFinal ==
  ASSUME IInv, [Next]_vars, NEW q \in Runs, pc[q] \in {"recording", "streaming"}
  PROVE  /\ Ended(q) => Ended(q)'
         /\ q \in signalled => (q \in signalled)' \/ Ended(q)'
<1>0. DOMAIN proc = Runs /\ TypeOK /\ NoLostWakeup
  BY DEF IInv, TypeOK
<1>1. ASSUME NEW r \in Runs, ProcessExit(r)
      PROVE  Ended(q) => Ended(q)'
  BY <1>0, <1>1 DEF ProcessExit, Ended
<1>2. ASSUME NEW r \in Runs, ProcessExit(r)
      PROVE  q \in signalled => (q \in signalled)' \/ Ended(q)'
  BY <1>0, <1>2 DEF ProcessExit, Ended
<1>3. ASSUME NEW r \in Runs,
             OuterStep(r) \/ Begin(r) \/ Resume(r) \/ InnerStep(r) \/ Finish(r) \/ CancelHandler(r)
      PROVE  signalled \subseteq signalled' /\ proc'[q] = proc[q]
  <2>1. CASE OuterStep(r) \/ Begin(r) \/ Resume(r) \/ Finish(r) \/ CancelHandler(r)
    BY <2>1 DEF OuterStep, StartRun, CreateExecutor, RefreshRaises, Begin, Resume,
       Finish, CancelHandler, CancelRead, CancelSignal, CancelCommit, CancelRaises, procVars
  <2>2. CASE InnerStep(r)
    <3>1. CASE Spawn(r)
      <4>1. q # r
        BY <3>1 DEF Spawn
      <4> QED
        BY <1>0, <3>1, <4>1 DEF Spawn
    <3>2. CASE ~ Spawn(r)
      BY <2>2, <3>2 DEF InnerStep, Load, Imported, Reject, MarkRunning, RecordPid, ProcessEnded, Finalize,
         Raise, MarkFailed, MarkSwallowed, procVars
    <3> QED
      BY <3>1, <3>2
  <2> QED
    BY <1>3, <2>1, <2>2
<1>4. CASE Shutdown \/ Exit \/ Restart \/ UNCHANGED vars
  BY <1>4 DEF Shutdown, Exit, Restart, vars, procVars, Ended
<1> QED
  BY <1>1, <1>2, <1>3, <1>4, NextCases DEF Ended

-----------------------------------------------------------------------------
\* What the guards of the actions whose fairness is assumed say.  An executor waits for
\* nothing but the loop, or for what has come already, when it is neither in line, nor
\* waiting for an import, and its process, if it has one, has ended.
CanGoOn(r) ==
  \/ pc[r] \in {"refreshing", "created"} \cup (InSlot \ {"importing", "spawning", "streaming"})
  \/ pc[r] = "spawning" /\ Pids \ PidsInUse # {}
  \/ pc[r] = "streaming" /\ Ended(r)

GuardsEnable ==
  /\ \A r \in Runs :
       /\ CanGoOn(r) => ENABLED <<Works(r)>>_vars
       /\ pc[r] = "importing" => ENABLED <<Imported(r)>>_vars
       /\ proc[r] = "alive" => ENABLED <<ProcessExit(r)>>_vars
       /\ proc[r] = "alive" /\ r \in signalled => ENABLED <<DiesOfSignal(r)>>_vars
  /\ server = "stopping" /\ (\A r \in Runs : pc[r] \in {"none", "gone"}) =>
       ENABLED <<Stopped>>_vars
  /\ server = "down" => ENABLED <<Restart>>_vars

Unstuck(r) == CanGoOn(r) => ENABLED <<Works(r)>>_vars
Importing(r) == pc[r] = "importing" => ENABLED <<Imported(r)>>_vars
Mortal(r) == /\ r \in signalled => ENABLED <<DiesOfSignal(r)>>_vars
             /\ proc[r] = "alive" => ENABLED <<ProcessExit(r)>>_vars

\* What they give together with fairness: the executor works on as long as it can go on,
\* an import returns, and a process, or one that was sent SIGTERM, ends.
WorksOn(r) == []([]CanGoOn(r) => <><<Works(r)>>_vars)
ImportsThen(r) == []([](pc[r] = "importing") => <><<Imported(r)>>_vars)
RunsOut(r) == []([](proc[r] = "alive") => <><<ProcessExit(r)>>_vars)
DiesThen(r) == []([](r \in signalled) => <><<DiesOfSignal(r)>>_vars)

\* The stages after the end of the process, or after a failure.
Leaving(r) ==
  \/ pc[r] = "streaming" /\ Ended(r)
  \/ pc[r] = "rejecting" \/ pc[r] = "finalizing" \/ pc[r] = "committed"
  \/ pc[r] = "failing" \/ pc[r] = "closing"

\* An executor that waits for nothing more leaves the slot: every step it can take leads
\* on, and no step of another leads back.
LEMMA LeaverLeaves ==
  ASSUME NEW r \in Runs
  PROVE  Spec /\ WorksOn(r) => (Leaving(r) ~> r \notin Holders)
<1>1. pc[r] = "gone" => r \notin Holders
  BY DEF Holders, InSlot
\* What every step does, stage by stage.
<1>2. IInv /\ [Next]_vars /\ pc[r] = "streaming" /\ Ended(r) =>
        \/ (pc[r] = "streaming" /\ Ended(r))'
        \/ (pc[r] = "finalizing")' \/ (pc[r] = "failing")' \/ (pc[r] = "gone")'
  BY SlotMoves, EndIsFinal DEF GoesTo, InSlot
<1>3. IInv /\ [Next]_vars /\ pc[r] = "rejecting" =>
        \/ (pc[r] = "rejecting")' \/ (pc[r] = "committed")'
        \/ (pc[r] = "failing")' \/ (pc[r] = "gone")'
  BY SlotMoves DEF GoesTo, InSlot
<1>4. IInv /\ [Next]_vars /\ pc[r] = "finalizing" =>
        \/ (pc[r] = "finalizing")' \/ (pc[r] = "committed")'
        \/ (pc[r] = "failing")' \/ (pc[r] = "gone")'
  BY SlotMoves DEF GoesTo, InSlot
<1>5. IInv /\ [Next]_vars /\ pc[r] = "committed" =>
        (pc[r] = "committed")' \/ (pc[r] = "failing")' \/ (pc[r] = "gone")'
  BY SlotMoves DEF GoesTo, InSlot
<1>6. IInv /\ [Next]_vars /\ pc[r] = "failing" =>
        (pc[r] = "failing")' \/ (pc[r] = "closing")' \/ (pc[r] = "gone")'
  BY SlotMoves DEF GoesTo, InSlot
<1>7. IInv /\ [Next]_vars /\ pc[r] = "closing" => (pc[r] = "closing")' \/ (pc[r] = "gone")'
  BY SlotMoves DEF GoesTo, InSlot
\* The executor's own step, which must come, does not leave it where it is.
<1>8. IInv /\ <<Works(r)>>_vars =>
        /\ pc[r] = "streaming" => ~((pc[r] = "streaming")')
        /\ pc[r] = "rejecting" => ~((pc[r] = "rejecting")')
        /\ pc[r] = "finalizing" => ~((pc[r] = "finalizing")')
        /\ pc[r] = "committed" => ~((pc[r] = "committed")')
        /\ pc[r] = "failing" => ~((pc[r] = "failing")')
        /\ pc[r] = "closing" => ~((pc[r] = "closing")')
  BY SlotWork DEF InSlot
<1>9. /\ pc[r] = "streaming" /\ Ended(r) => CanGoOn(r)
      /\ pc[r] = "rejecting" => CanGoOn(r)
      /\ pc[r] = "finalizing" => CanGoOn(r)
      /\ pc[r] = "committed" => CanGoOn(r)
      /\ pc[r] = "failing" => CanGoOn(r)
      /\ pc[r] = "closing" => CanGoOn(r)
  BY DEF CanGoOn, InSlot, Ended
<1> QED
  BY <1>1, <1>2, <1>3, <1>4, <1>5, <1>6, <1>7, <1>8, <1>9, InvariantHolds, PTL
     DEF Spec, WorksOn, Leaving

\* A run's process and its executor keep step in every reachable state.
LEMMA ProcessesKeepStep == Spec => []ProcessesPlaced
<1>1. Init => ProcessesPlaced
  BY DEF Init, ProcessesPlaced, Places
<1> QED
  BY <1>1, PlacesStep, InvariantHolds, PTL DEF Spec

\* What fairness says of one run: a signal never goes to a process that has been accounted
\* for, so the process it goes to can die of it.
LEMMA FairToEach ==
  ASSUME NEW r \in Runs
  PROVE  /\ FairSpec /\ []GuardsEnable => WorksOn(r) /\ DiesThen(r)
         /\ FairSpec /\ []GuardsEnable /\ BatchesEnd => RunsOut(r)
         /\ FairSpec /\ []GuardsEnable /\ ImportsReturn => ImportsThen(r)
<1>1. Fairness => ExecutorGoesOn(r) /\ SignalKills(r)
  BY DEF Fairness
<1>2. (BatchesEnd => BatchEnds(r)) /\ (ImportsReturn => ImportReturns(r))
  BY DEF BatchesEnd, ImportsReturn
<1>3. GuardsEnable => Unstuck(r) /\ Importing(r)
  BY DEF GuardsEnable, Unstuck, Importing
<1>4. GuardsEnable /\ ProcessesPlaced => Mortal(r)
  BY DEF GuardsEnable, ProcessesPlaced, Places, Mortal
<1>5. ExecutorGoesOn(r) /\ []Unstuck(r) => WorksOn(r)
  BY PTL DEF ExecutorGoesOn, Unstuck, WorksOn
<1>6. SignalKills(r) /\ []Mortal(r) => DiesThen(r)
  BY PTL DEF SignalKills, Mortal, DiesThen
<1>7. BatchEnds(r) /\ []Mortal(r) => RunsOut(r)
  BY PTL DEF BatchEnds, Mortal, RunsOut
<1>8. ImportReturns(r) /\ []Importing(r) => ImportsThen(r)
  BY PTL DEF ImportReturns, Importing, ImportsThen
<1> QED
  BY <1>1, <1>2, <1>3, <1>4, <1>5, <1>6, <1>7, <1>8, ProcessesKeepStep, PTL DEF FairSpec

\* A run whose process was sent SIGTERM gives its slot up, through failures, a shutdown
\* or a crash on the way: the only wait of its executor is for the process, and that
\* one dies.
THEOREM CancelledRunLeaves == FairSpec /\ []GuardsEnable => CancelFreesSlot
<1> SUFFICES ASSUME NEW r \in Runs
             PROVE  FairSpec /\ []GuardsEnable => (r \in signalled /\ r \in Holders ~> r \notin Holders)
  BY DEF CancelFreesSlot
<1>1. IInv /\ ProcessesPlaced /\ r \in signalled /\ r \in Holders =>
        \/ pc[r] = "recording" /\ Doomed(r)
        \/ pc[r] = "streaming" /\ r \in signalled
        \/ Leaving(r)
  BY DEF ProcessesPlaced, Places, Holders, InSlot, Doomed, Leaving
<1>2. IInv /\ [Next]_vars /\ pc[r] = "recording" /\ Doomed(r) =>
        \/ (pc[r] = "recording" /\ Doomed(r))' \/ (pc[r] = "streaming" /\ r \in signalled)'
        \/ Leaving(r)' \/ (pc[r] = "gone")'
  BY SlotMoves, EndIsFinal DEF GoesTo, InSlot, Doomed, Leaving
<1>3. IInv /\ <<Works(r)>>_vars /\ pc[r] = "recording" => ~((pc[r] = "recording")')
  BY SlotWork DEF InSlot
<1>4. IInv /\ [Next]_vars /\ pc[r] = "streaming" /\ r \in signalled =>
        (pc[r] = "streaming" /\ r \in signalled)' \/ Leaving(r)' \/ (pc[r] = "gone")'
  BY SlotMoves, EndIsFinal DEF GoesTo, InSlot, Leaving
<1>5. IInv /\ <<DiesOfSignal(r)>>_vars /\ pc[r] = "streaming" => Leaving(r)'
  BY DEF IInv, TypeOK, DiesOfSignal, ProcessExit, Ended, Leaving
<1>6. pc[r] = "recording" => CanGoOn(r)
  BY DEF CanGoOn, InSlot
<1>7. pc[r] = "gone" => r \notin Holders
  BY DEF Holders, InSlot
<1>8. FairSpec /\ []GuardsEnable => WorksOn(r) /\ DiesThen(r)
  BY FairToEach
<1>9. Spec /\ WorksOn(r) => (Leaving(r) ~> r \notin Holders)
  BY LeaverLeaves
<1> QED
  BY <1>1, <1>2, <1>3, <1>4, <1>5, <1>6, <1>7, <1>8, <1>9, ProcessesKeepStep, InvariantHolds, PTL
     DEF FairSpec, Spec, WorksOn, DiesThen

-----------------------------------------------------------------------------
\* The operating system has a process id left for whoever is about to spawn one.
PidsLast == \A r \in Runs : pc[r] = "spawning" => Pids \ PidsInUse # {}

\* It has if there are as many as runs: the others' processes leave one over, orphans
\* included.  (The semaphore alone does not say so: it does not count orphans.)
EnoughPids == IsFiniteSet(Pids) => Cardinality(Pids) >= Cardinality(Runs)

THEOREM PidsSuffice ==
  ASSUME EnoughPids
  PROVE  Spec => []PidsLast
<1>1. ASSUME TypeOK, ProcessesPlaced, NEW r \in Runs, pc[r] = "spawning", Pids \subseteq PidsInUse
      PROVE  FALSE
  <2> DEFINE Alive == {q \in Runs : proc[q] = "alive"}
             pidOf == [q \in Alive |-> procPid[q]]
  <2>1. Alive \in SUBSET (Runs \ {r}) /\ Alive \in SUBSET Runs
    BY <1>1 DEF ProcessesPlaced, Places
  <2>2. /\ IsFiniteSet(Runs \ {r}) /\ Cardinality(Runs \ {r}) = Cardinality(Runs) - 1
        /\ Cardinality(Runs) \in Nat
    BY RunsAssumption, FS_RemoveElement, FS_CardinalityType
  <2>3. /\ IsFiniteSet(Alive) /\ Cardinality(Alive) \in Nat
        /\ Cardinality(Alive) <= Cardinality(Runs) - 1
    BY <2>1, <2>2, FS_Subset, FS_CardinalityType
  <2>4. pidOf \in Surjection(Alive, PidsInUse)
    BY DEF Surjection, PidsInUse
  <2>5. /\ IsFiniteSet(PidsInUse) /\ Cardinality(PidsInUse) \in Nat
        /\ Cardinality(PidsInUse) <= Cardinality(Alive)
    BY <2>3, <2>4, FS_Surjection, FS_CardinalityType
  <2>6. /\ IsFiniteSet(Pids) /\ Cardinality(Pids) \in Nat
        /\ Cardinality(Pids) <= Cardinality(PidsInUse)
    BY <1>1, <2>5, FS_Subset, FS_CardinalityType
  <2> HIDE DEF Alive
  <2> QED
    BY <2>2, <2>3, <2>5, <2>6, EnoughPids DEF EnoughPids
<1>2. IInv /\ ProcessesPlaced => PidsLast
  BY <1>1 DEF IInv, PidsLast
<1> QED
  BY <1>2, ProcessesKeepStep, InvariantHolds, PTL

LeavesSlot(r) == r \in Holders ~> r \notin Holders
SlotsComeFree == \A r \in Runs : LeavesSlot(r)

\* A run that is let in leaves if its executor works on and its import and its process end.
LEMMA SlotComesFree ==
  ASSUME NEW r \in Runs
  PROVE  Spec /\ []PidsLast /\ WorksOn(r) /\ RunsOut(r) /\ ImportsThen(r) => LeavesSlot(r)
<1>1. IInv /\ ProcessesPlaced /\ r \in Holders =>
        \/ pc[r] = "granted" \/ pc[r] = "loading" \/ pc[r] = "importing" \/ pc[r] = "preparing"
        \/ pc[r] = "spawning" \/ pc[r] = "recording"
        \/ pc[r] = "streaming" /\ proc[r] = "alive"
        \/ Leaving(r)
  BY DEF IInv, TypeOK, ProcessesPlaced, Places, Holders, InSlot, Leaving, Ended
<1>2. IInv /\ [Next]_vars =>
        /\ pc[r] = "granted" =>
             (pc[r] = "granted")' \/ (pc[r] = "loading")' \/ (pc[r] = "gone")'
        /\ pc[r] = "loading" =>
             \/ (pc[r] = "loading")' \/ (pc[r] = "importing")' \/ (pc[r] = "preparing")'
             \/ Leaving(r)' \/ (pc[r] = "gone")'
        /\ pc[r] = "importing" =>
             (pc[r] = "importing")' \/ (pc[r] = "preparing")' \/ Leaving(r)' \/ (pc[r] = "gone")'
        /\ pc[r] = "preparing" =>
             (pc[r] = "preparing")' \/ (pc[r] = "spawning")' \/ Leaving(r)' \/ (pc[r] = "gone")'
        /\ pc[r] = "spawning" =>
             (pc[r] = "spawning")' \/ (pc[r] = "recording")' \/ Leaving(r)' \/ (pc[r] = "gone")'
  BY SlotMoves DEF GoesTo, InSlot, Leaving
<1>3. IInv /\ [Next]_vars /\ ProcessesPlaced' /\ pc[r] = "recording" =>
        \/ (pc[r] = "recording")'
        \/ (pc[r] = "streaming" /\ proc[r] = "alive")' \/ Leaving(r)' \/ (pc[r] = "gone")'
  <2> SUFFICES ASSUME IInv, [Next]_vars, ProcessesPlaced', pc[r] = "recording"
               PROVE  \/ (pc[r] = "recording")'
                      \/ (pc[r] = "streaming" /\ proc[r] = "alive")'
                      \/ Leaving(r)' \/ (pc[r] = "gone")'
    OBVIOUS
  <2>1. pc'[r] \in {"recording", "streaming", "failing", "gone"}
    BY SlotMoves DEF GoesTo, InSlot
  <2>2. TypeOK'
    BY InvariantStep DEF IInv
  <2>3. pc'[r] = "streaming" => proc'[r] \in {"alive", "zero", "nonzero"}
    BY <2>2 DEF TypeOK, ProcessesPlaced, Places
  <2> QED
    BY <2>1, <2>3 DEF Leaving, Ended
<1>4. IInv /\ [Next]_vars /\ ProcessesPlaced' /\ pc[r] = "streaming" =>
        \/ (pc[r] = "streaming" /\ proc[r] = "alive")' \/ Leaving(r)' \/ (pc[r] = "gone")'
  <2> SUFFICES ASSUME IInv, [Next]_vars, ProcessesPlaced', pc[r] = "streaming"
               PROVE  \/ (pc[r] = "streaming" /\ proc[r] = "alive")'
                      \/ Leaving(r)' \/ (pc[r] = "gone")'
    OBVIOUS
  <2>1. pc'[r] \in {"streaming", "finalizing", "failing", "gone"}
    BY SlotMoves DEF GoesTo, InSlot
  <2>2. TypeOK'
    BY InvariantStep DEF IInv
  <2>3. pc'[r] = "streaming" => proc'[r] \in {"alive", "zero", "nonzero"}
    BY <2>2 DEF TypeOK, ProcessesPlaced, Places
  <2> QED
    BY <2>1, <2>3 DEF Leaving, Ended
<1>5. IInv /\ <<Works(r)>>_vars =>
        /\ pc[r] = "granted" => ~((pc[r] = "granted")')
        /\ pc[r] = "loading" => ~((pc[r] = "loading")')
        /\ pc[r] = "preparing" => ~((pc[r] = "preparing")')
        /\ pc[r] = "spawning" => ~((pc[r] = "spawning")')
        /\ pc[r] = "recording" => ~((pc[r] = "recording")')
  BY SlotWork DEF InSlot
<1>6. IInv /\ <<ProcessExit(r)>>_vars /\ pc[r] = "streaming" => Leaving(r)'
  BY DEF IInv, TypeOK, ProcessExit, Ended, Leaving
<1>7. /\ pc[r] = "granted" => CanGoOn(r)
      /\ pc[r] = "loading" => CanGoOn(r)
      /\ pc[r] = "preparing" => CanGoOn(r)
      /\ PidsLast /\ pc[r] = "spawning" => CanGoOn(r)
      /\ pc[r] = "recording" => CanGoOn(r)
  BY DEF CanGoOn, InSlot, PidsLast
<1>8. pc[r] = "gone" => r \notin Holders
  BY DEF Holders, InSlot
<1>9. Spec /\ WorksOn(r) => (Leaving(r) ~> r \notin Holders)
  BY LeaverLeaves
<1>10. IInv /\ <<Imported(r)>>_vars => ~((pc[r] = "importing")')
  BY DEF IInv, TypeOK, Imported
<1> QED
  BY <1>1, <1>2, <1>3, <1>4, <1>5, <1>6, <1>7, <1>8, <1>9, <1>10, ProcessesKeepStep,
     InvariantHolds, PTL
     DEF Spec, WorksOn, RunsOut, ImportsThen, LeavesSlot

\* Nobody keeps a slot for ever: if every docupipe process and every import ends (the code
\* limits neither) and there are process ids, every run that is let in leaves, whatever
\* raises, is cancelled or is shut down.
\* With SlotAccounting and NobodyForgotten this is why the line for the semaphore moves.
THEOREM EverySlotComesFree ==
  FairSpec /\ BatchesEnd /\ ImportsReturn /\ []GuardsEnable /\ []PidsLast => SlotsComeFree
<1> SUFFICES ASSUME NEW r \in Runs
             PROVE  FairSpec /\ BatchesEnd /\ ImportsReturn /\ []GuardsEnable /\ []PidsLast =>
                      LeavesSlot(r)
  BY DEF SlotsComeFree
<1>1. /\ FairSpec /\ []GuardsEnable => WorksOn(r)
      /\ FairSpec /\ []GuardsEnable /\ BatchesEnd => RunsOut(r)
      /\ FairSpec /\ []GuardsEnable /\ ImportsReturn => ImportsThen(r)
  BY FairToEach
<1>2. Spec /\ []PidsLast /\ WorksOn(r) /\ RunsOut(r) /\ ImportsThen(r) => LeavesSlot(r)
  BY SlotComesFree
<1> QED
  BY <1>1, <1>2, PTL DEF FairSpec

-----------------------------------------------------------------------------
\* Run r is the n-th in line; it has got nearer to a slot, or out of the line.
AtPlace(r, n) == n \in 1..Len(waiters) /\ waiters[n] = r
Nearer(r, n) == pc[r] # "waiting" \/ \E m \in 1..(n - 1) : AtPlace(r, m)

\* Wake takes every waiter nearer, or wakes it.
LEMMA WakeMovesLine ==
  ASSUME TypeOK, NoLostWakeup, NEW r \in Runs, NEW n \in Nat \ {0}, AtPlace(r, n),
         NEW k \in 1..Len(waiters), waiters' = SubSeq(waiters, k + 1, Len(waiters)),
         r \in Woken(k) => pc'[r] # "waiting"
  PROVE  Nearer(r, n)'
<1>0. Len(waiters) \in Nat /\ n \in 1..Len(waiters) /\ waiters[n] = r
  BY DEF TypeOK, AtPlace
<1>1. /\ Len(waiters') = Len(waiters) - k
      /\ \A i \in 1..(Len(waiters) - k) : waiters'[i] = waiters[i + k]
  BY <1>0, WakeProperties
<1>2. CASE n <= k
  <2>1. r \in Woken(k)
    BY <1>0, <1>2 DEF Woken
  <2> QED
    BY <2>1 DEF Nearer
<1>3. CASE n > k
  <2>1. n - k \in 1..(Len(waiters) - k) /\ n - k \in 1..(n - 1) /\ (n - k) + k = n
    BY <1>0, <1>3
  <2>2. waiters'[n - k] = r
    BY <1>0, <1>1, <2>1
  <2>3. n - k \in 1..Len(waiters')
    BY <1>1, <2>1
  <2> QED
    BY <2>1, <2>2, <2>3 DEF Nearer, AtPlace
<1> QED
  BY <1>0, <1>2, <1>3

\* While a run is in line and another in a slot, a step keeps them so or takes the
\* first one nearer: a slot is left by the step that wakes the head of the line, or by
\* one that ends the line.
LEMMA PlaceStep ==
  ASSUME IInv, [Next]_vars, NEW r \in Runs, NEW q \in Runs, NEW n \in Nat \ {0},
         AtPlace(r, n), q \in Holders
  PROVE  (AtPlace(r, n)' /\ (q \in Holders)') \/ Nearer(r, n)'
<1>0. /\ TypeOK /\ NoLostWakeup /\ DOMAIN pc = Runs
      /\ waiters \in Seq(Runs) /\ Len(waiters) \in Nat /\ permits \in Nat
      /\ n \in 1..Len(waiters) /\ waiters[n] = r /\ pc[q] \in InSlot
  BY DEF IInv, TypeOK, AtPlace, Holders
<1>1. pc[r] = "waiting"
  BY <1>0 DEF NoLostWakeup
<1>2. CASE UNCHANGED waiters /\ Holders' = Holders
  BY <1>2 DEF AtPlace
<1>3. ASSUME NEW x \in Runs, OuterStep(x) \/ InnerStep(x)
      PROVE  UNCHANGED waiters /\ Holders' = Holders
  <2>1. UNCHANGED waiters /\ (StaysInSlot(x) \/ StaysElsewhere(x))
    BY <1>3, InnerStaysInSlot, OuterStaysElsewhere DEF semVars
  <2> QED
    BY <1>0, <2>1, SidesKept DEF SameSides
<1>4. ASSUME NEW x \in Runs, Begin(x)
      PROVE  AtPlace(r, n)' /\ (q \in Holders)'
  <2>1. q # x
    BY <1>0, <1>4 DEF Begin, InSlot
  <2>2. pc'[q] = pc[q]
    BY <1>0, <1>4, <2>1 DEF Begin
  <2>3. waiters' = waiters \/ waiters' = Append(waiters, x)
    BY <1>4 DEF Begin
  <2>4. AtPlace(r, n)'
    BY <1>0, <2>3, AppendProperties DEF AtPlace
  <2> QED
    BY <1>0, <2>2, <2>4 DEF Holders
<1>5. ASSUME NEW x \in Runs, Resume(x)
      PROVE  (AtPlace(r, n)' /\ (q \in Holders)') \/ Nearer(r, n)'
  <2> DEFINE k == Least(permits, Len(waiters))
  <2>1. /\ k \in 0..Len(waiters)
        /\ waiters' = SubSeq(waiters, k + 1, Len(waiters))
        /\ pc' = [p \in Runs |-> IF p = x THEN "loading"
                                 ELSE IF p \in Woken(k) THEN "granted" ELSE pc[p]]
    BY <1>0, <1>5 DEF Resume, Wake, Least
  <2> HIDE DEF k
  <2>2. CASE k = 0
    <3>1. waiters' = waiters
      BY <1>0, <2>1, <2>2, SubSeqProperties
    <3>2. (q \in Holders)'
      BY <1>0, <2>1 DEF Holders, InSlot
    <3> QED
      BY <1>0, <3>1, <3>2 DEF AtPlace
  <2>3. CASE k # 0
    <3>1. k \in 1..Len(waiters)
      BY <1>0, <2>1, <2>3
    <3>2. r \in Woken(k) => pc'[r] # "waiting"
      BY <2>1
    <3> QED
      BY <1>0, <2>1, <3>1, <3>2, WakeMovesLine
  <2> QED
    BY <2>2, <2>3
<1>6. ASSUME NEW x \in Runs, Finish(x)
      PROVE  Nearer(r, n)'
  <2>1. Least(1, Len(waiters)) = 1 /\ 1 \in 1..Len(waiters)
    BY <1>0 DEF Least
  <2>2. /\ waiters' = SubSeq(waiters, 1 + 1, Len(waiters))
        /\ pc' = [p \in Runs |-> IF p = x THEN "gone"
                                 ELSE IF p \in Woken(1) THEN "granted" ELSE pc[p]]
    BY <1>6, <2>1 DEF Finish, Wake
  <2>3. r \in Woken(1) => pc'[r] # "waiting"
    BY <2>2
  <2> QED
    BY <1>0, <2>1, <2>2, <2>3, WakeMovesLine
<1>7. ASSUME NEW x \in Runs, CancelHandler(x) \/ ProcessExit(x)
      PROVE  UNCHANGED waiters /\ Holders' = Holders
  BY <1>7 DEF CancelHandler, CancelRead, CancelSignal, CancelCommit, CancelRaises, ProcessExit,
     semVars, Holders
<1>8. CASE Shutdown \/ Exit
  BY <1>1, <1>8 DEF Shutdown, Exit, Interrupted, InTry, Nearer
<1>9. CASE Restart \/ UNCHANGED vars
  <2>1. UNCHANGED <<waiters, pc>>
    BY <1>9 DEF Restart, vars, semVars
  <2> QED
    BY <1>2, <2>1 DEF Holders
<1> QED
  BY <1>2, <1>3, <1>4, <1>5, <1>6, <1>7, <1>8, <1>9, NextCases

\* Nobody waits beside a free slot: who is in line waits for someone who is in a slot.
LEMMA WaitsForHolder ==
  ASSUME IInv, NEW r \in Runs, NEW n \in Nat \ {0}, AtPlace(r, n)
  PROVE  \E q \in Runs : q \in Holders
<1>1. waiters # <<>> /\ permits \in Nat
  BY DEF IInv, TypeOK, AtPlace
<1>2. CASE permits > 0
  BY <1>1, <1>2 DEF IInv, NoLostWakeup, Granted, Holders, InSlot
<1>3. CASE permits = 0
  <2>1. Cardinality(Holders) # 0
    BY <1>3, MaxConcurrentAssumption, RunSetsFinite DEF IInv, PermitAccounting, Holders
  <2>2. Holders # {}
    BY <2>1, FS_EmptySet
  <2> QED
    BY <2>2 DEF Holders
<1> QED
  BY <1>1, <1>2, <1>3

\* Whoever waits gets nearer, from whatever place, if slots come free.
LineMoves == \A r \in Runs, n \in Nat \ {0} : AtPlace(r, n) ~> Nearer(r, n)

LEMMA SlotsMoveTheLine == Spec /\ SlotsComeFree => LineMoves
<1> SUFFICES ASSUME NEW r \in Runs, NEW n \in Nat \ {0}
             PROVE  Spec /\ SlotsComeFree => (AtPlace(r, n) ~> Nearer(r, n))
  BY DEF LineMoves
\* While somebody in particular is in a slot: until that one leaves.
<1>1. ASSUME NEW q \in Runs
      PROVE  Spec /\ SlotsComeFree => [](AtPlace(r, n) /\ q \in Holders => <>Nearer(r, n))
  <2>1. SlotsComeFree => LeavesSlot(q)
    BY DEF SlotsComeFree
  <2>2. IInv /\ [Next]_vars /\ (AtPlace(r, n) /\ q \in Holders) =>
          (AtPlace(r, n) /\ q \in Holders)' \/ Nearer(r, n)'
    BY PlaceStep
  <2>3. q \notin Holders => ~(q \in Holders)
    OBVIOUS
  <2> QED
    BY <2>1, <2>2, <2>3, InvariantHolds, PTL DEF Spec, LeavesSlot
\* Somebody is.
<1>2. IInv /\ AtPlace(r, n) => \E q \in Runs : AtPlace(r, n) /\ q \in Holders
  BY WaitsForHolder
<1>3. Spec /\ SlotsComeFree =>
        [](\A q \in Runs : AtPlace(r, n) /\ q \in Holders => <>Nearer(r, n))
  <2>1. Spec /\ SlotsComeFree =>
          \A q \in Runs : [](AtPlace(r, n) /\ q \in Holders => <>Nearer(r, n))
    BY <1>1
  <2>2. (\A q \in Runs : [](AtPlace(r, n) /\ q \in Holders => <>Nearer(r, n))) =>
          [](\A q \in Runs : AtPlace(r, n) /\ q \in Holders => <>Nearer(r, n))
    OBVIOUS
  <2> QED
    BY <2>1, <2>2
<1>4. (\A q \in Runs : AtPlace(r, n) /\ q \in Holders => <>Nearer(r, n)) =>
        ((\E q \in Runs : AtPlace(r, n) /\ q \in Holders) => <>Nearer(r, n))
  OBVIOUS
<1> QED
  BY <1>2, <1>3, <1>4, InvariantHolds, PTL DEF Spec

\* Nobody is starved: a run that waits in line gets nearer to a slot or out of the line,
\* from whatever place, if processes and imports end.  What remains to the run's own turn is a
\* countdown of places.
THEOREM TheLineMoves ==
  FairSpec /\ BatchesEnd /\ ImportsReturn /\ []GuardsEnable /\ []PidsLast => LineMoves
BY EverySlotComesFree, SlotsMoveTheLine, PTL DEF FairSpec

-----------------------------------------------------------------------------
\* Before the slot and after it.

\* Where a step can take an executor that is not in a slot.
LEMMA OutsideMoves ==
  ASSUME IInv, [Next]_vars, NEW q \in Runs
  PROVE  /\ pc[q] = "none" => pc'[q] \in {"none", "refreshing"}
         /\ pc[q] = "refreshing" => pc'[q] \in {"refreshing", "created", "gone"}
         /\ pc[q] = "created" => pc'[q] \in {"created", "waiting", "loading", "gone"}
         /\ pc[q] = "waiting" => pc'[q] \in {"waiting", "granted", "gone"}
         /\ pc[q] = "gone" => pc'[q] = "gone"
<1>0. TypeOK /\ NoLostWakeup /\ DOMAIN pc = Runs
  BY DEF IInv, TypeOK
<1>1. CASE pc'[q] = pc[q]
  BY <1>1
<1>2. ASSUME NEW r \in Runs,
             \/ OuterStep(r) \/ Begin(r) \/ Resume(r) \/ InnerStep(r)
             \/ Finish(r) \/ CancelHandler(r) \/ ProcessExit(r),
             q # r
      PROVE  pc'[q] = pc[q] \/ (pc[q] = "waiting" /\ pc'[q] = "granted")
  BY <1>0, <1>2, OthersLeftAlone DEF LeftAlone
<1>3. CASE OuterStep(q)
  BY <1>0, <1>3 DEF OuterStep, StartRun, CreateExecutor, RefreshRaises
<1>4. CASE Begin(q)
  BY <1>0, <1>4 DEF Begin
<1>5. CASE Resume(q) \/ InnerStep(q) \/ Finish(q)
  <2>1. pc[q] \in InSlot
    BY <1>5, InnerStaysInSlot DEF StaysInSlot, Resume, Finish, InSlot
  <2> QED
    BY <2>1 DEF InSlot
<1>6. CASE CancelHandler(q) \/ ProcessExit(q) \/ Restart \/ UNCHANGED vars
  BY <1>1, <1>6 DEF CancelHandler, CancelRead, CancelSignal, CancelCommit, CancelRaises,
     ProcessExit, Restart, vars
<1>7. CASE Shutdown \/ Exit
  BY <1>7 DEF Shutdown, Exit, Interrupted, InTry
<1> QED
  BY <1>1, <1>2, <1>3, <1>4, <1>5, <1>6, <1>7, NextCases

\* A step of the executor's own takes it on, here too.
LEMMA OutsideWork ==
  ASSUME IInv, NEW q \in Runs, pc[q] \in {"refreshing", "created"}, Works(q)
  PROVE  pc'[q] # pc[q]
<1>1. CreateExecutor(q) \/ Begin(q)
  BY DEF Works, Resume, Finish, Load, Imported, Reject, MarkRunning, Spawn, RecordPid, ProcessEnded,
     Finalize, MarkFailed
<1> QED
  BY <1>1 DEF CreateExecutor, Begin, IInv, TypeOK

\* A run without an executor yet has no row and nobody to cancel it; once the server is
\* shutting down, an executor is failing or has ended.
Bookkept ==
  \A q \in Runs :
    /\ pc[q] = "none" => status[q] = "absent" /\ cancel[q] = "idle"
    /\ server = "stopping" => pc[q] \in {"none", "failing", "closing", "gone"}

LEMMA BookkeptStep == IInv /\ Bookkept /\ [Next]_vars => Bookkept'
<1> SUFFICES ASSUME IInv, Bookkept, [Next]_vars, NEW q \in Runs
             PROVE  /\ pc'[q] = "none" => status'[q] = "absent" /\ cancel'[q] = "idle"
                    /\ server' = "stopping" => pc'[q] \in {"none", "failing", "closing", "gone"}
  BY DEF Bookkept
<1>0. /\ TypeOK /\ NoLostWakeup /\ DOMAIN pc = Runs /\ DOMAIN status = Runs /\ DOMAIN cancel = Runs
      /\ pc[q] = "none" => status[q] = "absent" /\ cancel[q] = "idle"
      /\ server = "stopping" => pc[q] \in {"none", "failing", "closing", "gone"}
  BY DEF IInv, TypeOK, Bookkept
<1>1. ASSUME NEW r \in Runs, ExecutorStep(r), q # r
      PROVE  /\ pc'[q] = "none" => status'[q] = "absent" /\ cancel'[q] = "idle"
             /\ server' = "stopping" => pc'[q] \in {"none", "failing", "closing", "gone"}
  <2>1. LeftAlone(q) /\ UNCHANGED server
    BY <1>0, <1>1, OthersLeftAlone DEF ExecutorStep
  <2>2. UNCHANGED cancel
    BY <1>1 DEF ExecutorStep, OuterStep, InnerStep, StartRun, CreateExecutor, RefreshRaises, Begin,
       Resume, Finish, Load, Imported, Reject, MarkRunning, Spawn, RecordPid, ProcessEnded, Finalize, Raise,
       MarkFailed, MarkSwallowed, cancelVars
  <2> QED
    BY <1>0, <2>1, <2>2 DEF LeftAlone
<1>2. ASSUME ExecutorStep(q)
      PROVE  /\ pc'[q] # "none"
             /\ server' = "stopping" => pc'[q] \in {"none", "failing", "closing", "gone"}
  <2>1. CASE OuterStep(q) \/ Begin(q)
    BY <1>0, <2>1 DEF OuterStep, StartRun, CreateExecutor, RefreshRaises, Begin
  <2>2. CASE Resume(q) \/ Finish(q)
    <3>1. UNCHANGED server /\ (pc[q] = "granted" \/ pc'[q] = "gone") /\ pc'[q] \in {"loading", "gone"}
      BY <2>2 DEF Resume, Finish
    <3> QED
      BY <1>0, <3>1
  <2>3. CASE InnerStep(q)
    <3>1. pc[q] \in InSlot /\ UNCHANGED server
      BY <2>3, InnerStaysInSlot DEF StaysInSlot
    <3>2. pc'[q] \in GoesTo(pc[q])
      BY <3>1, SlotMoves
    <3>3. pc'[q] # "none"
      BY <2>3, <1>0, InnerStaysInSlot DEF StaysInSlot, InSlot
    <3> QED
      BY <1>0, <3>1, <3>2, <3>3 DEF GoesTo, InSlot
  <2> QED
    BY <1>2, <2>1, <2>2, <2>3 DEF ExecutorStep
<1>3. ASSUME NEW r \in Runs, CancelHandler(r)
      PROVE  /\ pc'[q] = "none" => status'[q] = "absent" /\ cancel'[q] = "idle"
             /\ server' = "stopping" => pc'[q] \in {"none", "failing", "closing", "gone"}
  <2>1. UNCHANGED <<server, pc>>
    BY <1>3 DEF CancelHandler, CancelRead, CancelSignal, CancelCommit, CancelRaises
  <2>2. pc[q] = "none" => status'[q] = "absent" /\ cancel'[q] = "idle"
    <3>1. CASE CancelRead(r)
      BY <1>0, <3>1 DEF CancelRead, jobVars
    <3>2. CASE CancelSignal(r)
      BY <1>0, <3>2 DEF CancelSignal, jobVars
    <3>3. CASE CancelCommit(r)
      BY <1>0, <3>3 DEF CancelCommit
    <3>4. CASE CancelRaises(r)
      BY <1>0, <3>4 DEF CancelRaises, jobVars
    <3> QED
      BY <1>3, <3>1, <3>2, <3>3, <3>4 DEF CancelHandler
  <2> QED
    BY <1>0, <2>1, <2>2
<1>4. ASSUME NEW r \in Runs, ProcessExit(r)
      PROVE  UNCHANGED <<server, pc, status, cancel>>
  BY <1>4 DEF ProcessExit, jobVars, cancelVars
<1>5. CASE Shutdown
  BY <1>0, <1>5 DEF Shutdown, Interrupted, InTry, jobVars, cancelVars, TypeOK, InSlot
<1>6. CASE Exit
  BY <1>0, <1>6 DEF Exit, jobVars
<1>7. CASE Restart
  BY <1>0, <1>7 DEF Restart, Unfinished, cancelVars
<1>8. CASE UNCHANGED vars
  BY <1>0, <1>8 DEF vars, jobVars, cancelVars
<1> QED
  BY <1>0, <1>1, <1>2, <1>3, <1>4, <1>5, <1>6, <1>7, <1>8, NextCases DEF ExecutorStep

LEMMA BookkeptHolds == Spec => []Bookkept
<1>1. Init => Bookkept
  BY DEF Init, Bookkept
<1> QED
  BY <1>1, BookkeptStep, InvariantHolds, PTL DEF Spec

-----------------------------------------------------------------------------
\* A shutdown, with n executors that have still to record their failure.
StopsAt(n) == server = "stopping" /\ Cardinality(Holders) = n
StopCloser(n) == server # "stopping" \/ \E m \in 0..(n - 1) : StopsAt(m)

\* Nobody joins the executors that a shutdown waits for.
LEMMA StopStep ==
  ASSUME IInv, Bookkept, Bookkept', [Next]_vars, NEW n \in Nat, StopsAt(n)
  PROVE  (StopsAt(n)' /\ Holders' = Holders) \/ StopCloser(n)'
<1>1. CASE server' # "stopping"
  BY <1>1 DEF StopCloser
<1>2. CASE server' = "stopping"
  <2>1. ASSUME NEW q \in Holders'
        PROVE  q \in Holders
    <3>1. q \in Runs /\ pc'[q] \in InSlot /\ pc[q] \in {"none", "failing", "closing", "gone"}
      BY <2>1 DEF Holders, Bookkept, StopsAt
    <3>2. pc[q] \notin {"none", "gone"}
      BY <3>1, OutsideMoves DEF InSlot
    <3> QED
      BY <3>1, <3>2 DEF Holders, InSlot
  <2>2. Holders \in SUBSET Runs /\ Holders' \in SUBSET Holders /\ Holders' \in SUBSET Runs
    BY <2>1 DEF Holders
  <2>3. IsFiniteSet(Holders) /\ Cardinality(Holders') \in Nat
    BY <2>2, RunSetsFinite
  <2>4. CASE Holders' = Holders
    BY <1>2, <2>4 DEF StopsAt
  <2>5. CASE Holders' # Holders
    <3>1. Cardinality(Holders') < Cardinality(Holders)
      <4>1. /\ Cardinality(Holders') <= Cardinality(Holders)
            /\ Cardinality(Holders) = Cardinality(Holders') => Holders = Holders'
        BY <2>2, <2>3, FS_Subset
      <4>2. Cardinality(Holders) \in Nat
        BY <2>3, FS_CardinalityType
      <4> QED
        BY <2>3, <2>5, <4>1, <4>2
    <3>2. Cardinality(Holders') \in 0..(n - 1)
      BY <2>3, <3>1 DEF StopsAt
    <3> QED
      BY <1>2, <3>2 DEF StopCloser, StopsAt
  <2> QED
    BY <2>4, <2>5
<1> QED
  BY <1>1, <1>2

\* An executor that records its failure, or has only to close, leaves its slot.
LeaverGoes(r) == Leaving(r) ~> r \notin Holders
LeaversGo == \A r \in Runs : LeaverGoes(r)

LEMMA LeaversLeave == FairSpec /\ []GuardsEnable => LeaversGo
<1> SUFFICES ASSUME NEW r \in Runs
             PROVE  FairSpec /\ []GuardsEnable => LeaverGoes(r)
  BY DEF LeaversGo
<1>1. FairSpec /\ []GuardsEnable => WorksOn(r)
  BY FairToEach
<1>2. Spec /\ WorksOn(r) => (Leaving(r) ~> r \notin Holders)
  BY LeaverLeaves
<1> QED
  BY <1>1, <1>2, PTL DEF FairSpec, LeaverGoes

\* A shutdown comes to its end, executor by executor: each of those that are left has only
\* its failure to record, and Stopped needs no more.  What remains is a countdown.
StopMoves == \A n \in Nat : StopsAt(n) ~> StopCloser(n)

LEMMA TheShutdownMoves == FairSpec /\ []GuardsEnable => StopMoves
<1> SUFFICES ASSUME NEW n \in Nat
             PROVE  FairSpec /\ []GuardsEnable => (StopsAt(n) ~> StopCloser(n))
  BY DEF StopMoves
\* While somebody in particular is left: until that one leaves.
<1>1. ASSUME NEW r \in Runs
      PROVE  Spec /\ LeaversGo => [](StopsAt(n) /\ r \in Holders => <>StopCloser(n))
  <2>1. LeaversGo => LeaverGoes(r)
    BY DEF LeaversGo
  <2>2. Bookkept /\ StopsAt(n) /\ r \in Holders => Leaving(r)
    BY DEF Bookkept, StopsAt, Holders, InSlot, Leaving
  <2>3. IInv /\ Bookkept /\ Bookkept' /\ [Next]_vars /\ (StopsAt(n) /\ r \in Holders) =>
          (StopsAt(n) /\ r \in Holders)' \/ StopCloser(n)'
    BY StopStep
  <2>4. r \notin Holders => ~(r \in Holders)
    OBVIOUS
  <2> QED
    BY <2>1, <2>2, <2>3, <2>4, InvariantHolds, BookkeptHolds, PTL DEF Spec, LeaverGoes
\* Nobody is left.
<1>2. Spec /\ Fairness /\ []GuardsEnable =>
        [](StopsAt(n) /\ Holders = {} => <>StopCloser(n))
  <2>1. Fairness => ShutdownEnds
    BY DEF Fairness
  <2>2. GuardsEnable /\ Bookkept /\ StopsAt(n) /\ Holders = {} => ENABLED <<Stopped>>_vars
    <3>1. Bookkept /\ StopsAt(n) /\ Holders = {} =>
            server = "stopping" /\ \A r \in Runs : pc[r] \in {"none", "gone"}
      BY DEF Bookkept, StopsAt, Holders, InSlot
    <3> QED
      BY <3>1 DEF GuardsEnable
  <2>3. IInv /\ Bookkept /\ Bookkept' /\ [Next]_vars /\ (StopsAt(n) /\ Holders = {}) =>
          (StopsAt(n) /\ Holders = {})' \/ StopCloser(n)'
    BY StopStep
  <2>4. <<Stopped>>_vars => StopCloser(n)'
    BY DEF Stopped, Exit, StopCloser
  <2> QED
    BY <2>1, <2>2, <2>3, <2>4, InvariantHolds, BookkeptHolds, PTL DEF Spec, ShutdownEnds
<1>3. Spec /\ LeaversGo =>
        [](\A r \in Runs : StopsAt(n) /\ r \in Holders => <>StopCloser(n))
  <2>1. Spec /\ LeaversGo =>
          \A r \in Runs : [](StopsAt(n) /\ r \in Holders => <>StopCloser(n))
    BY <1>1
  <2>2. (\A r \in Runs : [](StopsAt(n) /\ r \in Holders => <>StopCloser(n))) =>
          [](\A r \in Runs : StopsAt(n) /\ r \in Holders => <>StopCloser(n))
    OBVIOUS
  <2> QED
    BY <2>1, <2>2
<1>4. (\A r \in Runs : StopsAt(n) /\ r \in Holders => <>StopCloser(n)) =>
        ((\E r \in Runs : StopsAt(n) /\ r \in Holders) => <>StopCloser(n))
  OBVIOUS
<1>5. StopsAt(n) => Holders = {} \/ \E r \in Runs : StopsAt(n) /\ r \in Holders
  BY DEF Holders
<1> QED
  BY <1>2, <1>3, <1>4, <1>5, LeaversLeave, PTL DEF FairSpec, Spec

-----------------------------------------------------------------------------
\* The two countdowns, on places in the line and on executors that are left: from "nearer,
\* whatever the number" follows "there".  Who waits is somewhere in the line (NoLostWakeup)
\* and the executors left are so many, so induction on the natural numbers says both of
\* every behaviour; under temporal operators it is not to be had here.
LeavesLine(r) == pc[r] = "waiting" ~> pc[r] # "waiting"
LineCountsDown == LineMoves => \A r \in Runs : LeavesLine(r)
StopCountsDown == StopMoves => (server = "stopping" ~> server # "stopping")

\* An executor that has begun comes to its end.
ExecutorEnds(r) == pc[r] # "none" ~> pc[r] = "gone"

LEMMA EveryExecutorEnds ==
  ASSUME NEW r \in Runs
  PROVE  Spec /\ WorksOn(r) /\ LeavesSlot(r) /\ LeavesLine(r) => ExecutorEnds(r)
<1>1. IInv /\ pc[r] # "none" =>
        \/ pc[r] = "refreshing" \/ pc[r] = "created" \/ pc[r] = "waiting"
        \/ r \in Holders \/ pc[r] = "gone"
  BY DEF IInv, TypeOK, Holders
<1>2. IInv /\ [Next]_vars =>
        /\ pc[r] = "refreshing" =>
             (pc[r] = "refreshing")' \/ (pc[r] = "created")' \/ (pc[r] = "gone")'
        /\ pc[r] = "created" =>
             \/ (pc[r] = "created")' \/ (pc[r] = "waiting")' \/ (r \in Holders)'
             \/ (pc[r] = "gone")'
        /\ pc[r] = "waiting" =>
             (pc[r] = "waiting")' \/ (r \in Holders)' \/ (pc[r] = "gone")'
        /\ pc[r] = "gone" => (pc[r] = "gone")'
  BY OutsideMoves DEF Holders, InSlot
<1>3. IInv /\ [Next]_vars /\ r \in Holders => (r \in Holders)' \/ (pc[r] = "gone")'
  BY SlotMoves DEF GoesTo, Holders, InSlot
<1>4. IInv /\ <<Works(r)>>_vars =>
        /\ pc[r] = "refreshing" => ~((pc[r] = "refreshing")')
        /\ pc[r] = "created" => ~((pc[r] = "created")')
  BY OutsideWork
<1>5. /\ pc[r] = "refreshing" => CanGoOn(r)
      /\ pc[r] = "created" => CanGoOn(r)
  BY DEF CanGoOn
<1>6. r \notin Holders => ~(r \in Holders)
  OBVIOUS
<1>7. pc[r] # "waiting" => ~(pc[r] = "waiting")
  OBVIOUS
<1> QED
  BY <1>1, <1>2, <1>3, <1>4, <1>5, <1>6, <1>7, InvariantHolds, PTL
     DEF Spec, LeavesSlot, LeavesLine, WorksOn, ExecutorEnds

-----------------------------------------------------------------------------
\* An executor that has ended has left an outcome, which no step takes back: not a late
\* cancel, which puts another in its place, nor a restart.
Settled(r) == pc[r] = "gone" /\ status[r] \in Finished

LEMMA SettledStep ==
  ASSUME IInv, [Next]_vars, NEW r \in Runs, Settled(r)
  PROVE  Settled(r)'
<1>0. TypeOK /\ NoLostWakeup /\ DOMAIN status = Runs /\ DOMAIN pc = Runs
  BY DEF IInv, TypeOK
<1>1. ASSUME NEW q \in Runs, ExecutorStep(q)
      PROVE  Settled(r)'
  <2>1. CASE q = r
    <3>1. pc[r] \in {"none", "refreshing", "created"} \cup InSlot
      BY <1>1, <2>1, InnerStaysInSlot
         DEF ExecutorStep, OuterStep, StartRun, CreateExecutor, RefreshRaises, Begin, Resume,
             Finish, StaysInSlot, InSlot
    <3> QED
      BY <3>1 DEF Settled, InSlot
  <2>2. CASE q # r
    <3>1. LeftAlone(r)
      BY <1>0, <1>1, <2>2, OthersLeftAlone DEF ExecutorStep
    <3> QED
      BY <3>1 DEF LeftAlone, Settled
  <2> QED
    BY <2>1, <2>2
<1>2. ASSUME NEW q \in Runs, CancelHandler(q) \/ ProcessExit(q)
      PROVE  Settled(r)'
  <2>1. UNCHANGED pc /\ (status' = status \/ status' = [status EXCEPT ![q] = "cancelled"])
    BY <1>2 DEF CancelHandler, CancelRead, CancelSignal, CancelCommit, CancelRaises, ProcessExit,
       jobVars
  <2> QED
    BY <1>0, <2>1 DEF Settled, Finished
<1>3. CASE Shutdown \/ Exit \/ Restart \/ UNCHANGED vars
  <2>1. pc'[r] = "gone"
    BY <1>3, OutsideMoves DEF Settled
  <2>2. CASE Restart
    BY <1>0, <2>1, <2>2 DEF Restart, Settled, Finished, Unfinished
  <2>3. CASE UNCHANGED status
    BY <2>1, <2>3 DEF Settled
  <2> QED
    BY <1>3, <2>2, <2>3 DEF Shutdown, Exit, vars, jobVars
<1> QED
  BY <1>1, <1>2, <1>3, NextCases DEF ExecutorStep

\* A server that is down can only come up again.
LEMMA DownStep == IInv /\ [Next]_vars /\ server = "down" => server' \in {"down", "up"}
<1> SUFFICES ASSUME IInv, [Next]_vars, server = "down"
             PROVE  server' \in {"down", "up"}
  OBVIOUS
<1>1. CASE UNCHANGED server \/ Restart
  BY <1>1 DEF Restart
<1>2. ASSUME NEW r \in Runs, ExecutorStep(r) \/ CancelHandler(r) \/ ProcessExit(r)
      PROVE  UNCHANGED server
  <2>1. CASE InnerStep(r)
    BY <2>1, InnerStaysInSlot DEF StaysInSlot
  <2> QED
    BY <1>2, <2>1 DEF ExecutorStep, OuterStep, StartRun, CreateExecutor, RefreshRaises, Begin,
       Resume, Finish, CancelHandler, CancelRead, CancelSignal, CancelCommit, CancelRaises,
       ProcessExit
<1> QED
  BY <1>1, <1>2, NextCases DEF ExecutorStep, Shutdown, vars

\* Every run that has a row comes to an outcome and keeps one, through failures, cancels,
\* shutdowns and crashes, for any number of runs and any limit: if every docupipe process
\* and every import ends, a server that is down is started again, there are process ids, and no fault is
\* kept from the row.
THEOREM EveryRunFinishes ==
  ASSUME FailuresReported, EnoughPids
  PROVE  FairSpec /\ []GuardsEnable /\ LineCountsDown /\ StopCountsDown => RunsFinish
<1> SUFFICES ASSUME NEW r \in Runs
             PROVE  FairSpec /\ []GuardsEnable /\ LineCountsDown /\ StopCountsDown =>
                      (BatchesEnd /\ ImportsReturn /\ ServerReturns =>
                         (status[r] # "absent" ~> [](status[r] \in Finished)))
  BY DEF RunsFinish
\* Its executor comes to its end.
<1>1. FairSpec /\ BatchesEnd /\ ImportsReturn /\ []GuardsEnable => SlotsComeFree /\ LineMoves
  BY EverySlotComesFree, TheLineMoves, PidsSuffice, EnoughPids, PTL DEF FairSpec
<1>2. SlotsComeFree => LeavesSlot(r)
  BY DEF SlotsComeFree
<1>3. LineCountsDown /\ LineMoves => LeavesLine(r)
  BY DEF LineCountsDown
<1>4. Spec /\ WorksOn(r) /\ LeavesSlot(r) /\ LeavesLine(r) => ExecutorEnds(r)
  BY EveryExecutorEnds
\* The server is up again.
<1>5. FairSpec /\ []GuardsEnable /\ StopCountsDown => (server = "stopping" ~> server # "stopping")
  BY TheShutdownMoves, PTL DEF StopCountsDown
<1>6. IInv /\ [Next]_vars /\ server = "down" => (server = "down")' \/ (server = "up")'
  BY DownStep
<1>7. GuardsEnable /\ server = "down" => ENABLED <<Restart>>_vars
  BY DEF GuardsEnable
<1>8. <<Restart>>_vars => (server = "up")'
  BY DEF Restart
<1>9. IInv => server = "up" \/ server = "stopping" \/ server = "down"
  BY DEF IInv, TypeOK
<1>10. server # "stopping" => ~(server = "stopping")
  OBVIOUS
\* Then there is an outcome, and it stays.
<1>11. IInv /\ [Next]_vars /\ pc[r] = "gone" => (pc[r] = "gone")'
  BY OutsideMoves
<1>12. IInv /\ AllAccounted /\ pc[r] = "gone" /\ server = "up" => Settled(r)
  BY DEF IInv, TypeOK, AllAccounted, Accounted, Settled, Unfinished, Finished
<1>13. IInv /\ [Next]_vars /\ Settled(r) => Settled(r)'
  BY SettledStep
<1>14. Settled(r) => status[r] \in Finished
  BY DEF Settled
<1>15. Spec => []AllAccounted
  BY RunsAccounted, FailuresReported
<1>16. FairSpec /\ []GuardsEnable => WorksOn(r)
  BY FairToEach
<1>17. Bookkept /\ status[r] # "absent" => pc[r] # "none"
  BY DEF Bookkept
<1> QED
  BY <1>1, <1>2, <1>3, <1>4, <1>5, <1>6, <1>7, <1>8, <1>9, <1>10, <1>11, <1>12, <1>13, <1>14,
     <1>15, <1>16, <1>17, InvariantHolds, BookkeptHolds, PTL
     DEF FairSpec, Spec, ServerReturns, ExecutorEnds
=============================================================================
