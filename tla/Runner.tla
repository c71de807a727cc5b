------------------------------- MODULE Runner -------------------------------
(***************************************************************************)
(* RunnerService: the coroutines that carry pipeline runs from a database  *)
(* row to a docupipe process and back, the semaphore that limits them, the *)
(* cancel handler that races them, and the restart of the server process   *)
(* under all of it.                                                        *)
(*                                                                         *)
(* One action is what happens between two awaits of one coroutine, so pc   *)
(* names the await a run's executor is suspended at.                       *)
(***************************************************************************)
EXTENDS Naturals, Sequences, FiniteSets

CONSTANTS
  Runs,           \* run ids; each is started at most once
  Pids,           \* process ids the operating system hands out
  NoPid,          \* jobs.pid IS NULL
  MaxConcurrent,  \* settings.max_concurrent_runs
  Cancellable,    \* the runs somebody asks to cancel
  Faults          \* the awaits whose call may raise: points of pc, and "cancel";
                  \* "crash": the server process may be killed

ASSUME MaxConcurrentAssumption == MaxConcurrent \in Nat \ {0}
ASSUME RunsAssumption == IsFiniteSet(Runs)
ASSUME PidsAssumption == NoPid \notin Pids

VARIABLES
  server,     \* "up", "stopping" (graceful shutdown) or "down"
  status,     \* jobs.status of each run; "absent": no row yet
  jobPid,     \* jobs.pid
  pc,         \* where the run's executor is suspended
  permits,    \* Semaphore._value
  waiters,    \* the futures of Semaphore._waiters that are not done
  active,     \* RunnerService._active_runs
  proc,       \* the run's docupipe process: none, alive, or its exit code
  procPid,    \* proc.pid, in the executor's local variable
  signalled,  \* runs whose process has been sent SIGTERM
  cancel,     \* where the run's cancel handler is suspended
  cancelPid   \* job.pid as the cancel handler has read it

jobVars == <<status, jobPid>>
semVars == <<permits, waiters>>
procVars == <<proc, procPid, signalled>>
cancelVars == <<cancel, cancelPid>>
vars == <<server, jobVars, pc, semVars, active, procVars, cancelVars>>

Unfinished == {"pending", "running"}
Finished == {"succeeded", "failed", "cancelled"}

\* Inside `async with self._semaphore` (a granted waiter already holds its permit).
InSlot == {"granted", "loading", "rejecting", "importing", "preparing", "spawning",
           "recording", "streaming", "finalizing", "committed", "failing", "closing"}

\* Inside the try block of _execute_run.
InTry == {"loading", "rejecting", "importing", "preparing", "spawning", "recording",
          "streaming", "finalizing", "committed"}

Holders == {r \in Runs : pc[r] \in InSlot}
Granted == {r \in Runs : pc[r] = "granted"}

-----------------------------------------------------------------------------
\* asyncio.Semaphore: a permit that is released goes to the first waiter itself,
\* and nobody takes one while an earlier waiter has not resumed.

Locked == permits = 0 \/ waiters # <<>> \/ Granted # {}

Woken(n) == {waiters[i] : i \in 1..n}

\* Of `free` permits n go to the first n waiters.
Wake(n, free) ==
  /\ waiters' = SubSeq(waiters, n + 1, Len(waiters))
  /\ permits' = free - n

Least(a, b) == IF a <= b THEN a ELSE b

-----------------------------------------------------------------------------
\* Variants of the operators below, each with a bug a careless edit could make.
\* The specification uses none of them; a property is worth its run when it tells
\* the variant from the code.

\* The slot is entered before the run is announced as active.
BeginAnnouncedLate(r) ==
  /\ pc[r] = "created"
  /\ active' = IF Locked THEN active ELSE active \cup {r}
  /\ \/ /\ ~Locked
        /\ permits' = permits - 1
        /\ pc' = [pc EXCEPT ![r] = "loading"]
        /\ UNCHANGED waiters
     \/ /\ Locked
        /\ waiters' = Append(waiters, r)
        /\ pc' = [pc EXCEPT ![r] = "waiting"]
        /\ UNCHANGED permits
  /\ UNCHANGED <<server, jobVars, procVars, cancelVars>>

\* The permits that came free in the meantime are not passed on.
ResumeAlone(r) ==
  /\ pc[r] = "granted"
  /\ pc' = [pc EXCEPT ![r] = "loading"]
  /\ UNCHANGED <<server, jobVars, semVars, active, procVars, cancelVars>>

\* The exception is handled outside `async with`: the slot is given up before the
\* failure is recorded.
RaiseOutOfSlot(r) ==
  LET n == Least(1, Len(waiters)) IN
  /\ pc[r] \in InTry \cap Faults
  /\ pc[r] # "rejecting"
  /\ Wake(n, permits + 1)
  /\ pc' = [q \in Runs |-> IF q = r THEN "failing"
                           ELSE IF q \in Woken(n) THEN "granted" ELSE pc[q]]
  /\ UNCHANGED <<server, jobVars, active, procVars, cancelVars>>

\* Only a clean exit ends the wait.
ProcessEndedCleanly(r) ==
  /\ pc[r] = "streaming"
  /\ proc[r] = "zero"
  /\ pc' = [pc EXCEPT ![r] = "finalizing"]
  /\ UNCHANGED <<server, jobVars, semVars, active, procVars, cancelVars>>

\* The exception is logged and not recorded.
RaiseUnrecorded(r) ==
  /\ pc[r] \in InTry \cap Faults
  /\ pc[r] # "rejecting"
  /\ pc' = [pc EXCEPT ![r] = "closing"]
  /\ UNCHANGED <<server, jobVars, semVars, active, procVars, cancelVars>>

\* A failed run is tried again in the same slot.
MarkFailedAndRetry(r) ==
  /\ pc[r] \in {"rejecting", "failing"}
  /\ status' = [status EXCEPT ![r] = "failed"]
  /\ pc' = [pc EXCEPT ![r] = "loading"]
  /\ UNCHANGED <<server, jobPid, semVars, active, procVars, cancelVars>>

\* The permit is not released.
FinishKeepingPermit(r) ==
  /\ pc[r] \in {"committed", "closing"}
  /\ active' = active \ {r}
  /\ pc' = [pc EXCEPT ![r] = "gone"]
  /\ UNCHANGED <<server, jobVars, semVars, procVars, cancelVars>>

\* The signal goes to the process group, which all docupipe processes share.
CancelSignalGroup(r) ==
  /\ cancel[r] = "running"
  /\ signalled' = signalled \cup {q \in Runs : proc[q] = "alive"}
  /\ cancel' = [cancel EXCEPT ![r] = "killed"]
  /\ UNCHANGED <<server, jobVars, pc, semVars, active, proc, procPid, cancelPid>>

\* The sweep forgets the runs that had started, or those that had not.
RestartSweeping(S) ==
  /\ server = "down"
  /\ server' = "up"
  /\ status' = [r \in Runs |-> IF status[r] \in S THEN "failed" ELSE status[r]]
  /\ UNCHANGED <<jobPid, pc, semVars, active, procVars, cancelVars>>

RestartSweepingPending == RestartSweeping({"pending"})
RestartSweepingRunning == RestartSweeping({"running"})

-----------------------------------------------------------------------------
Init ==
  /\ server = "up"
  /\ status = [r \in Runs |-> "absent"]
  /\ jobPid = [r \in Runs |-> NoPid]
  /\ pc = [r \in Runs |-> "none"]
  /\ permits = MaxConcurrent
  /\ waiters = <<>>
  /\ active = {}
  /\ proc = [r \in Runs |-> "none"]
  /\ procPid = [r \in Runs |-> NoPid]
  /\ signalled = {}
  /\ cancel = [r \in Runs |-> "idle"]
  /\ cancelPid = [r \in Runs |-> NoPid]

\* start_run has committed the pending row and awaits its refresh.
StartRun(r) ==
  /\ server = "up"
  /\ pc[r] = "none"
  /\ status' = [status EXCEPT ![r] = "pending"]
  /\ pc' = [pc EXCEPT ![r] = "refreshing"]
  /\ UNCHANGED <<server, jobPid, semVars, active, procVars, cancelVars>>

\* The refresh returns and the executor is scheduled, or it raises and there
\* will be none.
CreateExecutor(r) ==
  /\ pc[r] = "refreshing"
  /\ pc' = [pc EXCEPT ![r] = "created"]
  /\ UNCHANGED <<server, jobVars, semVars, active, procVars, cancelVars>>

RefreshRaises(r) ==
  /\ pc[r] = "refreshing"
  /\ "refreshing" \in Faults
  /\ pc' = [pc EXCEPT ![r] = "gone"]
  /\ UNCHANGED <<server, jobVars, semVars, active, procVars, cancelVars>>

\* _execute_run up to its first await: with a free permit straight into
\* _do_execute, else in line.
Begin(r) ==
  /\ pc[r] = "created"
  /\ active' = active \cup {r}
  /\ \/ /\ ~Locked
        /\ permits' = permits - 1
        /\ pc' = [pc EXCEPT ![r] = "loading"]
        /\ UNCHANGED waiters
     \/ /\ Locked
        /\ waiters' = Append(waiters, r)
        /\ pc' = [pc EXCEPT ![r] = "waiting"]
        /\ UNCHANGED permits
  /\ UNCHANGED <<server, jobVars, procVars, cancelVars>>

\* A waiter that was handed a permit runs again; permits that came free while it
\* had not resumed go to those behind it.
Resume(r) ==
  LET n == Least(permits, Len(waiters)) IN
  /\ pc[r] = "granted"
  /\ Wake(n, permits)
  /\ pc' = [q \in Runs |-> IF q = r THEN "loading"
                           ELSE IF q \in Woken(n) THEN "granted" ELSE pc[q]]
  /\ UNCHANGED <<server, jobVars, active, procVars, cancelVars>>

\* Task, credential and environment are read, config.yaml is written.  Nothing
\* looks at the job's status.  A task with a credential starts `dws auth import`.
Load(r) ==
  /\ pc[r] = "loading"
  /\ \E at \in {"importing", "preparing"} : pc' = [pc EXCEPT ![r] = at]
  /\ UNCHANGED <<server, jobVars, semVars, active, procVars, cancelVars>>

\* The dws process is over, whatever its exit code.  Nothing limits how long it
\* takes, and a cancel does not reach it: the job is pending and has no pid.
Imported(r) ==
  /\ pc[r] = "importing"
  /\ pc' = [pc EXCEPT ![r] = "preparing"]
  /\ UNCHANGED <<server, jobVars, semVars, active, procVars, cancelVars>>

\* The task or the credential is missing, or a secret does not decrypt.
Reject(r) ==
  /\ pc[r] = "loading"
  /\ pc' = [pc EXCEPT ![r] = "rejecting"]
  /\ UNCHANGED <<server, jobVars, semVars, active, procVars, cancelVars>>

\* The first UPDATE is committed.
MarkRunning(r) ==
  /\ pc[r] = "preparing"
  /\ status' = [status EXCEPT ![r] = "running"]
  /\ pc' = [pc EXCEPT ![r] = "spawning"]
  /\ UNCHANGED <<server, jobPid, semVars, active, procVars, cancelVars>>

PidsInUse == {procPid[r] : r \in {q \in Runs : proc[q] = "alive"}}

\* The operating system may hand out the pid of any process that has been reaped.
Spawn(r) ==
  /\ pc[r] = "spawning"
  /\ \E p \in Pids \ PidsInUse : procPid' = [procPid EXCEPT ![r] = p]
  /\ proc' = [proc EXCEPT ![r] = "alive"]
  /\ pc' = [pc EXCEPT ![r] = "recording"]
  /\ UNCHANGED <<server, jobVars, semVars, active, signalled, cancelVars>>

\* The second UPDATE writes the pid, and the status again.
RecordPid(r) ==
  /\ pc[r] = "recording"
  /\ status' = [status EXCEPT ![r] = "running"]
  /\ jobPid' = [jobPid EXCEPT ![r] = procPid[r]]
  /\ pc' = [pc EXCEPT ![r] = "streaming"]
  /\ UNCHANGED <<server, semVars, active, procVars, cancelVars>>

\* stdout is at its end and proc.wait() returns the exit code.
ProcessEnded(r) ==
  /\ pc[r] = "streaming"
  /\ proc[r] \in {"zero", "nonzero"}
  /\ pc' = [pc EXCEPT ![r] = "finalizing"]
  /\ UNCHANGED <<server, jobVars, semVars, active, procVars, cancelVars>>

\* The last UPDATE is committed; its session is still to be closed.
Finalize(r) ==
  /\ pc[r] = "finalizing"
  /\ status' = [status EXCEPT ![r] = IF proc[r] = "zero" THEN "succeeded" ELSE "failed"]
  /\ jobPid' = [jobPid EXCEPT ![r] = NoPid]
  /\ pc' = [pc EXCEPT ![r] = "committed"]
  /\ UNCHANGED <<server, semVars, active, procVars, cancelVars>>

\* An awaited call of _do_execute raises.  What was done stays done: a process
\* that has been spawned is neither waited for nor killed.
Raise(r) ==
  /\ pc[r] \in InTry \cap Faults
  /\ pc[r] # "rejecting"
  /\ pc' = [pc EXCEPT ![r] = "failing"]
  /\ UNCHANGED <<server, jobVars, semVars, active, procVars, cancelVars>>

\* Where _mark_run_failed returns to, from _load_context and from the handlers.
AfterMark(r) == IF pc[r] = "rejecting" THEN "committed" ELSE "closing"

MarkFailed(r) ==
  /\ pc[r] \in {"rejecting", "failing"}
  /\ status' = [status EXCEPT ![r] = "failed"]
  /\ pc' = [pc EXCEPT ![r] = AfterMark(r)]
  /\ UNCHANGED <<server, jobPid, semVars, active, procVars, cancelVars>>

\* _mark_run_failed logs an exception of its own and returns as if it had written.
MarkSwallowed(r) ==
  /\ pc[r] \in {"rejecting", "failing"} \cap Faults
  /\ pc' = [pc EXCEPT ![r] = AfterMark(r)]
  /\ UNCHANGED <<server, jobVars, semVars, active, procVars, cancelVars>>

\* The finally block and the semaphore's release: no await between them.
Finish(r) ==
  LET n == Least(1, Len(waiters)) IN
  /\ pc[r] \in {"committed", "closing"}
  /\ active' = active \ {r}
  /\ Wake(n, permits + 1)
  /\ pc' = [q \in Runs |-> IF q = r THEN "gone"
                           ELSE IF q \in Woken(n) THEN "granted" ELSE pc[q]]
  /\ UNCHANGED <<server, jobVars, procVars, cancelVars>>

-----------------------------------------------------------------------------
\* cancel_run, three stretches between awaits.  For a job that is finished, or
\* that runs without a pid, it does nothing, and the caller is told "cancelled".

CancelRead(r) ==
  /\ server = "up"
  /\ r \in Cancellable
  /\ cancel[r] = "idle"
  /\ \/ status[r] = "pending"
     \/ status[r] = "running" /\ jobPid[r] # NoPid
  /\ cancel' = [cancel EXCEPT ![r] = status[r]]
  /\ cancelPid' = [cancelPid EXCEPT ![r] = jobPid[r]]
  /\ UNCHANGED <<server, jobVars, pc, semVars, active, procVars>>

\* The runs whose process bears the pid: none if it has been reaped.
Bearers(p) == {q \in Runs : proc[q] = "alive" /\ procPid[q] = p}

CancelSignal(r) ==
  /\ cancel[r] = "running"
  /\ signalled' = signalled \cup Bearers(cancelPid[r])
  /\ cancel' = [cancel EXCEPT ![r] = "killed"]
  /\ UNCHANGED <<server, jobVars, pc, semVars, active, proc, procPid, cancelPid>>

\* The UPDATE names the columns the handler has assigned and has no condition on
\* the status it read.
CancelCommit(r) ==
  /\ cancel[r] \in {"pending", "killed"}
  /\ status' = [status EXCEPT ![r] = "cancelled"]
  /\ jobPid' = [jobPid EXCEPT ![r] = IF cancel[r] = "killed" THEN NoPid ELSE @]
  /\ cancel' = [cancel EXCEPT ![r] = "idle"]
  /\ cancelPid' = [cancelPid EXCEPT ![r] = NoPid]
  /\ UNCHANGED <<server, pc, semVars, active, procVars>>

CancelRaises(r) ==
  /\ cancel[r] \in {"pending", "killed"}
  /\ "cancel" \in Faults
  /\ cancel' = [cancel EXCEPT ![r] = "idle"]
  /\ cancelPid' = [cancelPid EXCEPT ![r] = NoPid]
  /\ UNCHANGED <<server, jobVars, pc, semVars, active, procVars>>

-----------------------------------------------------------------------------
\* The docupipe process ends by itself or by the signal; either way it may
\* choose its exit code.
ProcessExit(r) ==
  /\ proc[r] = "alive"
  /\ \E code \in {"zero", "nonzero"} : proc' = [proc EXCEPT ![r] = code]
  /\ signalled' = signalled \ {r}
  /\ UNCHANGED <<server, jobVars, pc, semVars, active, procPid, cancelVars>>

\* Variant: an interrupted waiter does not give its permit back.
ShutdownKeepingPermits ==
  /\ server = "up"
  /\ \A r \in Runs : cancel[r] = "idle"
  /\ server' = "stopping"
  /\ pc' = [r \in Runs |-> IF pc[r] \in InTry THEN "failing" ELSE
                           IF pc[r] = "failing" THEN "closing" ELSE
                           IF pc[r] \in {"none", "closing"} THEN pc[r] ELSE "gone"]
  /\ waiters' = <<>>
  /\ UNCHANGED <<jobVars, permits, active, procVars, cancelVars>>

\* Where CancelledError takes an executor: out of the line for the semaphore, or
\* into the handler that marks the run failed, or out of that handler.
Interrupted(at) ==
  IF at \in InTry THEN "failing"
  ELSE IF at = "failing" THEN "closing"
  ELSE IF at \in {"refreshing", "created", "waiting", "granted"} THEN "gone"
  ELSE at

\* The requests are over, the lifespan function has returned and the loop cancels
\* every task that is left.  A granted waiter gives its permit back.
Shutdown ==
  /\ server = "up"
  /\ \A r \in Runs : cancel[r] = "idle"
  /\ server' = "stopping"
  /\ pc' = [r \in Runs |-> Interrupted(pc[r])]
  /\ waiters' = <<>>
  /\ permits' = permits + Cardinality(Granted)
  /\ UNCHANGED <<jobVars, active, procVars, cancelVars>>

\* The process ends, after a shutdown or killed at any point.  Its memory is
\* gone; rows and docupipe processes stay.
Exit ==
  /\ server' = "down"
  /\ pc' = [r \in Runs |-> IF pc[r] = "none" THEN "none" ELSE "gone"]
  /\ permits' = MaxConcurrent
  /\ waiters' = <<>>
  /\ active' = {}
  /\ cancel' = [r \in Runs |-> "idle"]
  /\ cancelPid' = [r \in Runs |-> NoPid]
  /\ UNCHANGED <<jobVars, procVars>>

Stopped ==
  /\ server = "stopping"
  /\ \A r \in Runs : pc[r] \in {"none", "gone"}
  /\ Exit

Crash ==
  /\ "crash" \in Faults
  /\ server # "down"
  /\ Exit

\* lifespan: the sweep, then a new RunnerService.  jobs.pid is left as it is.
Restart ==
  /\ server = "down"
  /\ server' = "up"
  /\ status' = [r \in Runs |-> IF status[r] \in Unfinished THEN "failed" ELSE status[r]]
  /\ UNCHANGED <<jobPid, pc, semVars, active, procVars, cancelVars>>

-----------------------------------------------------------------------------
Works(r) ==
  \/ CreateExecutor(r) \/ Begin(r) \/ Resume(r) \/ Load(r) \/ Reject(r)
  \/ MarkRunning(r) \/ Spawn(r) \/ RecordPid(r) \/ ProcessEnded(r) \/ Finalize(r)
  \/ MarkFailed(r) \/ Finish(r)

Fails(r) == RefreshRaises(r) \/ Raise(r) \/ MarkSwallowed(r)

Executor(r) == Works(r) \/ Imported(r) \/ Fails(r)

CancelHandler(r) ==
  CancelRead(r) \/ CancelSignal(r) \/ CancelCommit(r) \/ CancelRaises(r)

Next ==
  \/ \E r \in Runs : StartRun(r) \/ Executor(r) \/ CancelHandler(r) \/ ProcessExit(r)
  \/ Shutdown \/ Stopped \/ Crash \/ Restart

Spec == Init /\ [][Next]_vars

\* The loop runs every coroutine that can go on (no call has to fail), and a process
\* dies of SIGTERM and takes its stdout with it.  A process that is not signalled may
\* run for ever, because run_timeout_seconds is read nowhere, and so may the dws
\* process of an import; a server that is down may stay down.
DiesOfSignal(r) == r \in signalled /\ ProcessExit(r)

ExecutorGoesOn(r) == WF_vars(Works(r))
CancelGoesOn(r) == WF_vars(CancelSignal(r) \/ CancelCommit(r))
SignalKills(r) == WF_vars(DiesOfSignal(r))
ShutdownEnds == WF_vars(Stopped)

Fairness ==
  /\ \A r \in Runs : ExecutorGoesOn(r) /\ CancelGoesOn(r) /\ SignalKills(r)
  /\ ShutdownEnds

FairSpec == Spec /\ Fairness

-----------------------------------------------------------------------------
\* Where each variable takes its values (columns of jobs, fields of the service).
TypeOK ==
  /\ server \in {"up", "stopping", "down"}
  /\ status \in [Runs -> Unfinished \cup Finished \cup {"absent"}]
  /\ jobPid \in [Runs -> Pids \cup {NoPid}]
  /\ pc \in [Runs -> InSlot \cup {"none", "refreshing", "created", "waiting", "gone"}]
  /\ permits \in 0..MaxConcurrent
  /\ waiters \in Seq(Runs)
  /\ active \subseteq Runs
  /\ proc \in [Runs -> {"none", "alive", "zero", "nonzero"}]
  /\ procPid \in [Runs -> Pids \cup {NoPid}]
  /\ signalled \subseteq Runs
  /\ cancel \in [Runs -> {"idle", "pending", "running", "killed"}]
  /\ cancelPid \in [Runs -> Pids \cup {NoPid}]

\* No permit is lost or invented by any mix of ends, failures, interrupted waits
\* and hand-overs: those in the semaphore and those out make max_concurrent_runs.
PermitAccounting == permits + Cardinality(Holders) = MaxConcurrent

\* The line for the semaphore holds exactly the executors that wait, each once;
\* while someone waits with a permit free, a woken waiter is about to resume and
\* will pass it on.  Otherwise a run would wait for ever beside a free slot.
NoLostWakeup ==
  /\ \A r \in Runs : pc[r] = "waiting" <=> \E i \in 1..Len(waiters) : waiters[i] = r
  /\ \A i, j \in 1..Len(waiters) : waiters[i] = waiters[j] => i = j
  /\ waiters # <<>> /\ permits > 0 => Granted # {}

\* is_active, on which the log stream relies, is true exactly from the executor's
\* first step to the step that closes the subscribers.
ActiveIsExecuting ==
  server = "up" => active = {r \in Runs : pc[r] = "waiting"} \cup Holders

\* What jobs.status says and what the docupipe process did agree, in spite of
\* cancels, shutdowns and sweeps that write the same column: a succeeded run has
\* exited with 0, and a process that outlives its executor belongs to a run that is
\* recorded as failed or cancelled, never as going on.
OutcomeMatchesProcess ==
  \A r \in Runs :
    /\ status[r] = "succeeded" => proc[r] = "zero"
    /\ server = "up" /\ proc[r] = "alive" /\ pc[r] = "gone" =>
         status[r] \in {"failed", "cancelled"}

\* While the server is up, a job that is not finished has an executor (or the
\* request that is about to create one) that will bring it to an end.
UnfinishedHasExecutor ==
  server = "up" =>
    \A r \in Runs : status[r] \in Unfinished => pc[r] \notin {"none", "gone"}

\* What cancel_run may signal, a running job's pid, is the pid of the process the
\* run's executor has spawned and has not yet accounted for.
CancelTargetsExecutor ==
  \A r \in Runs :
    server = "up" /\ status[r] = "running" /\ jobPid[r] # NoPid =>
      pc[r] \in {"streaming", "finalizing", "failing"} /\ jobPid[r] = procPid[r]

\* A run that has succeeded or failed is never pending or running again: neither
\* an executor that lives on, nor a cancel, nor a restart revives it.
OutcomeStands ==
  [][\A r \in Runs : status[r] \in {"succeeded", "failed"} => status'[r] \notin Unfinished]_vars

\* A cancel sends SIGTERM to its own run's process and to no other while that lives, however
\* long ago it read the pid.  Once it has ended, only a process that was given the same
\* pid can be hit.
SignalFindsOwn ==
  [][\A r \in Runs : cancel[r] = "running" /\ cancel'[r] = "killed" =>
       IF proc[r] = "alive" THEN signalled' = signalled \cup {r}
       ELSE \A q \in signalled' \ signalled : procPid[q] = procPid[r]]_vars

\* RunnerService is the pool it promises to be: first come first served, at most
\* max_concurrent_runs executors at a time, no run served twice.
Pool == INSTANCE WorkerPool WITH
          Jobs <- Runs, Limit <- MaxConcurrent, queue <- waiters, busy <- Holders,
          over <- {r \in Runs : pc[r] = "gone"}

ImplementsPool == Pool!Spec

\* If every docupipe process and every import ends, and somebody starts the server
\* again when it is down, every run reaches an outcome and keeps one, through failures,
\* cancels, shutdowns and crashes.
BatchEnds(r) == WF_vars(ProcessExit(r))
BatchesEnd == \A r \in Runs : BatchEnds(r)
ImportReturns(r) == WF_vars(Imported(r))
ImportsReturn == \A r \in Runs : ImportReturns(r)
ServerReturns == WF_vars(Restart)

RunsFinish ==
  BatchesEnd /\ ImportsReturn /\ ServerReturns =>
    \A r \in Runs : status[r] # "absent" ~> [](status[r] \in Finished)

\* A run whose process was sent SIGTERM gives its slot up, however long other
\* processes and imports run.
CancelFreesSlot ==
  \A r \in Runs : r \in signalled /\ r \in Holders ~> r \notin Holders

\* What the run page says of a cancelled run, a final outcome, stays true.
CancelledIsFinal ==
  [][\A r \in Runs : status[r] = "cancelled" => status'[r] = "cancelled"]_vars
=============================================================================
