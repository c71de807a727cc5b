--------------------------- MODULE SchedulerProofs ---------------------------
(***************************************************************************)
(* That the registered cron jobs follow the rows of their tasks, for any   *)
(* number of tasks, expressions and overlapping requests.                  *)
(***************************************************************************)
EXTENDS Scheduler, TLAPS

-----------------------------------------------------------------------------
\* Whoever will act on what it knows of a task's row knows what the row says now.
Current(t) ==
  \A h \in UnderWay(t) :
    /\ at[h] = "adding" => saw[h] = Wanted(t)
    /\ at[h] = "unschedule" => Wanted(t) = NoCron

\* The job is as the row asks, or a request will remove it, or it is removed and a
\* request will put it back.
OnItsWay(t) ==
  \/ jobs[t] = Registrable(Wanted(t))
  \/ \E h \in UnderWay(t) : at[h] \in {"schedule", "unschedule"}
  \/ jobs[t] = NoCron /\ \E h \in UnderWay(t) : at[h] \in {"reading", "adding"}

\* schedule_task is about one task.
OneSubject ==
  \A h \in Requests : at[h] \in {"schedule", "reading", "adding"} =>
    \E t \in Tasks : about[h] = {t}

\* No request is served while the server is not up.
DownIsIdle == server # "up" => \A h \in Requests : at[h] = "idle"

Tracked(t) == Current(t) /\ (server = "up" => OnItsWay(t))

SInv ==
  /\ SchedTypeOK
  /\ OneSubject
  /\ DownIsIdle
  /\ \A t \in Tasks \ drifted : Tracked(t)

-----------------------------------------------------------------------------
\* What a row asks for is an expression, and the same after a step that leaves rows alone.
LEMMA WantsRange ==
  ASSUME NEW s, NEW e, NEW c \in Values
  PROVE  Wants(s, e, c) \in Crons \cup OddCrons \cup {NoCron}
BY DEF Wants, Truthy, Values

LEMMA WantedRange ==
  ASSUME SchedTypeOK, NEW t \in Tasks
  PROVE  Wanted(t) \in Crons \cup OddCrons \cup {NoCron}
BY WantsRange DEF SchedTypeOK, Wanted

LEMMA WantedKept ==
  ASSUME UNCHANGED rowVars
  PROVE  \A t \in Tasks : Wanted(t)' = Wanted(t)
BY DEF rowVars, Wanted, Wants, Truthy

\* The handlers that unschedule have just committed a row that asks for nothing.
LEMMA UnscheduleMeansNothing ==
  ASSUME NEW s, NEW d \in BOOLEAN, NEW k \in Values,
         NEW c \in Values \cup {Keep}, NEW e \in BOOLEAN \cup {Keep},
         CallFor(c, e) = "unschedule"
  PROVE  Wants(s, IF e = Keep THEN d ELSE e, IF c = Keep THEN k ELSE c) = NoCron
<1>1. (c = NoCron \/ e = FALSE) /\ (c = Keep \/ ~Truthy(c))
  BY DEF CallFor
<1>2. NoCron # Keep /\ FALSE # Keep
  BY KeepAssumption DEF Values
<1> QED
  BY <1>1, <1>2 DEF Wants, Truthy

\* The commit of a row, whatever it says and whoever is called after it.
LEMMA CommitStep ==
  ASSUME SInv, NEW h \in Requests, NEW t \in Tasks,
         NEW s \in {"active", "archived"}, NEW e \in BOOLEAN, NEW c \in Values,
         NEW call \in {"idle", "schedule", "unschedule"},
         call = "unschedule" => Wants(s, e, c) = NoCron,
         Commit(h, t, s, e, c, call)
  PROVE  SInv'
<1> USE DEF SInv
<1>1. SchedTypeOK'
  BY DEF SchedTypeOK, Commit
<1>2. OneSubject'
  BY DEF SchedTypeOK, OneSubject, Commit
<1>3. DownIsIdle'
  BY DEF DownIsIdle, Commit
<1>4. /\ Wanted(t)' = Wants(s, e, c)
      /\ \A u \in Tasks \ {t} : Wanted(u)' = Wanted(u)
  BY DEF SchedTypeOK, Commit, Wanted, Wants, Truthy
<1>5. /\ server = "up" /\ server' = "up"
      /\ at[h] = "idle" /\ at'[h] = call
      /\ \A g \in Requests \ {h} : at'[g] = at[g] /\ about'[g] = about[g]
      /\ about'[h] = IF call = "idle" THEN {} ELSE {t}
      /\ jobs' = jobs /\ saw' = saw
  BY DEF SchedTypeOK, Commit
<1>6. ASSUME NEW u \in Tasks \ drifted'
      PROVE  Tracked(u)'
  <2>1. CASE u # t
    <3>1. u \in Tasks \ drifted /\ Tracked(u)
      BY <2>1, <1>6 DEF Commit
    <3>2. UnderWay(u)' = UnderWay(u) /\ h \notin UnderWay(u)
      BY <1>5, <2>1 DEF UnderWay
    <3>3. Wanted(u)' = Wanted(u)
      BY <1>4, <2>1
    <3> QED
      BY <3>1, <3>2, <3>3, <1>5 DEF Tracked, Current, OnItsWay, Registrable, UnderWay
  <2>2. CASE u = t /\ call # "idle" /\ Behind(t) = {}
    <3>1. \A g \in UnderWay(t)' : g # h => g \in UnderWay(t) /\ at'[g] \notin {"adding", "unschedule"}
      BY <1>5, <2>2 DEF UnderWay, Behind
    <3>2. h \in UnderWay(t)' /\ at'[h] \in {"schedule", "unschedule"}
      BY <1>5, <2>2 DEF UnderWay
    <3> QED
      BY <3>1, <3>2, <1>4, <1>5, <2>2 DEF Tracked, Current, OnItsWay
  <2>3. CASE u = t /\ ~(call # "idle" /\ Behind(t) = {})
    <3>1. t \notin drifted /\ Wants(s, e, c) = Wanted(t)
      BY <2>3, <1>6 DEF Commit
    <3>2. Tracked(t) /\ Wanted(t)' = Wanted(t)
      BY <3>1, <1>4
    <3>3. \A g \in UnderWay(t) : g # h /\ g \in UnderWay(t)'
      BY <1>5 DEF UnderWay
    <3>4. \A g \in UnderWay(t)' : g = h \/ g \in UnderWay(t)
      BY <1>5 DEF UnderWay
    <3>5. Current(t)'
      BY <3>1, <3>2, <3>4, <1>4, <1>5 DEF Tracked, Current, UnderWay
    <3>6. OnItsWay(t)'
      BY <3>2, <3>3, <1>5 DEF Tracked, OnItsWay, Registrable, UnderWay
    <3> QED
      BY <3>5, <3>6, <2>3 DEF Tracked
  <2> QED
    BY <2>1, <2>2, <2>3
<1> QED
  BY <1>1, <1>2, <1>3, <1>6

-----------------------------------------------------------------------------
\* A request does not disturb the tasks it is not about.
LEMMA Elsewhere ==
  ASSUME NEW h \in Requests, NEW u \in Tasks, Tracked(u),
         u \notin about[h], u \notin about'[h],
         server' = server, Wanted(u)' = Wanted(u), jobs'[u] = jobs[u],
         \A g \in Requests \ {h} : at'[g] = at[g] /\ about'[g] = about[g] /\ saw'[g] = saw[g]
  PROVE  Tracked(u)'
<1>1. UnderWay(u)' = UnderWay(u) /\ h \notin UnderWay(u)
  BY DEF UnderWay
<1>2. \A g \in UnderWay(u) : at'[g] = at[g] /\ saw'[g] = saw[g]
  BY <1>1 DEF UnderWay
<1> QED
  BY <1>1, <1>2 DEF Tracked, Current, OnItsWay, Registrable

\* What ArchiveProject leaves out of `drifted` has no row yet.
LEMMA ArchiveProjectStep ==
  ASSUME SInv, NEW h \in Requests, ArchiveProject(h)
  PROVE  SInv'
<1> USE DEF SInv
<1>1. SchedTypeOK'
  BY DEF SchedTypeOK, ArchiveProject, rowVars
<1>2. OneSubject'
  BY DEF SchedTypeOK, OneSubject, ArchiveProject
<1>3. DownIsIdle'
  BY DEF DownIsIdle, ArchiveProject
<1>4. ASSUME NEW u \in Tasks \ drifted'
      PROVE  Tracked(u)'
  <2>1. stage[u] = "absent" /\ u \notin drifted /\ Tracked(u)
    BY <1>4 DEF ArchiveProject
  <2>2. u \notin about'[h] /\ at[h] = "idle"
    BY <2>1 DEF SchedTypeOK, ArchiveProject
  <2>3. UnderWay(u)' = UnderWay(u) /\ h \notin UnderWay(u)
    BY <2>2 DEF SchedTypeOK, ArchiveProject, UnderWay
  <2>4. \A g \in UnderWay(u) : at'[g] = at[g] /\ saw'[g] = saw[g]
    BY <2>3 DEF SchedTypeOK, ArchiveProject, UnderWay
  <2>5. Wanted(u)' = Wanted(u)
    BY WantedKept DEF ArchiveProject
  <2> QED
    BY <2>1, <2>3, <2>4, <2>5 DEF ArchiveProject, Tracked, Current, OnItsWay, Registrable
<1> QED
  BY <1>1, <1>2, <1>3, <1>4

\* schedule_task and unschedule_task, step by step.
LEMMA CallStep ==
  ASSUME SInv, NEW h \in Requests, Calls(h) \/ ReadRaises(h)
  PROVE  SInv'
<1> USE DEF SInv
<1>0. SchedTypeOK /\ UNCHANGED <<server, rowVars>> /\ server = "up"
  BY DEF Calls, RemoveJob, ReadRow, AddJob, Unschedule, ReadRaises, DownIsIdle
<1>1. /\ \A g \in Requests \ {h} : at'[g] = at[g] /\ about'[g] = about[g] /\ saw'[g] = saw[g]
      /\ about'[h] \in {about[h], {}}
      /\ \A u \in Tasks : u \notin about[h] => jobs'[u] = jobs[u]
      /\ drifted \subseteq drifted'
  BY DEF SchedTypeOK, Calls, RemoveJob, ReadRow, AddJob, Unschedule, ReadRaises, Answer
<1>2. \A u \in Tasks : Wanted(u)' = Wanted(u)
  BY <1>0, WantedKept
<1>3. SchedTypeOK'
  <2>1. CASE ReadRow(h)
    BY <1>0, <2>1, WantedRange DEF SchedTypeOK, ReadRow, Answer, rowVars
  <2>2. CASE RemoveJob(h) \/ AddJob(h) \/ Unschedule(h) \/ ReadRaises(h)
    BY <1>0, <2>2
       DEF SchedTypeOK, RemoveJob, AddJob, Unschedule, ReadRaises, Answer, rowVars
  <2> QED
    BY <2>1, <2>2 DEF Calls
<1>4. OneSubject'
  <2>1. at'[h] \in {"schedule", "reading", "adding"} =>
          at[h] \in {"schedule", "reading", "adding"} /\ about'[h] = about[h]
    BY <1>0 DEF SchedTypeOK, Calls, RemoveJob, ReadRow, AddJob, Unschedule, ReadRaises, Answer
  <2> QED
    BY <1>1, <2>1 DEF OneSubject
<1>5. DownIsIdle'
  BY <1>0 DEF DownIsIdle
<1>6. ASSUME NEW u \in Tasks \ drifted'
      PROVE  Tracked(u)'
  <2>0. Tracked(u)
    BY <1>1, <1>6
  <2>1. CASE u \notin about[h]
    BY <1>0, <1>1, <1>2, <2>0, <2>1, Elsewhere
  <2>2. CASE u \in about[h] /\ RemoveJob(h)
    <3>1. jobs'[u] = NoCron /\ at'[h] = "reading" /\ h \in UnderWay(u)'
      BY <1>0, <2>2 DEF SchedTypeOK, RemoveJob, UnderWay
    <3>2. \A g \in UnderWay(u)' : g = h \/ g \in UnderWay(u)
      BY <1>1 DEF UnderWay
    <3>3. Current(u)'
      BY <1>1, <1>2, <2>0, <3>1, <3>2 DEF Tracked, Current, UnderWay
    <3> QED
      BY <3>1, <3>3 DEF Tracked, OnItsWay
  <2>3. CASE u \in about[h] /\ ReadRow(h)
    <3>1. about[h] = {u} /\ jobs' = jobs
      BY <2>3 DEF ReadRow, OneSubject
    <3>2. CASE Wanted(u) = NoCron
      <4>1. at'[h] = "idle" /\ h \notin UnderWay(u)'
        BY <1>0, <2>3, <3>1, <3>2 DEF SchedTypeOK, ReadRow, Answer, UnderWay
      <4>2. \A g \in Requests : g # h => (g \in UnderWay(u)' <=> g \in UnderWay(u))
        BY <1>1 DEF UnderWay
      <4>3. Current(u)'
        BY <1>1, <1>2, <2>0, <4>1, <4>2 DEF Tracked, Current, UnderWay
      <4>4. Registrable(NoCron) = NoCron
        BY CronsAssumption DEF Registrable
      <4>5. OnItsWay(u)'
        BY <1>0, <1>1, <1>2, <2>0, <2>3, <3>1, <3>2, <4>2, <4>4
           DEF Tracked, OnItsWay, UnderWay, ReadRow, Registrable
      <4> QED
        BY <4>3, <4>5 DEF Tracked
    <3>3. CASE Wanted(u) # NoCron
      <4>1. at'[h] = "adding" /\ saw'[h] = Wanted(u) /\ about' = about
        BY <1>0, <2>3, <3>1, <3>3 DEF SchedTypeOK, ReadRow
      <4>2. UnderWay(u)' = UnderWay(u) /\ h \in UnderWay(u) /\ at[h] = "reading"
        BY <1>1, <2>3, <4>1 DEF UnderWay, ReadRow
      <4>3. Current(u)'
        BY <1>1, <1>2, <2>0, <4>1, <4>2 DEF Tracked, Current, UnderWay
      <4>4. OnItsWay(u)'
        BY <1>0, <1>1, <1>2, <2>0, <3>1, <4>1, <4>2
           DEF Tracked, OnItsWay, Registrable, UnderWay
      <4> QED
        BY <4>3, <4>4 DEF Tracked
    <3> QED
      BY <3>2, <3>3
  <2>4. CASE u \in about[h] /\ (AddJob(h) \/ Unschedule(h))
    <3>1. at'[h] = "idle" /\ h \notin UnderWay(u)'
      BY <1>0, <2>4 DEF SchedTypeOK, AddJob, Unschedule, Answer, UnderWay
    <3>2. \A g \in Requests : g # h => (g \in UnderWay(u)' <=> g \in UnderWay(u))
      BY <1>1 DEF UnderWay
    <3>3. Current(u)'
      BY <1>1, <1>2, <2>0, <3>1, <3>2 DEF Tracked, Current, UnderWay
    <3>4. h \in UnderWay(u)
      BY <2>4 DEF UnderWay, AddJob, Unschedule
    <3>5. CASE Unschedule(h)
      <4>1. jobs'[u] = NoCron /\ Wanted(u) = NoCron
        BY <1>0, <2>0, <2>4, <3>4, <3>5 DEF SchedTypeOK, Unschedule, Tracked, Current
      <4> QED
        BY <1>2, <3>3, <4>1, CronsAssumption DEF Tracked, OnItsWay, Registrable
    <3>6. CASE AddJob(h)
      <4>1. saw[h] = Wanted(u) /\ at[h] = "adding"
        BY <2>0, <3>4, <3>6 DEF Tracked, Current, AddJob
      <4>2. CASE saw[h] \in Crons
        <5>1. jobs'[u] = Wanted(u)
          BY <1>0, <2>4, <3>6, <4>1, <4>2 DEF SchedTypeOK, AddJob
        <5> QED
          BY <1>2, <3>3, <4>1, <4>2, <5>1 DEF Tracked, OnItsWay, Registrable
      <4>3. CASE saw[h] \notin Crons
        <5>1. jobs'[u] = jobs[u] /\ Registrable(Wanted(u)) = NoCron
          BY <1>0, <2>4, <3>6, <4>1, <4>3 DEF SchedTypeOK, AddJob, Registrable
        <5>2. OnItsWay(u)'
          BY <1>0, <1>1, <1>2, <2>0, <3>2, <4>1, <5>1
             DEF Tracked, OnItsWay, Registrable, UnderWay
        <5> QED
          BY <3>3, <5>2 DEF Tracked
      <4> QED
        BY <4>2, <4>3
    <3> QED
      BY <2>4, <3>5, <3>6
  <2>5. CASE u \in about[h] /\ ReadRaises(h)
    BY <1>6, <2>5 DEF ReadRaises
  <2> QED
    BY <2>1, <2>2, <2>3, <2>4, <2>5 DEF Calls
<1> QED
  BY <1>3, <1>4, <1>5, <1>6

\* A job fires, its coroutine goes on, the project's status is changed: no row, job or
\* request is touched.
LEMMA QuietStep ==
  ASSUME SInv,
         UpdateProject \/ (\E t \in Tasks : Fire(t) \/ Check(t) \/ FiringEnds(t))
           \/ UNCHANGED schedVars
  PROVE  SInv'
<1> USE DEF SInv
<1>1. UNCHANGED <<server, rowVars, jobs, requestVars, drifted>>
  BY DEF UpdateProject, Fire, Check, FiringEnds, schedVars
<1>2. SchedTypeOK'
  BY DEF SchedTypeOK, UpdateProject, Fire, Check, FiringEnds, schedVars, rowVars, requestVars
<1>3. OneSubject' /\ DownIsIdle'
  BY <1>1 DEF OneSubject, DownIsIdle, requestVars
<1>4. \A u \in Tasks : Wanted(u)' = Wanted(u)
  BY <1>1, WantedKept
<1>5. \A u \in Tasks : UnderWay(u)' = UnderWay(u)
  BY <1>1 DEF UnderWay, requestVars
<1>6. \A u \in Tasks \ drifted' : Tracked(u)'
  BY <1>1, <1>4, <1>5 DEF Tracked, Current, OnItsWay, Registrable, requestVars
<1> QED
  BY <1>2, <1>3, <1>6

\* The server goes down and comes up: what it registers is what the rows ask for.
LEMMA ServerStep ==
  ASSUME SInv, Down \/ Launch \/ Reload \/ ReloadRaises
  PROVE  SInv'
<1> USE DEF SInv
<1>1. \A h \in Requests : at'[h] = "idle"
  BY DEF SchedTypeOK, DownIsIdle, Down, Launch, Reload, ReloadRaises, requestVars
<1>2. \A u \in Tasks : Wanted(u)' = Wanted(u)
  BY WantedKept DEF Down, Launch, Reload, ReloadRaises
<1>3. ASSUME Reload
      PROVE  \A u \in Tasks : jobs'[u] \in Crons \cup {NoCron} /\ jobs'[u] = Registrable(Wanted(u))
  <2> TAKE u \in Tasks
  <2>1. Wanted(u) \in Crons \cup {NoCron}
    BY <1>3, WantedRange DEF Reload, Refused
  <2> QED
    BY <1>3, <2>1 DEF Reload, Registrable
<1>4. SchedTypeOK'
  <2>1. CASE Reload
    BY <1>3, <2>1 DEF SchedTypeOK, Reload, rowVars, requestVars
  <2>2. CASE Down \/ Launch \/ ReloadRaises
    BY <2>2 DEF SchedTypeOK, Down, Launch, ReloadRaises, rowVars, requestVars
  <2> QED
    BY <2>1, <2>2
<1>5. OneSubject' /\ DownIsIdle'
  BY <1>1 DEF OneSubject, DownIsIdle
<1>6. \A u \in Tasks : UnderWay(u)' = {}
  BY <1>1 DEF UnderWay
<1>7. server' = "up" => Reload
  BY DEF Down, Launch, Reload, ReloadRaises
<1>8. \A u \in Tasks : Tracked(u)'
  BY <1>2, <1>3, <1>6, <1>7 DEF Tracked, Current, OnItsWay, Registrable
<1> QED
  BY <1>4, <1>5, <1>8

\* The handlers that commit a row: each meets what CommitStep asks for.
LEMMA RowStep ==
  ASSUME SInv, NEW h \in Requests, NEW t \in Tasks,
         CreateTask(h, t) \/ UpdateTask(h, t) \/ ArchiveTask(h, t)
  PROVE  SInv'
<1> USE DEF SInv
<1>0. stage[t] \in {"absent", "active", "archived"} /\ enabled[t] \in BOOLEAN /\ cron[t] \in Values
  BY DEF SchedTypeOK
<1>1. CASE CreateTask(h, t)
  <2>1. PICK c \in Values, e \in BOOLEAN :
          Commit(h, t, "active", e, c, IF Truthy(c) THEN "schedule" ELSE "idle")
    BY <1>1 DEF CreateTask
  <2> QED
    BY <2>1, CommitStep
<1>2. CASE UpdateTask(h, t)
  <2>1. PICK c \in Values \cup {Keep}, e \in BOOLEAN \cup {Keep} :
          Commit(h, t, stage[t], IF e = Keep THEN enabled[t] ELSE e,
                 IF c = Keep THEN cron[t] ELSE c, CallFor(c, e))
    BY <1>2 DEF UpdateTask
  <2> DEFINE e1 == IF e = Keep THEN enabled[t] ELSE e
             c1 == IF c = Keep THEN cron[t] ELSE c
  <2>2. stage[t] \in {"active", "archived"} /\ e1 \in BOOLEAN /\ c1 \in Values
    BY <1>0, <1>2 DEF UpdateTask
  <2>3. CallFor(c, e) \in {"idle", "schedule", "unschedule"}
    BY DEF CallFor
  <2>4. CallFor(c, e) = "unschedule" => Wants(stage[t], e1, c1) = NoCron
    BY <1>0, UnscheduleMeansNothing
  <2>5. Commit(h, t, stage[t], e1, c1, CallFor(c, e))
    BY <2>1
  <2> HIDE DEF e1, c1
  <2> QED
    BY <2>2, <2>3, <2>4, <2>5, CommitStep
<1>3. CASE ArchiveTask(h, t)
  <2>1. Commit(h, t, "archived", enabled[t], cron[t], "unschedule")
    BY <1>3 DEF ArchiveTask
  <2>2. Wants("archived", enabled[t], cron[t]) = NoCron
    BY DEF Wants
  <2> QED
    BY <1>0, <2>1, <2>2, CommitStep
<1> QED
  BY <1>1, <1>2, <1>3

-----------------------------------------------------------------------------
LEMMA SchedStart == SchedInit => SInv
<1> SUFFICES ASSUME SchedInit PROVE SInv
  OBVIOUS
<1>1. SchedTypeOK
  BY DEF SchedInit, SchedTypeOK, Values
<1>2. OneSubject /\ DownIsIdle
  BY DEF SchedInit, OneSubject, DownIsIdle
<1>3. \A t \in Tasks : UnderWay(t) = {} /\ jobs[t] = NoCron /\ Wanted(t) = NoCron
  BY DEF SchedInit, UnderWay, Wanted, Wants
<1>4. Registrable(NoCron) = NoCron
  BY CronsAssumption DEF Registrable
<1>5. \A t \in Tasks : Tracked(t)
  BY <1>3, <1>4 DEF Tracked, Current, OnItsWay
<1> QED
  BY <1>1, <1>2, <1>5 DEF SInv

LEMMA SchedStep == SInv /\ [SchedNext]_schedVars => SInv'
<1> SUFFICES ASSUME SInv, [SchedNext]_schedVars PROVE SInv'
  OBVIOUS
<1>1. ASSUME NEW h \in Requests, Handles(h) PROVE SInv'
  BY <1>1, RowStep, ArchiveProjectStep, CallStep DEF Handles
<1>2. CASE UpdateProject \/ (\E t \in Tasks : Fire(t) \/ Check(t) \/ FiringEnds(t))
             \/ UNCHANGED schedVars
  BY <1>2, QuietStep
<1>3. CASE Down \/ Launch \/ Reload \/ ReloadRaises
  BY <1>3, ServerStep
<1> QED
  BY <1>1, <1>2, <1>3 DEF SchedNext

\* The invariant the others follow from.
THEOREM SchedInvariantHolds == SchedSpec => []SInv
BY SchedStart, SchedStep, PTL DEF SchedSpec

\* Rows, jobs and handlers keep their types; nothing is registered that APScheduler
\* would not have accepted.
THEOREM SchedTypeCorrect == SchedSpec => []SchedTypeOK
<1>1. SInv => SchedTypeOK
  BY DEF SInv
<1> QED
  BY <1>1, SchedInvariantHolds, PTL

\* Cron jobs follow their rows, for any number of tasks and of overlapping requests,
\* except in the ways that `drifted` lists.
THEOREM RegistrationsFollow == SchedSpec => []RegistrationFollowsRow
<1>1. SInv => RegistrationFollowsRow
  BY DEF SInv, Tracked, OnItsWay, RegistrationFollowsRow
<1> QED
  BY <1>1, SchedInvariantHolds, PTL

\* A step whose fairness is assumed is enabled where its guard holds.  Its definition says
\* so, but the prover has no rule for ENABLED, and what follows takes it as a hypothesis.
FiringEnabled ==
  \A t \in Tasks : firing[t] \in {"checking", "starting"} =>
    ENABLED <<Check(t) \/ FiringEnds(t)>>_schedVars

\* A task that stays archived or disabled ceases to start runs: what was firing ends,
\* and the check lets nothing through.
THEOREM SilencedRest == SchedFairSpec /\ []FiringEnabled => SilencedTasksRest
<1> SUFFICES ASSUME NEW t \in Tasks
             PROVE  SchedFairSpec /\ []FiringEnabled =>
                      (<>[]Silenced(t) => <>[](firing[t] # "starting"))
  BY DEF SilencedTasksRest
<1>1. SInv /\ [SchedNext]_schedVars /\ Silenced(t) /\ firing[t] # "starting" =>
        (firing[t] # "starting")'
  <2> SUFFICES ASSUME SInv, [SchedNext]_schedVars, Silenced(t), firing[t] # "starting"
               PROVE  firing'[t] # "starting"
    OBVIOUS
  <2>1. DOMAIN firing = Tasks
    BY DEF SInv, SchedTypeOK
  <2>2. ASSUME NEW h \in Requests, Handles(h)
        PROVE  UNCHANGED firing
    BY <2>2 DEF Handles, CreateTask, UpdateTask, ArchiveTask, Commit, ArchiveProject, Calls,
       RemoveJob, ReadRow, AddJob, Unschedule, ReadRaises
  <2>3. ASSUME NEW u \in Tasks, Fire(u) \/ Check(u) \/ FiringEnds(u)
        PROVE  firing'[t] # "starting"
    BY <2>1, <2>3 DEF Fire, Check, FiringEnds, Silenced
  <2>4. CASE UpdateProject \/ Down \/ Launch \/ Reload \/ ReloadRaises \/ UNCHANGED schedVars
    BY <2>4 DEF UpdateProject, Down, Launch, Reload, ReloadRaises, schedVars
  <2> QED
    BY <2>2, <2>3, <2>4 DEF SchedNext
<1>2. SInv /\ <<Check(t) \/ FiringEnds(t)>>_schedVars /\ ~(firing[t] # "starting") =>
        (firing[t] # "starting")'
  BY DEF SInv, SchedTypeOK, Check, FiringEnds
<1>3. FiringEnabled =>
        (~(firing[t] # "starting") => ENABLED <<Check(t) \/ FiringEnds(t)>>_schedVars)
  BY DEF FiringEnabled
<1>4. SchedFairness => FiringGoesOn(t)
  BY DEF SchedFairness
<1> QED
  BY <1>1, <1>2, <1>3, <1>4, SchedInvariantHolds, PTL DEF SchedFairSpec, SchedSpec, FiringGoesOn
=============================================================================
