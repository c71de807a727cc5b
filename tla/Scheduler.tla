------------------------------ MODULE Scheduler ------------------------------
(***************************************************************************)
(* SchedulerService: the cron jobs APScheduler holds in memory, the rows   *)
(* of tasks they are registered for, and the handlers of the task and      *)
(* project API that commit a row first and call the scheduler afterwards.  *)
(* One project.                                                            *)
(*                                                                         *)
(* An action is what happens between two awaits of one coroutine.          *)
(***************************************************************************)
EXTENDS Naturals

CONSTANTS
  Tasks,     \* task ids; each is created at most once
  Requests,  \* handlers of the API that may be under way at one time
  Crons,     \* expressions that croniter and CronTrigger both accept
  OddCrons,  \* those croniter accepts and CronTrigger.from_crontab raises on, "@daily"
  Empty,     \* the empty string
  NoCron,    \* NULL, and no job
  Keep       \* a field that is not in the body of an update

Values == Crons \cup OddCrons \cup {Empty, NoCron}

ASSUME CronsAssumption ==
  /\ Crons \cap OddCrons = {}
  /\ Empty \notin Crons \cup OddCrons
  /\ NoCron \notin Crons \cup OddCrons \cup {Empty}
ASSUME KeepAssumption == Keep \notin Values \cup BOOLEAN

VARIABLES
  server,   \* "up", "starting" (lifespan before it yields) or "down"
  project,  \* projects.status
  stage,    \* tasks.status; "absent": no row yet
  enabled,  \* tasks.schedule_enabled
  cron,     \* tasks.schedule_cron
  jobs,     \* the expression of each task's job in APScheduler
  at,       \* where a request's handler is suspended, in its call of the scheduler
  about,    \* the tasks that call is about
  saw,      \* the expression schedule_task has read and is about to register
  firing,   \* where the task's _scheduled_run is suspended
  drifted   \* history: tasks whose registration the code has let go astray

rowVars == <<stage, enabled, cron>>
requestVars == <<at, about, saw>>
schedVars == <<server, project, rowVars, jobs, requestVars, firing, drifted>>

Truthy(c) == c \notin {Empty, NoCron}

\* The expression a row asks for, and what APScheduler can make of it.
Wants(s, e, c) == IF s = "active" /\ e /\ Truthy(c) THEN c ELSE NoCron
Wanted(t) == Wants(stage[t], enabled[t], cron[t])
Registrable(c) == IF c \in Crons THEN c ELSE NoCron

UnderWay(t) == {h \in Requests : at[h] # "idle" /\ t \in about[h]}

\* Requests that will act on what the task's row said earlier.
Behind(t) == {h \in UnderWay(t) : at[h] \in {"adding", "unschedule"}}

-----------------------------------------------------------------------------
\* Variants: bugs a careless edit could make.  The specification uses none of them.

\* replace_existing=True is trusted to do what remove_job does.
RemoveNothing(h) ==
  /\ at[h] = "schedule"
  /\ at' = [at EXCEPT ![h] = "reading"]
  /\ UNCHANGED <<server, project, rowVars, jobs, about, saw, firing, drifted>>

\* The job function starts the run without looking at the row.
CheckNothing(t) ==
  /\ firing[t] = "checking"
  /\ firing' = [firing EXCEPT ![t] = "starting"]
  /\ UNCHANGED <<server, project, rowVars, jobs, requestVars, drifted>>

-----------------------------------------------------------------------------
SchedInit ==
  /\ server = "up"
  /\ project = "active"
  /\ stage = [t \in Tasks |-> "absent"]
  /\ enabled = [t \in Tasks |-> TRUE]
  /\ cron = [t \in Tasks |-> NoCron]
  /\ jobs = [t \in Tasks |-> NoCron]
  /\ at = [h \in Requests |-> "idle"]
  /\ about = [h \in Requests |-> {}]
  /\ saw = [h \in Requests |-> NoCron]
  /\ firing = [t \in Tasks |-> "idle"]
  /\ drifted = {}

\* A row is committed and the handler goes on to `call`, or answers if it is "idle".
\* The history: a row that changes what it asks for goes astray if nobody is called or
\* another request will act on the old row; a call that nobody is behind sets it right.
Commit(h, t, s, e, c, call) ==
  LET changes == Wants(s, e, c) # Wanted(t)
      noticed == call # "idle" /\ Behind(t) = {}
  IN
  /\ server = "up"
  /\ at[h] = "idle"
  /\ stage' = [stage EXCEPT ![t] = s]
  /\ enabled' = [enabled EXCEPT ![t] = e]
  /\ cron' = [cron EXCEPT ![t] = c]
  /\ at' = [at EXCEPT ![h] = call]
  /\ about' = [about EXCEPT ![h] = IF call = "idle" THEN {} ELSE {t}]
  /\ drifted' = IF noticed THEN drifted \ {t}
                ELSE IF changes THEN drifted \cup {t} ELSE drifted
  /\ UNCHANGED <<server, project, jobs, saw, firing>>

\* create_task: the expression has passed croniter.is_valid.
CreateTask(h, t) ==
  \E c \in Values, e \in BOOLEAN :
    /\ stage[t] = "absent"
    /\ Commit(h, t, "active", e, c, IF Truthy(c) THEN "schedule" ELSE "idle")

\* The branches at the end of update_task: an empty expression, and schedule_enabled
\* set alone to true, call nobody.
CallFor(c, e) ==
  IF c # Keep /\ Truthy(c) THEN "schedule"
  ELSE IF c = NoCron \/ e = FALSE THEN "unschedule"
  ELSE "idle"

\* update_task does not ask whether the task is archived.
UpdateTask(h, t) ==
  \E c \in Values \cup {Keep}, e \in BOOLEAN \cup {Keep} :
    /\ stage[t] # "absent"
    /\ Commit(h, t, stage[t], IF e = Keep THEN enabled[t] ELSE e,
              IF c = Keep THEN cron[t] ELSE c, CallFor(c, e))

ArchiveTask(h, t) ==
  /\ stage[t] # "absent"
  /\ Commit(h, t, "archived", enabled[t], cron[t], "unschedule")

\* archive_project commits the project's status alone; the tasks' rows go on asking.
ArchiveProject(h) ==
  LET tasks == {t \in Tasks : stage[t] # "absent"} IN
  /\ server = "up"
  /\ at[h] = "idle"
  /\ project' = "archived"
  /\ at' = [at EXCEPT ![h] = IF tasks = {} THEN "idle" ELSE "unschedule"]
  /\ about' = [about EXCEPT ![h] = tasks]
  /\ drifted' = drifted \cup tasks
  /\ UNCHANGED <<server, rowVars, jobs, saw, firing>>

\* update_project, of an archived project too.
UpdateProject ==
  /\ server = "up"
  /\ project' \in {"active", "paused"}
  /\ UNCHANGED <<server, rowVars, jobs, requestVars, firing, drifted>>

-----------------------------------------------------------------------------
\* The calls of the scheduler.

\* schedule_task up to its first await.
RemoveJob(h) ==
  /\ at[h] = "schedule"
  /\ jobs' = [t \in Tasks |-> IF t \in about[h] THEN NoCron ELSE jobs[t]]
  /\ at' = [at EXCEPT ![h] = "reading"]
  /\ UNCHANGED <<server, project, rowVars, about, saw, firing, drifted>>

\* The handler is done.
Answer(h) ==
  /\ at' = [at EXCEPT ![h] = "idle"]
  /\ about' = [about EXCEPT ![h] = {}]
  /\ saw' = [saw EXCEPT ![h] = NoCron]

\* The row is read; the session is still to be closed when it asks for a job.
ReadRow(h) ==
  /\ at[h] = "reading"
  /\ \E t \in about[h] :
       IF Wanted(t) = NoCron
       THEN Answer(h)
       ELSE /\ at' = [at EXCEPT ![h] = "adding"]
            /\ saw' = [saw EXCEPT ![h] = Wanted(t)]
            /\ UNCHANGED about
  /\ UNCHANGED <<server, project, rowVars, jobs, firing, drifted>>

\* The database does not answer; the job is gone already.
ReadRaises(h) ==
  /\ at[h] = "reading"
  /\ Answer(h)
  /\ drifted' = drifted \cup about[h]
  /\ UNCHANGED <<server, project, rowVars, jobs, firing>>

\* from_crontab raises on some expressions; otherwise the job replaces any other.
AddJob(h) ==
  /\ at[h] = "adding"
  /\ jobs' = [t \in Tasks |-> IF t \in about[h] /\ saw[h] \in Crons THEN saw[h] ELSE jobs[t]]
  /\ Answer(h)
  /\ UNCHANGED <<server, project, rowVars, firing, drifted>>

\* unschedule_task, for each task in turn: it never awaits.
Unschedule(h) ==
  /\ at[h] = "unschedule"
  /\ jobs' = [t \in Tasks |-> IF t \in about[h] THEN NoCron ELSE jobs[t]]
  /\ Answer(h)
  /\ UNCHANGED <<server, project, rowVars, firing, drifted>>

-----------------------------------------------------------------------------
\* The job's time has come; one instance at a time.  A job that is removed meanwhile
\* does not take its instance along.
Fire(t) ==
  /\ server = "up"
  /\ jobs[t] # NoCron
  /\ firing[t] = "idle"
  /\ firing' = [firing EXCEPT ![t] = "checking"]
  /\ UNCHANGED <<server, project, rowVars, jobs, requestVars, drifted>>

\* _scheduled_run looks at the row, not at its expression and not at the project.
Check(t) ==
  /\ firing[t] = "checking"
  /\ firing' = [firing EXCEPT ![t] =
                  IF stage[t] = "active" /\ enabled[t] THEN "starting" ELSE "idle"]
  /\ UNCHANGED <<server, project, rowVars, jobs, requestVars, drifted>>

\* start_run has returned, or it or the check has raised and APScheduler logs it.
FiringEnds(t) ==
  /\ firing[t] \in {"checking", "starting"}
  /\ firing' = [firing EXCEPT ![t] = "idle"]
  /\ UNCHANGED <<server, project, rowVars, jobs, requestVars, drifted>>

-----------------------------------------------------------------------------
\* The process stops or is killed: APScheduler's jobs were in its memory only.
Down ==
  /\ server = "up"
  /\ server' = "down"
  /\ jobs' = [t \in Tasks |-> NoCron]
  /\ at' = [h \in Requests |-> "idle"]
  /\ about' = [h \in Requests |-> {}]
  /\ saw' = [h \in Requests |-> NoCron]
  /\ firing' = [t \in Tasks |-> "idle"]
  /\ drifted' = {}
  /\ UNCHANGED <<project, rowVars>>

Launch ==
  /\ server = "down"
  /\ server' = "starting"
  /\ UNCHANGED <<project, rowVars, jobs, requestVars, firing, drifted>>

Refused == {t \in Tasks : Wanted(t) \in OddCrons}

\* _reload_all, before any request is served: every task that asks for a job, of
\* whatever project.
Reload ==
  /\ server = "starting"
  /\ Refused = {}
  /\ server' = "up"
  /\ jobs' = [t \in Tasks |-> Wanted(t)]
  /\ UNCHANGED <<project, rowVars, requestVars, firing, drifted>>

\* schedule_task raises, _reload_all does not catch it, the server does not start.
ReloadRaises ==
  /\ server = "starting"
  /\ Refused # {}
  /\ server' = "down"
  /\ UNCHANGED <<project, rowVars, jobs, requestVars, firing, drifted>>

-----------------------------------------------------------------------------
Calls(h) == RemoveJob(h) \/ ReadRow(h) \/ AddJob(h) \/ Unschedule(h)

Handles(h) ==
  \/ \E t \in Tasks : CreateTask(h, t) \/ UpdateTask(h, t) \/ ArchiveTask(h, t)
  \/ ArchiveProject(h) \/ Calls(h) \/ ReadRaises(h)

SchedNext ==
  \/ \E h \in Requests : Handles(h)
  \/ UpdateProject
  \/ \E t \in Tasks : Fire(t) \/ Check(t) \/ FiringEnds(t)
  \/ Down \/ Launch \/ Reload \/ ReloadRaises

SchedSpec == SchedInit /\ [][SchedNext]_schedVars

\* The loop resumes every coroutine that can go on, and a start is carried through.
RequestGoesOn(h) == WF_schedVars(Calls(h))
FiringGoesOn(t) == WF_schedVars(Check(t) \/ FiringEnds(t))
StartGoesOn == WF_schedVars(Reload \/ ReloadRaises)

SchedFairness ==
  /\ \A h \in Requests : RequestGoesOn(h)
  /\ \A t \in Tasks : FiringGoesOn(t)
  /\ StartGoesOn

SchedFairSpec == SchedSpec /\ SchedFairness

-----------------------------------------------------------------------------
\* Where each variable takes its values: a job has an expression APScheduler accepts.
SchedTypeOK ==
  /\ server \in {"up", "starting", "down"}
  /\ project \in {"active", "paused", "archived"}
  /\ stage \in [Tasks -> {"absent", "active", "archived"}]
  /\ enabled \in [Tasks -> BOOLEAN]
  /\ cron \in [Tasks -> Values]
  /\ jobs \in [Tasks -> Crons \cup {NoCron}]
  /\ at \in [Requests -> {"idle", "schedule", "reading", "adding", "unschedule"}]
  /\ about \in [Requests -> SUBSET Tasks]
  /\ saw \in [Requests -> Crons \cup OddCrons \cup {NoCron}]
  /\ firing \in [Tasks -> {"idle", "checking", "starting"}]
  /\ drifted \subseteq Tasks

\* When no request is under way for a task, its job is the one its row asks for,
\* through any mix of overlapping requests and restarts, except in the ways `drifted`
\* records: a row that changed after another request had read it and before that one
\* registered or unregistered the job, an update that calls nobody, a read that failed,
\* and a project archived above the task.  Each lasts until the next call that
\* overlaps with nothing, or the next start.
RegistrationFollowsRow ==
  server = "up" =>
    \A t \in Tasks \ drifted : UnderWay(t) = {} => jobs[t] = Registrable(Wanted(t))

\* However stale the registrations are, a task that stays archived or disabled
\* ceases to start runs.
Silenced(t) == stage[t] # "active" \/ ~enabled[t]

SilencedTasksRest ==
  \A t \in Tasks : <>[]Silenced(t) => <>[](firing[t] # "starting")

\* A project's archiving cancels the schedules of its tasks; a start does not
\* bring them back.
StartKeepsArchivedSilent ==
  [][server = "starting" /\ server' = "up" /\ project = "archived" =>
       \A t \in Tasks : jobs'[t] = NoCron]_schedVars
=============================================================================
