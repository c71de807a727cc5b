# docupipe-manager: specification and proofs

docupipe-manager is a FastAPI service that runs the `docupipe` command line tool
on schedules and on demand: users of a platform own projects, a project has tasks
(pipelines of steps) and credentials for DingTalk (`dws`), and a run of a task is a
subprocess whose output is streamed to web pages and whose outcome is kept in
PostgreSQL.  Everything happens in one process on one asyncio loop; two coroutines
interleave only where one of them awaits.

This directory holds TLA+ modules for the parts of the service whose correctness
hangs on that interleaving, the TLC runs that check them on small instances, and
TLAPS proofs, for every value of the constants, of all the safety properties and, under the
hypotheses named below, of all the liveness properties.
`PROJECT.json` maps every definition to the lines it models and lists the
components, the runs, the hazards of the code and the theorems.

Reading order: `WorkerPool`, `Runner`, `LineStream`, `RunConsole`, `Scheduler`, `Credential`, `DeviceLogin`,
`UserCache`, `Members`, `EnvVars`, then the `*Proofs` modules.

## Components

| Component | State it keeps | Operations | What makes it correct | Here |
|---|---|---|---|---|
| `RunnerService` (services/runner_service.py) | rows of `jobs` (status, pid, log_path), a semaphore, `_active_runs` | start_run, the executor `_execute_run`/`_do_execute`, cancel_run | no slot lost or exceeded, every run reaches one outcome that fits its process, a signal reaches the right process | `Runner`, `WorkerPool` |
| Log bus (same file) | `_log_buffers`, `_subscribers`, log file | the readline loop, `_broadcast`, subscribe, unsubscribe, `_close_subscribers` | no gap or repetition between history and live lines, no follower left listening or let go early, nothing leaked | `RunConsole`, `LineStream` |
| Event stream (api/runs.py) | one generator per open page | meta, follow, replay the file, end | the end event comes once the run is over and tells its outcome | `RunConsole` |
| Server process (main.py) | nothing of its own | start-up sweep of unfinished jobs, shutdown, restart | after a restart no row claims to run without an executor | `Runner` (`Shutdown`, `Stopped`, `Crash`, `Restart`) |
| `SchedulerService` (services/scheduler_service.py, api/tasks.py, api/projects.py) | APScheduler's in-memory jobs; rows of `tasks`, `projects` | schedule, unschedule, reload, scheduled run; create, update, archive | registrations agree with the rows; archived work does not run | `Scheduler` |
| `CredentialService` (services/credential_service.py) | rows of `dws_credentials`, rows of keepalive jobs, their cron jobs in APScheduler | import, test, revoke, refresh | no renewal is lost, every keepalive job ends, what is active is kept alive, revoked stays revoked | `Credential` |
| Device logins (same file, api/credentials.py) | `_active_sessions`; their processes, drain tasks and directories | start, poll, finalize, clean up | what is stored has its account, nothing a login made is left behind unaccounted for, every login and every waiting poll ends | `DeviceLogin` |
| `dws_env` | one temporary directory per use | context manager | none is shared or left behind | directory of a login in `DeviceLogin`; else sequential |
| Members and access (api/members.py, api/projects.py, auth/project_access.py, the members tab of static/js/project_detail.js) | rows of `project_members`; each page's cached list | check access, list, add, remove, change role | checks and answers are true of some moment of the request; a project keeps an owner | `Members`, with `EnvVars` |
| Environment variables (api/env_vars.py) | rows of `project_env_vars` | create, update, delete | a run is given what was last saved; names are distinct | `EnvVars` |
| User cache (platform/cache.py, `_fetch_users` of api/members.py) | an `OrderedDict` with times | get, set around a batch-get | never above capacity, least recently used goes first, nothing too old and no outage is shown | `UserCache` |
| SM4 storage (crypto.py) | - | encrypt, decrypt | the two formats are told apart by their length | not modelled: a function without state |
| Cron and pipeline editors (static/js) | form state of one page | build, parse, preview; edit lists | parse inverts build | not modelled: sequential |
| Platform client, login, cookies, pages, statistics, migrations, settings | none, or another service's | HTTP calls, rendering, queries | - | `batch_get_users` in `UserCache`; else not modelled |

How they interact: the API handlers and the scheduler call `start_run`, which commits
a row and schedules an executor on the loop; the executor, the cancel handler and
the start-up sweep all write `jobs.status` without conditions on its value; the
executor feeds the bus synchronously, stream handlers read queues from it and the
database for everything else; task and project handlers call the scheduler after
they have committed; the executor imports a credential that `CredentialService` may
at that moment be refreshing or revoking; every handler of a project runs behind the access
checks of `Members`, in transactions of their own; a finalized login becomes a credential
that is then registered, tested and refreshed; and the variables a project's members edit
are what the next run's process is given.

What is hard here: writes of one column by coroutines that have awaited since they
read it; a semaphore whose permits are handed over rather than taken; subscribers
that arrive, leave and are closed while lines come; processes that outlive the
coroutine that spawned them, and process ids that come back; directories that several
coroutines and a foreign process use and remove; rows that are decided on by one statement
and written by another; a server that stops or dies anywhere in between.  The `hazards` of `PROJECT.json` name each place and
the properties that watch it; those without a property say why.

## The modules

### WorkerPool
What `RunnerService` promises: jobs wait in order of arrival, at most `Limit` hold a
place, a job is served at most once, and a pool that dies forgets its jobs.  It knows
nothing of rows, awaits or processes.

### Runner
One variable per column or field (`status`, `jobPid`, `permits`, `waiters`,
`active`), one for what the operating system knows (`proc`, with
`procPid` and `signalled`), and one program counter per coroutine: `pc[r]` for the run's
executor, `cancel[r]` for its cancel handler.  An action is the code between two
awaits, and `pc` names the await the executor is suspended at:

| `pc` | suspended at | left by |
|---|---|---|
| `refreshing` | `session.refresh` in start_run (row committed) | `CreateExecutor`, `RefreshRaises` |
| `created` | scheduled, not begun | `Begin` |
| `waiting`, `granted` | `async with self._semaphore`: in line; woken, not resumed | `Finish`/`Resume` of another, `Resume` |
| `loading` | `_load_context` | `Load`, `Reject`, `Raise` |
| `rejecting`, `failing` | `_mark_run_failed` from `_load_context`; from the handlers | `MarkFailed`, `MarkSwallowed` |
| `importing` | `dws auth import`, which has no timeout | `Imported`, `Raise` |
| `preparing` | the first UPDATE | `MarkRunning`, `Raise` |
| `spawning`, `recording` | `create_subprocess_exec`; the UPDATE with the pid | `Spawn`, `RecordPid`, `Raise` |
| `streaming` | `readline`, `proc.wait` | `ProcessEnded`, `Raise` |
| `finalizing`, `committed` | `_finalize_run` before and after its commit | `Finalize`, `Finish`, `Raise` |
| `closing` | closing the session after the handlers | `Finish` |

The semaphore is CPython's: `Locked`, the hand-over to the first waiter in `Finish`, the
passing on in `Resume`, and the permit a cancelled waiter gives back in `Shutdown` follow
`asyncio/locks.py`; it is marked external in the map.  The operating system
may give a spawned process any id that no living process has.

Abstracted: the contents of config.yaml, the command line, the environment, timestamps
and messages.  `Faults` says at which awaits a call may raise, so that each run
chooses the failures its question is about; `Cancellable` says for which runs cancel is asked.

### LineStream
What the console promises to those who read it: whoever comes while the run goes on is given the
last lines, at most `History` of them, and then every line in order, and is let go when the run is
over and it has been told the last.  It knows nothing of queues, sentinels, files or awaits.
Whoever comes too early or too late may be shown what was kept of the output, and the end of the
server breaks every stream.

### RunConsole
EXTENDS `Runner` and adds the bus, the file and the pages of one run, `Watched`.  Every
step of `Runner` is a step here, with its effect on the console (`Executes`,
`Happens`, `ServerSteps`); lines are their numbers in the output; `page[p]` is where a
page's stream handler is suspended.  `ConsoleRuns` proves that the composition only
takes steps of `Runner`.

### Scheduler
The tasks of one project as three columns (`stage`, `enabled`, `cron`), APScheduler's
memory as `jobs`, and for each request under way the await it is suspended at inside
`schedule_task` or before `unschedule_task` (`at`, `about`, `saw`).  `Commit` is what
every task handler does: commit its row and go on to the scheduler, with an await between
the two, in which other requests commit theirs.  A cron job that fires is a coroutine of its
own (`firing`) and outlives the job it came from.  Expressions are of two kinds: those both
libraries take, and those `croniter.is_valid` lets into the database
(`"@daily"`, six fields, day-of-week 7) and `CronTrigger.from_crontab` raises on.
`croniter.is_valid` inside `schedule_task` is always true of a row that went through the API, so
its branch is not modelled.

`drifted` is a history variable.  It names the tasks whose registration the code has let
go astray, and is as narrow as it could be made: each of its four causes was taken away in
turn, and TLC then found a run in which the registration is wrong.  Keepalive
jobs of credentials belong to the `Credential` module.

### Credential
The columns `status` and `auth_blob` of each credential, the set of those with a
keepalive job in APScheduler (`kept`), and one program counter per coroutine: `creating` and
`revoking` for the handlers that register and unregister, `testing` for `check_status`,
`at` for an instance of `_scheduled_keepalive` with the job row it keeps.  A blob is
the instance that exported it.  A write through the ORM is two actions, since there is an
await between `session.get` and the commit, and SQLAlchemy writes a column only if its new
value differs from the one it loaded (`seen`, `revoking`).  That APScheduler starts no second
instance of a job (`max_instances` is 1) is all that keeps two refreshes of one credential
apart, since the lock of the first design is gone; `Fire` says so.

The module takes `credential_keepalive_enabled` and a valid
`credential_keepalive_cron` for granted; without them nothing is registered.  Expiry times,
`corp_id`, names and the audit calls are left out.  Two history variables name what the code
leaves behind: `unrecorded`, the instances whose latest job was left unfinished by an exception
outside the `try` or in its handler, and `stray`, the credentials that are active with no keepalive
job to come: a test made them so, or the read of the row after its commit raised, so that the
handler never came to `schedule_keepalive` (`CreateRaises`; credential_service.py:218, 255).  The
next start registers them, and empties `stray`.

### DeviceLogin
A login is one call of `start_device_login` and all it makes: the directory (`dir`), the process
of dws (`proc`, what the loop knows of it), the task that drains its stderr (`drain`) and the
session (`phase` = `open`).  Polls and finalize requests are coroutines that have found the session
once and go on with it, whatever becomes of it: `polled` is the login whose drain task a poll
awaits, `fin` the await of a finalize request.  `CleanUp` is `_cleanup_session`, which four
callers share and which is silent for a session that is gone.  dws and its user are external: the
user may agree at any time (`token`), dws exits as it likes, holds stderr open as it likes, and
makes its directory again if it was removed under it (`Remake`; `make_dws_env` points its
configuration there).  Every fault is a step: dws cannot be started, the line is not read,
`kill` finds no process, an answer is no JSON, the commit or the refresh raises.

`stranded` names the directories the code leaves behind, in three ways: the process could not be
started (the call is outside the `try`), `kill` raised (see the findings), and dws made the
directory again after a cleanup.  `early` names the finalize requests sent before any poll had
answered success; the page does not send such ones, the API admits them.

### UserCache
The `OrderedDict` is a sequence of entries, oldest use first; a profile is the time at which it was
the platform's answer.  `_fetch_users` awaits only the batch-get, so `busy` holds the event loop
from one await to the next and the loops over the members are a step per member.  The clock stands
while a request has the loop, and a batch-get may last any time: the HTTP client's timeout
(platform/client.py:16) bounds each of its waits and not the call.  `batch_set` and `clear` have no
caller.  Two histories: `newer`, who was used after whom, so that the order of evictions can be
stated without the sequence that implements it, and `slowest`, the longest batch-get so far, from
sending it to the resumption of its request, which is what the age of an answer depends on.

### Members and EnvVars
`Members` has the rows of `project_members`, one page per user and one request per page.  A
request's place (`at`) is the transaction it is about to run: the owner check, the member check
of those who are no owners, the handler's SELECT, its write.  The page is modelled because the
server is not all of the rule: "至少保留一位 owner" is enforced by project_detail.js:342-356
alone, on the list the page read last, so `manages` and `listed` are state.  `own` and `met`
are histories of the roles the requester and the target had during the request.

`EnvVars` EXTENDS `Members`: its requests go through the same checks, and a step is either one of
its own (`EnvNext`) or one of the members' with the variables left alone (`Beside`).  Requests
come from the page or from any client of the API: a field is given, left out or
null.  A row says whether it is a secret and whether its text is sealed; the update reads the row,
decides by what it has read, and writes what it was given (`Updated`), so that the model can tell
a decision that was overtaken.  `saved` is a history of what users last saved.

### Variants
Each module has a section of variants: operators with a plausible mistake (the run
announced as active only once it has its slot, a permit that is not passed on, a
history that is copied after an await).  No specification uses them.  `mutants` in
`PROJECT.json` says which operator each replaces and which property then fails, so
every property is known to be able to fail.

## The runs

| Run | Instance | Question |
|---|---|---|
| `RunnerSlots` | 4 runs, 2 slots, silent failures, crash | Are slots ever lost, exceeded or left idle beside a waiter? Is the service a `WorkerPool`? |
| `RunnerOutcomes` | 2 runs, 1 slot, every reported failure, cancels, crash; fair | Does each run get one outcome that fits its process, does a signal reach the process it was meant for, and does every run finish if processes and imports end? |
| `RunConsole` | 1 run, 2 pages, 3 lines, history 2, file 2, failures, cancel, crash; fair | Does every page get each line once, is it told how the run came out, and does no page listen for ever? Is the console a `LineStream`? |
| `Scheduler` | 1 task, 3 requests, 2 good expressions and an odd one, restarts; fair | Does the registered job follow the row when requests overlap? Does a task that stays archived or disabled cease to run? |
| `Credential` | 1 credential, 2 keepalive instances, 1 test, restarts; fair | Does a refresh replace only what it was made from? Does every keepalive job end? Is an active credential kept alive? |
| `DeviceLogin` | 1 login, 2 polls, 2 finalize requests, restarts; fair | Does everything a login makes have an owner that ends it? Is what is stored the account that was logged in? Does every login and every waiting poll end? |
| `UserCache` | 3 users, 2 requests, capacity 2, time to live 1, clock to 3 | Is what leaves the cache the least recently used, and no answer too old or blank for want of the platform, while requests overlap and the platform fails? |
| `EnvVars` | 2 users, 3 writing requests, 2 names, 2 values | Do access checks, answers and edits stay right when others commit between their statements? |
| `RunnerCancelled` (violation) | 2 runs, cancels | Is a cancelled run final? No: the executor overwrites it. |
| `SchedulerArchived` (violation) | 1 task, 1 request | Do the schedules of an archived project stay cancelled? No: the next start registers them again. |
| `CredentialRevoked` (violation) | 1 credential, 1 test | Does a revoked credential stay revoked? No: a test writes its verdict over the status. |
| `DeviceLoginFailed` (violation) | 2 logins | Does a login that dws ends without a code leave nothing behind? No: `kill` may raise before the directory is removed. |

Why these bounds are enough to be interesting:

- `RunnerSlots` needs a waiter that is woken and has not resumed, a second permit that
  comes free meanwhile, a run still in line behind it, and one that arrives just then:
  two slots and four runs.  With fewer, `Resume` never has a permit to pass on.
  Runs and pids are symmetric (the run checks no liveness).
- `RunnerOutcomes` needs a run that is cancelled in line and one that is cancelled while it
  runs, a pid that is reused by the other run, and a restart with both unfinished: two
  runs, one slot, two pids. It lists the failures after which the service still records an
  outcome.  The silent ones (the refresh in `start_run` raises, `_mark_run_failed`
  swallows its own exception) leave a job unfinished until the next restart by design;
  they are in `RunnerSlots`, where slots must survive them.
- `RunConsole` needs output longer than the history, so that lines are dropped before
  a page opens, a page that joins between two lines and one that joins after the end,
  and a file that has been cut: three lines, two pages, limits of two.
- `Scheduler` needs a request that has read the row and not registered the job, a second that
  commits in between, and a third that commits before the second has acted: three
  requests about one task.  Tasks interact only through `archive_project` and through a
  start that fails for all of them; the proof covers any number.
- `Credential` needs two instances, so that the mutant that lets both refresh one credential
  has two to run, and a test and a revocation that overlap; credentials do not
  interact.  The proof covers several tests at a time.
- `DeviceLogin` needs two finalize requests that have both found the session and a poll that
  waits beside another; logins share nothing (`CleanUpExpired` takes several at once, which the
  proof covers).
- `UserCache` needs a third user to overflow two places, two requests so that one stores while the
  other's reply is under way, and a clock that goes past an expiry.  With it the bound of
  `AnswersFresh` is met exactly: an answer three old, from a batch-get that lasted one, an entry
  served when it was one old, and a wait of one.
- `EnvVars` needs two users who change each other's role or the same variable, a third write so
  that a name is taken after it was found free and released again, and two names to swap. There is
  no admin in the run: an admin passes every check and makes every property about roles weaker.
- Deadlock is checked everywhere: the server can always be shut down or restarted, and a page can
  always load again.
- The unbounded counters of the code (lines, runs, pids) are bounded by `MaxLines`, `Runs`
  and `Pids`; requests that write by `MaxWrites`, the clock by `MaxTime`.

### Fairness
Each module names its fairness conditions one by one (`ExecutorGoesOn`, `SignalKills`,
`RequestGoesOn`, `InstanceGoesOn`, `PollGoesOn`, `LoopGoesOn`, ...), which say what the machinery
guarantees and no more: the loop resumes every coroutine that can go on, and a docupipe process that
was sent SIGTERM ends (it does not ignore the signal, and leaves no child behind that keeps its
stdout open, which the executor reads to the end).  Nobody has to start a run, edit a
task, open or leave a page, cancel, or crash the server, and no call has to fail.
docker-compose.yml has no restart policy, so a server that is down may stay down;
`RunsFinish` has its return as a hypothesis (`ServerReturns`).  A docupipe process may run for
ever, because `run_timeout_seconds` is declared in config.py and read nowhere, and so may the
`dws auth import` before it: `import_proc.communicate()` (runner_service.py:226) has no timeout, and
no cancel reaches it, because the row is still pending and has no pid.  Such a run keeps its slot and
its pages until the server stops.  No fairness is therefore assumed of either end; the liveness
properties that need them have them as hypotheses (`BatchesEnd` and `ImportsReturn` in `RunsFinish`,
`OutputEnds` in `PagesEnd`), while `CancelFreesSlot` does without both.  A keepalive instance needs
no such hypothesis: every call of dws has a timeout.  `DeviceFairSpec` assumes that time passes and
the cleanup loop runs, that the start of a login ends (`StartEnds`: dws prints a code, stops or falls
silent, and does not print other lines for ever; the timeout of 60 s is per line), and that a poll
whose drain task is done or cancelled is resumed; it assumes nothing of the user, of dws once the
code is read, or of finalize requests.

### Findings
`PROJECT.json` quotes the documents.  In short: cancel of a pending run has no effect
on its execution and the status it writes is overwritten; an archived project's tasks are
scheduled again by the next start; a test makes a revoked credential active again; and a
device login that dws ends without a code may leave its directory behind, since `proc.kill()` raises
when the loop has already closed the process's transport.

Other observations that the models have as behaviours and that no run states as a property:

- The semaphore limits executors, not processes: an exception after the spawn gives the slot up
  with the process alive (`Raise` at `streaming`), although
  docs/superpowers/specs/2026-06-28-dws-state-isolation-design.md:145 speaks of processes.
- Between the commit of a run's row and its executor's first step the event stream believes the run
  is over and sends the end event with status pending (`SkipBus`, `SendEnd`).
- One cron expression that only croniter accepts makes every start of the server fail
  (`ReloadRaises`).
- Nothing on the server keeps the last owner of a project: members.py:118-164 never counts them.
  Two owners who act at once, or an admin, can leave a project without one; `outdated` records
  exactly these cases and `OwnerUnlessOutdated` proves that there are no others.
- A race for a variable's name, or an explicit `"key": null`, is answered 500 by the
  database's constraint where the handler means 409 (`Refused`).
- The editor of variables always sends the value and description it showed, so the later of two
  editors undoes the other's change of a field it did not touch.
- Two overlapping batch-gets may store the older reply over the newer, and a profile may be old when
  it is stored, since nothing bounds a batch-get as a whole; `AnswersFresh` says that an answer is
  still no older than an entry may get, the longest batch-get and this request's own wait together.
- A row whose read after the commit raises is there all the same: an active credential has no
  keepalive until the next start (`CreateRaises`), a login session stays and can be finalized again
  (`RereadRaises`), a run has no executor (`RefreshRaises`).
- A `dws auth import` that hangs holds a slot for ever (`Imported` need not come).

## The proofs

All theorems hold for every value of the constants under the named assumptions:
`MaxConcurrentAssumption` (at least one slot), `RunsAssumption` (finitely many runs),
`PidsAssumption` (NULL is not a pid), `WatchedAssumption` and `SizesAssumption`.
The type invariants of `Runner`, `RunConsole`, `Scheduler`, `Credential`, `DeviceLogin` and
`UserCache` are theorems (`TypeCorrect`, `ConsoleTypeCorrect`, `SchedTypeCorrect`,
`CredTypeCorrect`, `DeviceTypeCorrect`, `CacheTypeCorrect`) and no run repeats them.

**RunnerProofs.**  The inductive invariant `IInv` is the conjunction of `TypeOK`,
`PermitAccounting`, `NoLostWakeup`, `ActiveIsExecuting` and two facts the runs do not need
to state: there is no executor while the server is down (`DownIsEmpty`), and a run that has
succeeded or failed is past the points of `pc` from which its executor would write
`running` (`NoEarlyOutcome`; `OutcomeStands` needs it, since nothing in the guard of
`MarkRunning` looks at the status).  `PermitAccounting` alone is not
inductive either: that `Finish` hands a permit to runs that are not yet in a slot, and to
different ones, needs `NoLostWakeup`, since the line must hold waiting executors, once each.
The steps go by what they do to the two sets "in a slot" and "in line": most actions move
an executor inside one of them (`InnerStaysInSlot`, `OuterStaysElsewhere`), and
`WakeProperties` says once what a hand-over of n permits does to line and slots.
`RunnerIsPool` uses `IInv` at both ends of a step and maps each action to a
step of `WorkerPool` or a stutter: `Begin` to `Enter` or `Queue`, `Resume` to
`Admit`, `Finish` to `Leave`, `RefreshRaises` to `Withdraw`, and the ends of the server to
`Abandon`.  What the pool promises of its own variables is carried back through the refinement:
`PoolOrder` looks at the pool's steps only, and `FirstComeFirstServed` is what it says of the
executors.

Two facts about process ids are inductive beside `IInv`: a pid that was recorded, or read by a
cancel that is about to signal, is that of the one process the run was ever given (`PidsKept`), and
living processes have different pids (`PidsDistinct`).  `SignalsFindOwn` follows: a cancel
that read a pid before an await signals its own run's process and no other, or, if that has been reaped
meanwhile, at most one that was given the same pid since.  The second case is real: TLC reaches it
in `RunnerOutcomes`.  `RunsExecutedOnce` says that a run never gets a second process and
that an exit code stays.

`OutcomesTrue`, `UnfinishedServed` and `CancelTargetsOwn` say that row, executor and process agree.
They carry the hypothesis `FailuresReported`: no refresh raises after `start_run` has committed and
`_mark_run_failed` always writes; with these faults in `Faults` the three are false, which is the
hazard listed at runner_service.py:345.  `Accounted` is what is inductive for one run beside `IInv`:
no pid is in the row before `RecordPid` (`BeforeRecord`), so that `MarkRunning` cannot show a
stale one to a cancel, and an executor that only has its slot left to release has written an
outcome.  A step about one run leaves all others as they are or grants a waiter its permit
(`OthersLeftAlone`), so each action is looked at for its own run only.

**RunConsoleProofs.**  `ConsoleRuns` carries every theorem about `Runner` over to the
composition.  The inductive invariant `ConsoleInv` adds to `IInv` and the types three facts
about the bus: the history is the last lines of the output (`BufferIsTail`),
nothing is in it before the executor streams (`Unwritten`), and a page is subscribed
only while its handler follows (`Covered`).  From these come `NoGapNoRepeat`,
`FollowersHear` and `BusIsFreed`, for any number of pages and lines and any limits.
`PagesLearnOutcome` joins the two halves: the sentinel is sent only by an executor that has gone, and
by `AllAccounted` (under `FailuresReported`) such a run has its outcome in the row, which neither a
cancel nor the sweep takes back; so a page that heard its log end is told how the run came out.
`ConsoleIsStream` is the refinement of `LineStream`: `Subscribe` maps to `Tune`, `SkipBus` to `Miss`,
`SendLine` to `Tell`, `StopFollowing` to `End`, `Replay` to `Recall`, `ReadLine` to `Emit`, and the
end of the server to `Break`.  Its heart is `HeadOfQueue`: the head of a follower's queue is the next
line of the output, and it is the sentinel only if there is no next line and will be none, so a page
never stops following too early.  Three more facts are needed (`StreamInv`): no handler is suspended
while the server is not up (`PagesNeedServer`; otherwise `is_active` could be true of an executor
that a shutdown has ended), nothing has been sent before a handler subscribes (`Blank`), and the file
holds lines of the output only (`FileIsOutput`).  `FollowersHearAll` says what the refinement means
to a reader: when a page stops following, what it has been sent is consecutive, goes to the
last line of a run that is over, and is all of it or at least as much as the history holds.

**SchedulerProofs.**  `RegistrationFollowsRow` speaks of tasks no request is under way for; its
invariant `SInv` says what holds while there are some.  For a task that has not drifted,
whoever is about to register a job has read what the row says now, whoever is about to
unregister it knows that the row asks for nothing (`Current`), and the job is right, or
some request will still remove it, or it is gone and some request will put it back
(`OnItsWay`).  `CommitStep` is the heart: it shows that the two conditions `drifted` is
computed from are all that a commit has to watch.  Assumptions: `CronsAssumption`,
`KeepAssumption`.

**CredentialProofs.**  The invariant `CInv` has a part per property.  `NoRenewalLost` needs
`OneEach` (two instances under way have different credentials) and `Fresh` (from the read
on, what an instance has read is what the row says): a store disturbs `Fresh` for others
only if they have the same credential.  `RefreshesApart` states the two together for the
reader: what the lock of the first design was for holds without it.  `JobIsWatched` is stronger than
`JobHasInstance` at the await where the job is not committed yet, where an instance may
still have the unfinished job of an earlier round to its name.  `Attended` extends
`ActiveIsKept` to every point of a creation and a revocation: while the handler that created the
credential is on its way the job may still come, and from the moment a revocation has written, or has
read that it need not, the credential is active only by a test, or has been without a job since it
was created.
No assumption is needed: `ImportedAssumption` and `NoCredAssumption` only give the types their
meaning.

**DeviceLoginProofs.**  The invariant `DInv` has a part per login (`LoginInv`: who owns its
directory and process) and a part per finalize request (`RequestInv`).  `StoredWithAccount` needs
that a token, once a poll has seen the exit code 0, is there as long as the session is, and that a request
that was told "logged out" although it was not early has lost its session, so its export fails:
`TokenInv` and the fourth conjunct of `RequestInv` say so.  All four callers of `CleanUp` share one
lemma per conjunct (`CleanUpEach`, `CleanUpTypes`).  `LoginMoves` sums up what a step may do to a
login (let it rest, advance or end), from which both liveness theorems follow.  Assumption:
`NoLoginAssumption`.

**UserCacheProofs.**  `LeastUsedIsEvicted` says of every step that the cache stays within its
capacity and that what leaves before its time is what was used least recently.  The order needs the
induction: `SortedByUse` relates the sequence to the history `newer`, `EntriesAge` bounds what an
entry says by when it was stored and by `slowest`, and `FetchInv` and `ProfileInv` what a request
knows by when it asked.  No bound on the length of a batch-get is assumed; `slowest` only grows, so
what was bounded once stays bounded.  `MovedToEnd` and `EntryTaken` say once what moving an entry to the end does, for a hit, a store and an eviction alike.
Assumptions: `BoundsAssumption`, `UsersAssumption`, `NobodyAssumption`.

**EnvVarsProofs.**  One part per user (`UserInv`: the roles its request has met justify the point it
has reached; `EditInv`: what its handler has read of a row is still true of it where it
matters) and one for the table (`RowsInv`).  `EditsReachRuns` holds because a row's
`is_secret` never changes and numbers are not reused, not because reads and writes agree.  A
step of one user leaves the parts of the others alone (`OthersKeepUserInv`) even when it changes
their roles.  Assumptions: `MaxWritesAssumption`, `KeysAssumption`,
`TextsAssumption`; the theorems hold with admins, whom the run leaves out.

### Liveness

A weak fairness condition speaks of ENABLED, which TLAPS cannot expand.  Where a theorem needs that a
fair action can be taken when its guard holds, the proof module defines just that and takes it as a
hypothesis: `GuardsEnable` (RunnerLiveness), `PageGuardsEnable` (RunConsoleProofs), `FiringEnabled`
(SchedulerProofs), `KeepsEnabled` (CredentialProofs), `StepsEnabled` (DeviceLoginProofs).  They say
nothing of the code: each follows from the definitions of the actions by expanding ENABLED, and no run
lists them as properties.  TLC, which evaluates ENABLED, checks the conclusions without them.
So `CancelledRunLeaves` reads `FairSpec /\ []GuardsEnable => CancelFreesSlot`, and so on.  What TLAPS
proves, for any number of runs, pages, tasks, instances or logins, is the rest of the argument: through
which stages a coroutine goes, that every step takes it forward or leaves it where it is, and that the
fair step does not leave it there.

- `CancelledRunLeaves`: a run whose process was sent SIGTERM gives its slot up.  The stages are those
  of `pc` inside a slot; `SlotMoves` says where each may lead.
- `EverySlotComesFree`: if processes and imports end (`BatchesEnd`, `ImportsReturn`) and pids do not run
  out (`PidsLast`, which `PidsSuffice` proves of any instance with as many pids as runs), every run in a slot leaves it.
- `TheLineMoves`: whoever is n-th in line gets nearer to a slot, for every n, or leaves the line.  It
  rests on `NoLostWakeup` (nobody waits beside a free slot, so somebody is in one) and on
  `WakeMovesLine`.
- `EveryRunFinishes` (`RunsFinish`): every run that is committed gets an outcome and keeps it.  The
  executor comes to its end (`EveryExecutorEnds`) or the server does; a shutdown ends executor by executor
  (`TheShutdownMoves`), a server that is down comes back, and its sweep leaves no row unfinished.  The
  assumptions are `FailuresReported` and `EnoughPids`.
- `EveryPageEnds` (`PagesEnd`): a page that stays open is sent its end event.  The executor of its run ends
  in the composition too (`ExecutorsWorkOn`), `FollowersHear` then puts the sentinel into the
  queue, a queue nobody adds to gets shorter (`TheQueueMoves`), and the handler goes on from
  the sentinel to the end (`PageMoves`).
- `SilencedRest`: a firing that looks at a silenced task ends, and none that starts later passes
  the check.
- `EveryJobEnds`: an instance goes through `opening`, `importing`, `renewing`, `storing` and
  `failing` to the end of its job, or is cut off and its job waits for the sweep of the next start.
- `EveryLoginEnds`: a login that starts becomes a session or ends, a session ages, and a round of the
  loop ends an old one.
- `EveryPollEnds`: the drain task that a poll awaits ends, or its session does and cancels it; it
  reads no longer than the session is there (`DrainInv`).

`RunnerLiveness` takes the faces of fairness apart: `WorksOn(r)` (the executor works on while it can
go on), `ImportsThen(r)` (its import returns), `RunsOut(r)` and `DiesThen(r)` (its process ends, or dies
of its signal) are what the lemmas use.  `FairToEach` derives them from `FairSpec`, `GuardsEnable` and,
for the second and third, `ImportsReturn` and `BatchesEnd`; `ExecutorsWorkOn` from `ConsoleFairSpec` and
`PageGuardsEnable`.  So the lemmas about lines and slots serve the runner alone and under
the console.

Three hypotheses are countdowns: `LineCountsDown` (places in the line), `StopCountsDown` (executors
that a shutdown has left) and `QueuesCountDown` (lines in a queue).  Each says: if from every n
something less is reached, then the end is.  The premise of each is a theorem here (`TheLineMoves`,
`TheShutdownMoves`, `TheQueueMoves`); the step from premise to conclusion is induction on the
natural numbers, true of every behaviour of the specification.  It is a hypothesis only because the
induction has a temporal formula in it: the library's rule takes an operator as a parameter,
and no set can be defined by a temporal formula.

Only model-checked, on the runs' instances: the liveness properties without the hypotheses on ENABLED
and on counting down.

## Not modelled, and why
- The read-only handlers of api/runs.py, api/env_vars.py, api/stats.py and api/pages.py: queries
  and rendering, one statement each.
- Migrations (straight-line SQL run before anything else) and settings.
- Login, cookies, audit and the rest of the platform client: another service's state.
  The handlers are thin: a refused token is renewed once, and cookies are signed values without a
  table here.
- SM4 formats, the cron and pipeline editors: functions and form state of one page, sequential and
  within reach of unit tests.
- `subscribe`'s own guard for an inactive run is never reached, since its only caller asks
  `is_active` in the same step.
- What docupipe does with config.yaml and `.state` when two runs of one task overlap: another
  program.

## Plan

1. Done: `WorkerPool`, `Runner`, `LineStream`, `RunConsole`, `Scheduler`, `Credential`,
   `DeviceLogin`, `UserCache`, `Members`, `EnvVars` and their proofs.
2. Done: what the abstract specifications promise, carried over to `Runner` and `RunConsole`
   (`FirstComeFirstServed`, `FollowersHearAll`), and every liveness property as a theorem.
3. `DeviceLogin` composed with `Credential`: what is stored is what is refreshed.
