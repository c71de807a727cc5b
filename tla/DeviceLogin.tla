---------------------------- MODULE DeviceLogin ----------------------------
(***************************************************************************)
(* CredentialService: device logins.  A login makes a temporary directory, *)
(* starts `dws auth login` in it and reads the verification code from its  *)
(* stderr; then it is a session in _active_sessions that page requests     *)
(* poll and finalize, and that a loop of the server removes when it is     *)
(* fifteen minutes old.  The session owns the directory, the process and   *)
(* the task that drains its stderr.                                        *)
(*                                                                         *)
(* An action is what happens between two awaits of one coroutine.          *)
(***************************************************************************)
CONSTANTS
  Logins,     \* calls of start_device_login; each makes one directory and one process
  Polls,      \* poll requests that may wait at one time
  Finals,     \* finalize requests; each is made once
  NoLogin     \* the subject of an idle request

ASSUME NoLoginAssumption == NoLogin \notin Logins

VARIABLES
  phase,      \* where a login is: "new", "starting", "reading" (the code is awaited),
              \* "open" (in _active_sessions), "ended", or "lost" in a restart
  proc,       \* its process: "none", "running", or what the loop knows of its exit
  drain,      \* its drain task: "none", "reading", "done", "cancelled"
  dir,        \* logins whose directory exists
  token,      \* logins whose directory holds the token of a user who has agreed
  aged,       \* sessions older than fifteen minutes
  polled,     \* the login whose drain task a poll awaits
  told,       \* logins of which a poll has answered success
  fin,        \* where a finalize request is
  of,         \* the login it is for
  meta,       \* what dws has told it of the account
  early,      \* history: finalize requests made before a poll had answered success
  stranded    \* history: directories that no code removes while the server is up

loginVars == <<phase, proc, drain, dir, token, aged>>
pollVars == <<polled, told>>
finVars == <<fin, of, meta, early>>
deviceVars == <<loginVars, pollVars, finVars, stranded>>

Owned == {"starting", "reading", "open"}
Asking == {"asking", "exporting"}
Finalizing == Asking \cup {"storing", "rereading"}

-----------------------------------------------------------------------------
\* Variants: bugs a careless edit could make.  The specification uses none of them.

\* The session is popped and its process killed, and the directory stays.
CleanUpKeepingDirectory(S) ==
  LET popped == {l \in S : phase[l] = "open"} IN
  /\ phase' = [l \in Logins |-> IF l \in popped THEN "ended" ELSE phase[l]]
  /\ drain' = [l \in Logins |->
                 IF l \in popped /\ drain[l] = "reading" THEN "cancelled" ELSE drain[l]]
  /\ proc' = [l \in Logins |->
                IF l \in popped /\ proc[l] = "running" THEN "failed" ELSE proc[l]]
  /\ token' = token \ popped
  /\ aged' = aged \ popped
  /\ UNCHANGED dir

\* The loop skips the sessions whose process still runs.
CleanUpFinished ==
  /\ aged # {}
  /\ \E l \in aged : proc[l] # "running"
  /\ phase' = [l \in Logins |->
                 IF l \in aged /\ proc[l] # "running" THEN "ended" ELSE phase[l]]
  /\ aged' = {l \in aged : proc[l] = "running"}
  /\ dir' = {l \in dir : l \notin aged \/ proc[l] = "running"}
  /\ token' = token \cap dir'
  /\ drain' = [l \in Logins |->
                 IF l \in aged /\ proc[l] # "running" /\ drain[l] = "reading"
                 THEN "cancelled" ELSE drain[l]]
  /\ UNCHANGED <<proc, pollVars, finVars, stranded>>

\* The end of stderr is taken for the end of the login.
PollUnasked(l) ==
  /\ phase[l] = "open"
  /\ drain[l] = "done"
  /\ told' = told \cup {l}
  /\ UNCHANGED <<loginVars, polled, finVars, stranded>>

\* The process is killed, and the task that drains its stderr is left alone.
CleanUpLeavingDrain(S) ==
  LET popped == {l \in S : phase[l] = "open"} IN
  /\ phase' = [l \in Logins |-> IF l \in popped THEN "ended" ELSE phase[l]]
  /\ proc' = [l \in Logins |->
                IF l \in popped /\ proc[l] = "running" THEN "failed" ELSE proc[l]]
  /\ dir' = dir \ popped
  /\ token' = token \ popped
  /\ aged' = aged \ popped
  /\ UNCHANGED drain

-----------------------------------------------------------------------------
\* _cleanup_session of every login in S; nothing for one without a session.
CleanUp(S) ==
  LET popped == {l \in S : phase[l] = "open"} IN
  /\ phase' = [l \in Logins |-> IF l \in popped THEN "ended" ELSE phase[l]]
  /\ drain' = [l \in Logins |->
                 IF l \in popped /\ drain[l] = "reading" THEN "cancelled" ELSE drain[l]]
  /\ proc' = [l \in Logins |->
                IF l \in popped /\ proc[l] = "running" THEN "failed" ELSE proc[l]]
  /\ dir' = dir \ popped
  /\ token' = token \ popped
  /\ aged' = aged \ popped

-----------------------------------------------------------------------------
DeviceInit ==
  /\ phase = [l \in Logins |-> "new"]
  /\ proc = [l \in Logins |-> "none"]
  /\ drain = [l \in Logins |-> "none"]
  /\ dir = {}
  /\ token = {}
  /\ aged = {}
  /\ polled = [p \in Polls |-> NoLogin]
  /\ told = {}
  /\ fin = [f \in Finals |-> "idle"]
  /\ of = [f \in Finals |-> NoLogin]
  /\ meta = [f \in Finals |-> "unknown"]
  /\ early = {}
  /\ stranded = {}

-----------------------------------------------------------------------------
\* start_device_login.

StartLogin(l) ==
  /\ phase[l] = "new"
  /\ phase' = [phase EXCEPT ![l] = "starting"]
  /\ dir' = dir \cup {l}
  /\ UNCHANGED <<proc, drain, token, aged, pollVars, finVars, stranded>>

Spawn(l) ==
  /\ phase[l] = "starting"
  /\ phase' = [phase EXCEPT ![l] = "reading"]
  /\ proc' = [proc EXCEPT ![l] = "running"]
  /\ UNCHANGED <<drain, dir, token, aged, pollVars, finVars, stranded>>

\* dws cannot be started: the call is outside the try block.
SpawnRaises(l) ==
  /\ phase[l] = "starting"
  /\ phase' = [phase EXCEPT ![l] = "ended"]
  /\ stranded' = stranded \cup {l}
  /\ UNCHANGED <<proc, drain, dir, token, aged, pollVars, finVars>>

\* A line completes the code: the drain task is created and the session stored.
GotCode(l) ==
  /\ phase[l] = "reading"
  /\ phase' = [phase EXCEPT ![l] = "open"]
  /\ drain' = [drain EXCEPT ![l] = "reading"]
  /\ UNCHANGED <<proc, dir, token, aged, pollVars, finVars, stranded>>

\* kill and rmtree: no line for a minute or an unreadable one, or the end of stderr
\* without a code.
NoCode(l) ==
  /\ phase[l] = "reading"
  /\ phase' = [phase EXCEPT ![l] = "ended"]
  /\ proc' = [proc EXCEPT ![l] = "failed"]
  /\ dir' = dir \ {l}
  /\ UNCHANGED <<drain, token, aged, pollVars, finVars, stranded>>

\* At the end of stderr the loop may know that the process is gone and have closed its
\* transport: kill raises ProcessLookupError, and rmtree is not reached.
KillRaises(l) ==
  /\ phase[l] = "reading"
  /\ proc[l] # "running"
  /\ phase' = [phase EXCEPT ![l] = "ended"]
  /\ stranded' = stranded \cup {l}
  /\ UNCHANGED <<proc, drain, dir, token, aged, pollVars, finVars>>

-----------------------------------------------------------------------------
\* dws, its user, and the clock.

\* The user has agreed, and dws writes the token before it exits.
Agree(l) ==
  /\ phase[l] = "open"
  /\ proc[l] = "running"
  /\ l \in dir \ token
  /\ token' = token \cup {l}
  /\ UNCHANGED <<phase, proc, drain, dir, aged, pollVars, finVars, stranded>>

\* With code 0 once the token is written, with another at any time.
ProcessExit(l) ==
  /\ proc[l] = "running"
  /\ \E code \in IF l \in token THEN {"ok", "failed"} ELSE {"failed"} :
       proc' = [proc EXCEPT ![l] = code]
  /\ UNCHANGED <<phase, drain, dir, token, aged, pollVars, finVars, stranded>>

\* stderr ends with the process, or before it, or later when a child holds it open.
DrainEnds(l) ==
  /\ drain[l] = "reading"
  /\ drain' = [drain EXCEPT ![l] = "done"]
  /\ UNCHANGED <<phase, proc, dir, token, aged, pollVars, finVars, stranded>>

Age(l) ==
  /\ phase[l] = "open"
  /\ l \notin aged
  /\ aged' = aged \cup {l}
  /\ UNCHANGED <<phase, proc, drain, dir, token, pollVars, finVars, stranded>>

\* A round of _session_cleanup_loop.
CleanUpExpired ==
  /\ aged # {}
  /\ CleanUp(aged)
  /\ UNCHANGED <<pollVars, finVars, stranded>>

-----------------------------------------------------------------------------
\* poll_device_login.  A poll of a running process answers pending and changes nothing.

\* Success, or the session of a process that has failed is cleaned up.
Answer(l) ==
  IF proc[l] = "ok" THEN told' = told \cup {l} /\ UNCHANGED loginVars
                    ELSE CleanUp({l}) /\ UNCHANGED told

\* The drain task is done: its await does not suspend.
PollNow(l) ==
  /\ phase[l] = "open"
  /\ proc[l] # "running"
  /\ drain[l] = "done"
  /\ Answer(l)
  /\ UNCHANGED <<polled, finVars, stranded>>

PollWaits(p) ==
  /\ polled[p] = NoLogin
  /\ \E l \in Logins :
       /\ phase[l] = "open"
       /\ proc[l] # "running"
       /\ drain[l] = "reading"
       /\ polled' = [polled EXCEPT ![p] = l]
  /\ UNCHANGED <<loginVars, told, finVars, stranded>>

PollResumes(p) ==
  /\ polled[p] # NoLogin
  /\ drain[polled[p]] = "done"
  /\ Answer(polled[p])
  /\ polled' = [polled EXCEPT ![p] = NoLogin]
  /\ UNCHANGED <<finVars, stranded>>

\* The await of a cancelled task raises CancelledError in the request.
PollCancelled(p) ==
  /\ polled[p] # NoLogin
  /\ drain[polled[p]] = "cancelled"
  /\ polled' = [polled EXCEPT ![p] = NoLogin]
  /\ UNCHANGED <<loginVars, told, finVars, stranded>>

-----------------------------------------------------------------------------
\* finalize_login.  Two processes of dws, without a limit of time, and the commit.

FinalizeBegin(f) ==
  /\ fin[f] = "idle"
  /\ \E l \in Logins :
       /\ phase[l] = "open"
       /\ of' = [of EXCEPT ![f] = l]
       /\ early' = IF l \in told THEN early ELSE early \cup {f}
  /\ fin' = [fin EXCEPT ![f] = "asking"]
  /\ UNCHANGED <<loginVars, pollVars, meta, stranded>>

\* auth status: its exit code is not looked at, and no output counts as an empty answer.
AskStatus(f) ==
  /\ fin[f] = "asking"
  /\ \E answer \in {"silent", IF of[f] \in token THEN "account" ELSE "logged out"} :
       meta' = [meta EXCEPT ![f] = answer]
  /\ fin' = [fin EXCEPT ![f] = "exporting"]
  /\ UNCHANGED <<loginVars, pollVars, of, early, stranded>>

\* auth export has written the file, the file is there, and it is encrypted.
Export(f) ==
  /\ fin[f] = "exporting"
  /\ of[f] \in token
  /\ fin' = [fin EXCEPT ![f] = "storing"]
  /\ UNCHANGED <<loginVars, pollVars, of, meta, early, stranded>>

\* dws does not start, its answer is no JSON, the export fails or the file is gone.
FinalizeRaises(f) ==
  /\ fin[f] \in Asking
  /\ CleanUp({of[f]})
  /\ fin' = [fin EXCEPT ![f] = "failed"]
  /\ UNCHANGED <<pollVars, of, meta, early, stranded>>

\* A dws process whose directory has been removed under it makes it again.
Remake(f) ==
  /\ fin[f] \in Asking
  /\ of[f] \notin dir
  /\ dir' = dir \cup {of[f]}
  /\ stranded' = stranded \cup {of[f]}
  /\ UNCHANGED <<phase, proc, drain, token, aged, pollVars, finVars>>

Store(f) ==
  /\ fin[f] = "storing"
  /\ fin' = [fin EXCEPT ![f] = "rereading"]
  /\ UNCHANGED <<loginVars, pollVars, of, meta, early, stranded>>

\* The name is taken, or the database fails: the session stays.
StoreRaises(f) ==
  /\ fin[f] = "storing"
  /\ fin' = [fin EXCEPT ![f] = "failed"]
  /\ UNCHANGED <<loginVars, pollVars, of, meta, early, stranded>>

\* The row is read back and the session cleaned up.
Complete(f) ==
  /\ fin[f] = "rereading"
  /\ CleanUp({of[f]})
  /\ fin' = [fin EXCEPT ![f] = "stored"]
  /\ UNCHANGED <<pollVars, of, meta, early, stranded>>

\* The credential is stored, the read of its row fails, and the session stays.
RereadRaises(f) ==
  /\ fin[f] = "rereading"
  /\ fin' = [fin EXCEPT ![f] = "unread"]
  /\ UNCHANGED <<loginVars, pollVars, of, meta, early, stranded>>

-----------------------------------------------------------------------------
\* The server stops or is killed, and starts again: sessions, tasks and requests are
\* gone, directories and processes are not.
Restart ==
  /\ phase' = [l \in Logins |-> IF phase[l] \in Owned THEN "lost" ELSE phase[l]]
  /\ drain' = [l \in Logins |-> IF drain[l] = "reading" THEN "cancelled" ELSE drain[l]]
  /\ aged' = {}
  /\ polled' = [p \in Polls |-> NoLogin]
  /\ fin' = [f \in Finals |-> CASE fin[f] \in Asking \cup {"storing"} -> "failed"
                                [] fin[f] = "rereading" -> "unread"
                                [] OTHER -> fin[f]]
  /\ UNCHANGED <<proc, dir, token, told, of, meta, early, stranded>>

-----------------------------------------------------------------------------
\* The steps that end the start of a login: dws starts or does not; it prints a code,
\* or no more lines.
StartEnds(l) == Spawn(l) \/ SpawnRaises(l) \/ GotCode(l) \/ NoCode(l) \/ KillRaises(l)

PollEnds(p) == PollResumes(p) \/ PollCancelled(p)

Finalizes(f) ==
  \/ FinalizeBegin(f) \/ AskStatus(f) \/ Export(f) \/ FinalizeRaises(f) \/ Remake(f)
  \/ Store(f) \/ StoreRaises(f) \/ Complete(f) \/ RereadRaises(f)

DeviceNext ==
  \/ \E l \in Logins :
       \/ StartLogin(l) \/ StartEnds(l) \/ PollNow(l)
       \/ Agree(l) \/ ProcessExit(l) \/ DrainEnds(l) \/ Age(l)
  \/ \E p \in Polls : PollWaits(p) \/ PollEnds(p)
  \/ \E f \in Finals : Finalizes(f)
  \/ CleanUpExpired
  \/ Restart

DeviceSpec == DeviceInit /\ [][DeviceNext]_deviceVars

\* Time passes, the loop of the cleanup runs, and what can go on is resumed.  dws starts or
\* does not, and does not print lines without a code for ever: the limit of a minute is for
\* each line.  Nothing is assumed of the user, of stderr once the code is read, nor of
\* finalize requests.
StartGoesOn(l) == WF_deviceVars(StartEnds(l))
TimePasses(l) == WF_deviceVars(Age(l))
PollGoesOn(p) == WF_deviceVars(PollEnds(p))
LoopGoesOn == WF_deviceVars(CleanUpExpired)

DeviceFairness ==
  /\ \A l \in Logins : StartGoesOn(l) /\ TimePasses(l)
  /\ \A p \in Polls : PollGoesOn(p)
  /\ LoopGoesOn

DeviceFairSpec == DeviceSpec /\ DeviceFairness

-----------------------------------------------------------------------------
\* Where each variable takes its values; a session has a drain task.
DeviceTypeOK ==
  /\ phase \in [Logins -> Owned \cup {"new", "ended", "lost"}]
  /\ proc \in [Logins -> {"none", "running", "ok", "failed"}]
  /\ drain \in [Logins -> {"none", "reading", "done", "cancelled"}]
  /\ \A l \in Logins : phase[l] = "open" => drain[l] \in {"reading", "done"}
  /\ dir \subseteq Logins
  /\ token \subseteq Logins
  /\ aged \subseteq Logins
  /\ polled \in [Polls -> Logins \cup {NoLogin}]
  /\ told \subseteq Logins
  /\ fin \in [Finals -> Finalizing \cup {"idle", "stored", "unread", "failed"}]
  /\ of \in [Finals -> Logins \cup {NoLogin}]
  /\ meta \in [Finals -> {"unknown", "silent", "logged out", "account"}]
  /\ early \subseteq Finals
  /\ stranded \subseteq Logins

\* A directory belongs to a login that is being started or is a session, and a session
\* has its directory, whatever polls, finalize requests and the cleanup loop do at the
\* same time.  What a restart loses and what is stranded is all that stays behind.
DirectoriesOwned ==
  \A l \in Logins :
    /\ l \in dir => phase[l] \in Owned \cup {"lost"} \/ l \in stranded
    /\ phase[l] \in Owned => l \in dir

\* No process of dws login runs on without a session to end it, restarts apart.
ProcessesOwned ==
  \A l \in Logins : proc[l] = "running" => phase[l] \in {"reading", "open", "lost"}

\* What a login takes from the system is owned by it as long as it is there.
ResourcesOwned == DirectoriesOwned /\ ProcessesOwned

\* A credential of a finalize request that was made after a poll had answered success
\* has the account that dws tells of, if it tells any: the status is asked before the
\* export, in another process, and only a request made too early can fall between.
StoredWithAccount ==
  \A f \in Finals :
    fin[f] \in {"rereading", "stored", "unread"} /\ meta[f] = "logged out" => f \in early

\* Every login that is begun comes to an end, and with it its process: nobody has to
\* poll or finalize it.  dws may print other lines before the code and be silent between
\* them for up to a minute each time, but not for ever.
LoginEnds(l) == phase[l] \in Owned ~> phase[l] \notin Owned
LoginsEnd == \A l \in Logins : LoginEnds(l)

\* A poll that waits for the end of stderr is answered or cancelled, although dws may
\* leave stderr open.
PollsEnd == \A p \in Polls : polled[p] # NoLogin ~> polled[p] = NoLogin

\* A login that dws ends without a code is cleaned up.
FailedStartLeavesNothing ==
  [][\A l \in Logins : phase[l] = "reading" /\ phase'[l] = "ended" => l \notin dir']_deviceVars
=============================================================================
