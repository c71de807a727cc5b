----------------------------- MODULE RunConsole -----------------------------
(***************************************************************************)
(* The console of one run: the log bus inside RunnerService (a bounded     *)
(* history and one queue per subscriber), the log file beside it, and the  *)
(* handlers of GET /api/runs/{run_id}/stream that feed the pages which     *)
(* watch the run, composed with the Runner that produces the lines.        *)
(*                                                                         *)
(* A line is its number in the output of the run's process.                *)
(***************************************************************************)
EXTENDS Runner

CONSTANTS
  Watched,     \* the run whose console this is
  Pages,       \* browser pages that may show it
  MaxLines,    \* bound on the lines the process prints
  BufferSize,  \* maxlen of the deque in _broadcast
  FileLimit    \* settings.run_log_max_bytes, in lines

ASSUME WatchedAssumption == Watched \in Runs
ASSUME SizesAssumption ==
  MaxLines \in Nat /\ BufferSize \in Nat \ {0} /\ FileLimit \in Nat \ {0}

VARIABLES
  written,      \* lines read from the process so far
  logPath,      \* jobs.log_path is set
  logFile,      \* what the log file holds
  buffer,       \* _log_buffers[run_id]; empty when there is none
  subscribers,  \* the pages whose queue is in _subscribers[run_id]
  queue,        \* each page's queue
  page,         \* where the page's stream handler is suspended
  metaPath,     \* log_path as the handler has read it for the meta event
  shown,        \* the lines sent on the page's present connection
  ended         \* the status in the end event, once it is sent

busVars == <<buffer, subscribers, queue>>
pageVars == <<page, metaPath, shown, ended>>
consoleVars == <<written, logPath, logFile, busVars, pageVars>>
allVars == <<vars, consoleVars>>

\* None in a queue.
Sentinel == 0

Connected == {p \in Pages : page[p] \notin {"away", "done"}}

LastOf(n, s) == SubSeq(s, Len(s) + 1 - Least(n, Len(s)), Len(s))

-----------------------------------------------------------------------------
\* Variants, as in Runner: bugs a careless edit could make.

\* The queue is registered first and the history copied after an await.
SubscribeAfterHistory(p) ==
  /\ page[p] = "meta"
  /\ Watched \in active
  /\ \/ /\ shown[p] = <<>>
        /\ buffer # <<>>
        /\ shown' = [shown EXCEPT ![p] = buffer]
        /\ UNCHANGED <<busVars, page>>
     \/ /\ subscribers' = subscribers \cup {p}
        /\ queue' = [queue EXCEPT ![p] = <<>>]
        /\ page' = [page EXCEPT ![p] = "following"]
        /\ UNCHANGED <<buffer, shown>>
  /\ UNCHANGED <<vars, written, logPath, logFile, metaPath, ended>>

\* The subscribers are dropped without a sentinel.
CloseSilently(r) ==
  /\ buffer' = IF r = Watched THEN <<>> ELSE buffer
  /\ subscribers' = IF r = Watched THEN {} ELSE subscribers
  /\ UNCHANGED <<queue, written, logPath, logFile, pageVars>>

\* A page subscribes to a run without asking whether it is active.
SubscribeUnasked(p) ==
  /\ page[p] = "meta"
  /\ shown' = [shown EXCEPT ![p] = buffer]
  /\ subscribers' = subscribers \cup {p}
  /\ queue' = [queue EXCEPT ![p] = <<>>]
  /\ page' = [page EXCEPT ![p] = "following"]
  /\ UNCHANGED <<vars, written, logPath, logFile, buffer, metaPath, ended>>

\* The history is a list without a limit.
ReadLineUnbounded ==
  LET line == written + 1
      file == Append(logFile, line)
  IN
  /\ pc[Watched] = "streaming"
  /\ written < MaxLines
  /\ written' = line
  /\ logFile' = IF Len(file) > FileLimit THEN SubSeq(file, 1, FileLimit \div 2) ELSE file
  /\ buffer' = Append(buffer, line)
  /\ queue' = [p \in Pages |-> IF p \in subscribers THEN Append(queue[p], line) ELSE queue[p]]
  /\ UNCHANGED <<vars, logPath, subscribers, pageVars>>

\* No unsubscribe when the page goes away.
LeavePageSubscribed(p) ==
  /\ p \in Connected
  /\ page' = [page EXCEPT ![p] = "away"]
  /\ shown' = [shown EXCEPT ![p] = <<>>]
  /\ queue' = [queue EXCEPT ![p] = <<>>]
  /\ UNCHANGED <<vars, written, logPath, logFile, buffer, subscribers, metaPath, ended>>

-----------------------------------------------------------------------------
ConsoleInit ==
  /\ Init
  /\ written = 0
  /\ logPath = FALSE
  /\ logFile = <<>>
  /\ buffer = <<>>
  /\ subscribers = {}
  /\ queue = [p \in Pages |-> <<>>]
  /\ page = [p \in Pages |-> "away"]
  /\ metaPath = [p \in Pages |-> FALSE]
  /\ shown = [p \in Pages |-> <<>>]
  /\ ended = [p \in Pages |-> "absent"]

\* The first UPDATE of _do_execute names the log file, which need not exist yet.
NotePath(r) ==
  /\ logPath' = (logPath \/ r = Watched)
  /\ UNCHANGED <<written, logFile, busVars, pageVars>>

\* One turn of the readline loop: write, flush, cut the file when it has grown too
\* large (its first half stays), then _broadcast.
ReadLine ==
  LET line == written + 1
      file == Append(logFile, line)
  IN
  /\ pc[Watched] = "streaming"
  /\ written < MaxLines
  /\ written' = line
  /\ logFile' = IF Len(file) > FileLimit THEN SubSeq(file, 1, FileLimit \div 2) ELSE file
  /\ buffer' = LastOf(BufferSize, Append(buffer, line))
  /\ queue' = [p \in Pages |-> IF p \in subscribers THEN Append(queue[p], line) ELSE queue[p]]
  /\ UNCHANGED <<vars, logPath, subscribers, pageVars>>

CloseSubscribers(r) ==
  /\ IF r = Watched
     THEN /\ queue' = [p \in Pages |-> IF p \in subscribers
                                       THEN Append(queue[p], Sentinel) ELSE queue[p]]
          /\ subscribers' = {}
          /\ buffer' = <<>>
     ELSE UNCHANGED busVars
  /\ UNCHANGED <<written, logPath, logFile, pageVars>>

\* The server process ends: its connections are closed and the bus is gone.
ConnectionsLost ==
  /\ buffer' = <<>>
  /\ subscribers' = {}
  /\ queue' = [p \in Pages |-> <<>>]
  /\ page' = [p \in Pages |-> IF p \in Connected THEN "away" ELSE page[p]]
  /\ shown' = [p \in Pages |-> IF p \in Connected THEN <<>> ELSE shown[p]]
  /\ UNCHANGED <<written, logPath, logFile, metaPath, ended>>

-----------------------------------------------------------------------------
\* The stream handler of a page, one action between two of its awaits and yields.

\* The run's details are read for the meta event, log_path among them.
OpenPage(p) ==
  /\ server = "up"
  /\ status[Watched] # "absent"
  /\ page[p] \in {"away", "done"}
  /\ page' = [page EXCEPT ![p] = "meta"]
  /\ metaPath' = [metaPath EXCEPT ![p] = logPath]
  /\ shown' = [shown EXCEPT ![p] = <<>>]
  /\ ended' = [ended EXCEPT ![p] = "absent"]
  /\ UNCHANGED <<vars, written, logPath, logFile, busVars>>

\* The history is copied and the queue registered without an await between them; the
\* copy is sent before the queue is read.
Subscribe(p) ==
  /\ page[p] = "meta"
  /\ Watched \in active
  /\ shown' = [shown EXCEPT ![p] = buffer]
  /\ subscribers' = subscribers \cup {p}
  /\ queue' = [queue EXCEPT ![p] = <<>>]
  /\ page' = [page EXCEPT ![p] = "following"]
  /\ UNCHANGED <<vars, written, logPath, logFile, buffer, metaPath, ended>>

\* is_active is false.
SkipBus(p) ==
  /\ page[p] = "meta"
  /\ Watched \notin active
  /\ page' = [page EXCEPT ![p] = "replaying"]
  /\ UNCHANGED <<vars, written, logPath, logFile, busVars, metaPath, shown, ended>>

SendLine(p) ==
  /\ page[p] = "following"
  /\ queue[p] # <<>>
  /\ Head(queue[p]) # Sentinel
  /\ queue' = [queue EXCEPT ![p] = Tail(@)]
  /\ shown' = [shown EXCEPT ![p] = Append(@, Head(queue[p]))]
  /\ UNCHANGED <<vars, written, logPath, logFile, buffer, subscribers, page, metaPath, ended>>

\* The sentinel breaks the loop; the finally block unsubscribes.
StopFollowing(p) ==
  /\ page[p] = "following"
  /\ queue[p] # <<>>
  /\ Head(queue[p]) = Sentinel
  /\ queue' = [queue EXCEPT ![p] = <<>>]
  /\ subscribers' = subscribers \ {p}
  /\ page' = [page EXCEPT ![p] = "replaying"]
  /\ UNCHANGED <<vars, written, logPath, logFile, buffer, metaPath, shown, ended>>

\* Nothing has been sent: the file, if its name was known when the handler began.
Replay(p) ==
  /\ page[p] = "replaying"
  /\ shown' = [shown EXCEPT ![p] = IF metaPath[p] /\ @ = <<>> THEN logFile ELSE @]
  /\ page' = [page EXCEPT ![p] = "closing"]
  /\ UNCHANGED <<vars, written, logPath, logFile, busVars, metaPath, ended>>

\* The details are read again for the end event, at which the page closes the stream.
SendEnd(p) ==
  /\ page[p] = "closing"
  /\ ended' = [ended EXCEPT ![p] = status[Watched]]
  /\ page' = [page EXCEPT ![p] = "done"]
  /\ UNCHANGED <<vars, written, logPath, logFile, busVars, metaPath, shown>>

\* The reader leaves or the connection breaks: the handler is cancelled where it is
\* suspended, and unsubscribes if it had subscribed.
LeavePage(p) ==
  /\ p \in Connected
  /\ page' = [page EXCEPT ![p] = "away"]
  /\ shown' = [shown EXCEPT ![p] = <<>>]
  /\ queue' = [queue EXCEPT ![p] = <<>>]
  /\ subscribers' = subscribers \ {p}
  /\ UNCHANGED <<vars, written, logPath, logFile, buffer, metaPath, ended>>

-----------------------------------------------------------------------------
\* The steps of Runner, with what they do to the console.

\* Variant: the subscribers are let go when stdout ends, before the outcome is written.
ExecutesClosingEarly(r) ==
  \/ MarkRunning(r) /\ NotePath(r)
  \/ (ProcessEnded(r) \/ Finish(r)) /\ CloseSubscribers(r)
  \/ /\ \/ CreateExecutor(r) \/ Begin(r) \/ Resume(r) \/ Load(r) \/ Reject(r) \/ Spawn(r)
        \/ RecordPid(r) \/ Finalize(r) \/ MarkFailed(r)
     /\ UNCHANGED consoleVars

Executes(r) ==
  \/ MarkRunning(r) /\ NotePath(r)
  \/ Finish(r) /\ CloseSubscribers(r)
  \/ /\ \/ CreateExecutor(r) \/ Begin(r) \/ Resume(r) \/ Load(r) \/ Reject(r) \/ Spawn(r)
        \/ RecordPid(r) \/ ProcessEnded(r) \/ Finalize(r) \/ MarkFailed(r)
     /\ UNCHANGED consoleVars

Happens(r) ==
  /\ StartRun(r) \/ Imported(r) \/ Fails(r) \/ CancelHandler(r) \/ ProcessExit(r)
  /\ UNCHANGED consoleVars

\* The server waits for its open streams before it shuts down.
ServerSteps ==
  \/ Shutdown /\ Connected = {} /\ UNCHANGED consoleVars
  \/ (Stopped \/ Crash) /\ ConnectionsLost
  \/ Restart /\ UNCHANGED consoleVars

Streams(p) ==
  Subscribe(p) \/ SkipBus(p) \/ SendLine(p) \/ StopFollowing(p) \/ Replay(p) \/ SendEnd(p)

ConsoleNext ==
  \/ \E r \in Runs : Executes(r) \/ Happens(r)
  \/ ServerSteps
  \/ ReadLine
  \/ \E p \in Pages : OpenPage(p) \/ Streams(p) \/ LeavePage(p)

ConsoleSpec == ConsoleInit /\ [][ConsoleNext]_allVars

\* As in Runner; and the loop resumes every stream handler that can go on.
ExecutesOn(r) == WF_allVars(Executes(r))
StreamsOn(p) == WF_allVars(Streams(p))

ConsoleFairness ==
  /\ \A r \in Runs : ExecutesOn(r)
  /\ \A p \in Pages : StreamsOn(p)

ConsoleFairSpec == ConsoleSpec /\ ConsoleFairness

-----------------------------------------------------------------------------
\* Where the variables of the console take their values.
ConsoleTypeOK ==
  /\ written \in 0..MaxLines
  /\ logPath \in BOOLEAN
  /\ logFile \in Seq(1..MaxLines) /\ Len(logFile) <= FileLimit
  /\ buffer \in Seq(1..MaxLines) /\ Len(buffer) <= BufferSize
  /\ subscribers \subseteq Pages
  /\ queue \in [Pages -> Seq(0..MaxLines)]
  /\ page \in [Pages -> {"away", "meta", "following", "replaying", "closing", "done"}]
  /\ metaPath \in [Pages -> BOOLEAN]
  /\ shown \in [Pages -> Seq(1..MaxLines)]
  /\ ended \in [Pages -> Unfinished \cup Finished \cup {"absent"}]

\* The lines a page has been sent or will find in its queue: all of the queue but the
\* sentinel, which is there once the page is no longer subscribed.
LinesFor(p) ==
  (Len(shown[p]) + Len(queue[p])) - (IF p \in subscribers THEN 0 ELSE 1)

\* What a page that follows the run has been sent and what waits in its queue are,
\* together, the output from some line on to the last line read: the switch from the
\* copied history to the queue neither repeats nor drops a line, and the page is
\* missing at most what the bounded history had dropped when it was opened.
NoGapNoRepeat ==
  \A p \in Pages : page[p] = "following" =>
    LET heard == shown[p] \o queue[p]
        n == LinesFor(p)
    IN
    /\ n \in Least(written, BufferSize)..written
    /\ \A i \in 1..n : heard[i] = (written - n) + i

\* Nobody is left listening to a run that will not speak again: a following page is
\* subscribed to a run that still has an executor, or finds the sentinel at the end of
\* its queue.
FollowersHear ==
  \A p \in Pages : page[p] = "following" =>
    \/ p \in subscribers /\ Watched \in active
    \/ /\ p \notin subscribers /\ pc[Watched] = "gone"
       /\ queue[p] # <<>> /\ queue[p][Len(queue[p])] = Sentinel

\* The bus holds nothing for a run that is over, and no queue of a page that has left.
BusIsFreed ==
  /\ Watched \notin active => buffer = <<>> /\ subscribers = {}
  /\ \A p \in subscribers : page[p] = "following"

\* A page learns how the run came out: when the sentinel ends its log, the outcome has
\* been committed, and the end event of a run whose executor has ended, which a page
\* reads in another transaction, tells one, whatever cancels come in between.
EndTellsOutcome ==
  [][\A p \in Pages :
       /\ page[p] = "following" /\ page'[p] = "replaying" => status[Watched] \in Finished
       /\ page[p] = "closing" /\ page'[p] = "done" /\ pc[Watched] = "gone" =>
            ended'[p] \in Finished]_allVars

\* The console is the stream it promises to be: a page follows from the history it was
\* given without a gap, and stops following only when the run is over and every line
\* has been sent to it.
RunPhase ==
  IF pc[Watched] \in {"none", "refreshing", "created"} THEN "new"
  ELSE IF pc[Watched] = "gone" THEN "over" ELSE "live"

PageAt(p) ==
  IF page[p] \in {"away", "meta"} THEN "out"
  ELSE IF page[p] = "following" THEN "in" ELSE "past"

\* The line after the last one sent: those that wait in the queue are the last read.
Ahead(p) == Len(queue[p]) - (IF p \in subscribers THEN 0 ELSE 1)
NextLine(p) == IF page[p] = "following" THEN (written + 1) - Ahead(p) ELSE 0

Stream == INSTANCE LineStream WITH
            Readers <- Pages, History <- BufferSize, printed <- written, phase <- RunPhase,
            at <- [p \in Pages |-> PageAt(p)], told <- shown,
            next <- [p \in Pages |-> NextLine(p)]

ImplementsStream == Stream!Spec

\* If every docupipe process and every import ends, a page that stays open is sent the
\* end event: no order of subscribing, lines, failures and the sentinel leaves it
\* listening for ever.
OutputOf(r) == WF_allVars(ProcessExit(r) /\ Happens(r))
ImportOf(r) == WF_allVars(Imported(r) /\ Happens(r))
OutputEnds == \A r \in Runs : OutputOf(r) /\ ImportOf(r)

PagesEnd ==
  OutputEnds => \A p \in Pages : page[p] = "meta" ~> page[p] \in {"done", "away"}
=============================================================================
