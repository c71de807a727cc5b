-------------------------- MODULE RunConsoleProofs --------------------------
(***************************************************************************)
(* What the log stream promises to the pages that follow a run, for any    *)
(* number of runs, pages and lines and any size of the history.  The       *)
(* console takes only steps of Runner, so everything proved of the runner  *)
(* holds under it.                                                         *)
(***************************************************************************)
EXTENDS RunConsole, RunnerLiveness

-----------------------------------------------------------------------------
\* Every executor in line or in a slot is active, whatever the server is doing.
Covered == \A r \in Runs : pc[r] = "waiting" \/ pc[r] \in InSlot => r \in active

\* A run that has not begun has printed nothing.
Early == {"none", "refreshing", "created"}

Unwritten == pc[Watched] \in Early => written = 0

\* The history is the end of the output.
BufferIsTail ==
  Watched \in active =>
    /\ Len(buffer) = Least(written, BufferSize)
    /\ \A i \in 1..Len(buffer) : buffer[i] = (written - Len(buffer)) + i

ConsoleInv ==
  /\ IInv
  /\ ConsoleTypeOK
  /\ Covered
  /\ Unwritten
  /\ BufferIsTail
  /\ NoGapNoRepeat
  /\ FollowersHear
  /\ BusIsFreed

-----------------------------------------------------------------------------
\* Each step of the console is a step of the runner or leaves it alone.
LEMMA ConsoleStepIsRunnerStep == [ConsoleNext]_allVars => [Next]_vars
<1> SUFFICES ASSUME [ConsoleNext]_allVars  PROVE [Next]_vars
  OBVIOUS
<1>1. ASSUME NEW r \in Runs, Executes(r) \/ Happens(r)
      PROVE  Next
  BY <1>1 DEF Executes, Happens, Next, Executor, Works
<1>2. ASSUME ServerSteps
      PROVE  Next
  BY <1>2 DEF ServerSteps, Next
<1>3. ASSUME ReadLine \/ \E p \in Pages : OpenPage(p) \/ Streams(p) \/ LeavePage(p)
      PROVE  UNCHANGED vars
  BY <1>3
     DEF ReadLine, OpenPage, Streams, Subscribe, SkipBus, SendLine, StopFollowing, Replay,
         SendEnd, LeavePage
<1>4. CASE UNCHANGED allVars
  BY <1>4 DEF allVars
<1> QED
  BY <1>1, <1>2, <1>3, <1>4 DEF ConsoleNext

\* The runner under the console is the runner of module Runner.
THEOREM ConsoleRuns == ConsoleSpec => Spec
<1>1. ConsoleInit => Init
  BY DEF ConsoleInit
<1> QED
  BY <1>1, ConsoleStepIsRunnerStep, PTL DEF ConsoleSpec, Spec

-----------------------------------------------------------------------------
\* What any step of the runner does to a run's place and to the set of active runs.
LEMMA RunnerMoves ==
  ASSUME IInv, Covered, [Next]_vars, NEW w \in Runs
  PROVE  /\ Covered'
         /\ pc[w] = "gone" => pc'[w] = "gone"
         /\ pc'[w] \in Early => pc[w] \in Early
         /\ w \in active' => w \in active \/ pc[w] = "created"
         /\ w \in active => \/ w \in active'
                            \/ Finish(w)
                            \/ Exit
<1> DEFINE Moves == /\ Covered'
                    /\ pc[w] = "gone" => pc'[w] = "gone"
                    /\ pc'[w] \in Early => pc[w] \in Early
                    /\ w \in active' => w \in active \/ pc[w] = "created"
                    /\ w \in active => w \in active' \/ Finish(w) \/ Exit
<1>0. /\ TypeOK /\ NoLostWakeup /\ DOMAIN pc = Runs /\ Len(waiters) \in Nat
      /\ permits \in Nat
  BY DEF IInv, TypeOK
<1>1. ASSUME NEW r \in Runs, OuterStep(r)
      PROVE  Moves
  <2>1. \/ pc[r] = "none" /\ pc' = [pc EXCEPT ![r] = "refreshing"]
        \/ pc[r] = "refreshing" /\ pc' = [pc EXCEPT ![r] = "created"]
        \/ pc[r] = "refreshing" /\ pc' = [pc EXCEPT ![r] = "gone"]
    BY <1>1 DEF OuterStep, StartRun, CreateExecutor, RefreshRaises
  <2>2. UNCHANGED active
    BY <1>1, OuterStaysElsewhere
  <2> QED
    BY <1>0, <2>1, <2>2 DEF Covered, Early, InSlot
<1>2. ASSUME NEW r \in Runs, InnerStep(r)
      PROVE  Moves
  <2>1. StaysInSlot(r) /\ UNCHANGED active
    BY <1>2, InnerStaysInSlot
  <2> QED
    BY <1>0, <2>1 DEF StaysInSlot, Covered, Early, InSlot
<1>3. ASSUME NEW r \in Runs, Begin(r)
      PROVE  Moves
  <2>1. /\ pc[r] = "created" /\ active' = active \cup {r}
        /\ \E to \in {"loading", "waiting"} : pc' = [pc EXCEPT ![r] = to]
    BY <1>3 DEF Begin
  <2> QED
    BY <1>0, <2>1 DEF Covered, Early, InSlot
<1>4. ASSUME NEW r \in Runs, Resume(r) \/ Finish(r)
      PROVE  Moves
  <2>1. /\ Least(permits, Len(waiters)) \in 0..Len(waiters)
        /\ Least(1, Len(waiters)) \in 0..Len(waiters)
    BY <1>0 DEF Least
  <2>2. \E n \in 0..Len(waiters), to \in {"loading", "gone"} :
          /\ pc' = [q \in Runs |-> IF q = r THEN to
                                  ELSE IF q \in Woken(n) THEN "granted" ELSE pc[q]]
          /\ active' = IF to = "gone" THEN active \ {r} ELSE active
          /\ to = "gone" => Finish(r)
    BY <1>4, <2>1 DEF Resume, Finish
  <2>3. PICK n \in 0..Len(waiters), to \in {"loading", "gone"} :
          /\ pc' = [q \in Runs |-> IF q = r THEN to
                                  ELSE IF q \in Woken(n) THEN "granted" ELSE pc[q]]
          /\ active' = IF to = "gone" THEN active \ {r} ELSE active
          /\ to = "gone" => Finish(r)
    BY <2>2
  <2>4. Woken(n) \in SUBSET {q \in Runs : pc[q] = "waiting"}
    BY <1>0, WakeProperties
  <2>5. pc[r] \in {"granted", "committed", "closing"}
    BY <1>4 DEF Resume, Finish
  <2> HIDE DEF Finish
  <2> QED
    BY <2>3, <2>4, <2>5 DEF Covered, Early, InSlot
<1>5. ASSUME NEW r \in Runs, CancelHandler(r) \/ ProcessExit(r)
      PROVE  Moves
  <2>1. UNCHANGED <<pc, active>>
    BY <1>5 DEF CancelHandler, CancelRead, CancelSignal, CancelCommit, CancelRaises, ProcessExit
  <2> QED
    BY <2>1 DEF Covered
<1>6. CASE Shutdown
  <2>1. UNCHANGED active
    BY <1>6 DEF Shutdown
  <2>2. \A q \in Runs : /\ pc'[q] \in InSlot \cup {"waiting"} => pc[q] \in InSlot
                        /\ pc[q] = "gone" => pc'[q] = "gone"
                        /\ pc'[q] \in Early => pc[q] \in Early
    BY <1>6 DEF Shutdown, Interrupted, InTry, InSlot, Early
  <2> QED
    BY <2>1, <2>2 DEF Covered
<1>7. CASE Exit
  BY <1>7 DEF Exit, Covered, Early, InSlot
<1>8. CASE Restart \/ UNCHANGED vars
  <2>1. UNCHANGED <<pc, active>>
    BY <1>8 DEF Restart, vars
  <2> QED
    BY <2>1 DEF Covered
<1> QED
  BY <1>1, <1>2, <1>3, <1>4, <1>5, <1>6, <1>7, <1>8, NextCases

-----------------------------------------------------------------------------
\* The last entries of a sequence.
LEMMA LastOfProperties ==
  ASSUME NEW S, NEW s \in Seq(S), NEW n \in Nat
  PROVE  /\ LastOf(n, s) \in Seq(S)
         /\ Len(LastOf(n, s)) = Least(n, Len(s))
         /\ \A i \in 1..Least(n, Len(s)) : LastOf(n, s)[i] = s[(Len(s) - Least(n, Len(s))) + i]
<1> DEFINE L == Len(s)
           m == Least(n, L)
           from == (L + 1) - m
<1>1. L \in Nat /\ m \in 0..L
  BY DEF Least
<1>2. from \in 1..(L + 1) /\ (L - from) + 1 = m
  BY <1>1
<1>3. LastOf(n, s) = SubSeq(s, from, L)
  BY <1>1 DEF LastOf
<1> HIDE DEF m, from
<1>4. /\ SubSeq(s, from, L) \in Seq(S)
      /\ Len(SubSeq(s, from, L)) = m
      /\ \A i \in 1..m : SubSeq(s, from, L)[i] = s[(from + i) - 1]
  BY <1>1, <1>2, SubSeqProperties
<1>5. \A i \in 1..m : (from + i) - 1 = (L - m) + i
  BY <1>1, <1>2 DEF from
<1> QED
  BY <1>3, <1>4, <1>5 DEF m

\* Where the variables of the console take their values, step by step.
LEMMA ConsoleTypeStep ==
  ASSUME ConsoleInv, [ConsoleNext]_allVars
  PROVE  ConsoleTypeOK'
<1>0. /\ ConsoleTypeOK /\ TypeOK
      /\ MaxLines \in Nat /\ BufferSize \in Nat \ {0} /\ FileLimit \in Nat \ {0}
  BY SizesAssumption DEF ConsoleInv, IInv
<1>1. ASSUME UNCHANGED consoleVars
      PROVE  ConsoleTypeOK'
  BY <1>0, <1>1 DEF ConsoleTypeOK, consoleVars, busVars, pageVars
<1>2. ASSUME NEW r \in Runs, NotePath(r)
      PROVE  ConsoleTypeOK'
  BY <1>0, <1>2 DEF ConsoleTypeOK, NotePath, busVars, pageVars
<1>3. ASSUME NEW r \in Runs, CloseSubscribers(r)
      PROVE  ConsoleTypeOK'
  <2>1. CASE r = Watched
    <3>1. buffer' = <<>> /\ subscribers' = {}
      BY <1>3, <2>1 DEF CloseSubscribers
    <3>2. queue' \in [Pages -> Seq(0..MaxLines)]
      <4>1. \A q \in Pages : Append(queue[q], Sentinel) \in Seq(0..MaxLines)
        BY <1>0, AppendProperties DEF ConsoleTypeOK, Sentinel
      <4> QED
        BY <1>0, <1>3, <2>1, <4>1 DEF CloseSubscribers, ConsoleTypeOK
    <3>3. buffer' \in Seq(1..MaxLines) /\ Len(buffer') <= BufferSize
      BY <1>0, <3>1, EmptySeq
    <3> QED
      BY <1>0, <1>3, <3>1, <3>2, <3>3 DEF CloseSubscribers, ConsoleTypeOK, pageVars
  <2>2. CASE r # Watched
    BY <1>1, <1>3, <2>2 DEF CloseSubscribers, consoleVars
  <2> QED
    BY <2>1, <2>2
<1>4. CASE ReadLine
  <2> DEFINE line == written + 1
             file == Append(logFile, line)
  <2>1. line \in 1..MaxLines
    BY <1>0, <1>4 DEF ReadLine, ConsoleTypeOK
  <2>2. /\ file \in Seq(1..MaxLines) /\ Len(file) = Len(logFile) + 1 /\ Len(logFile) \in Nat
        /\ Append(buffer, line) \in Seq(1..MaxLines)
    BY <1>0, <2>1, AppendProperties DEF ConsoleTypeOK
  <2>3. logFile' \in Seq(1..MaxLines) /\ Len(logFile') <= FileLimit
    <3>1. CASE Len(file) > FileLimit
      <4> DEFINE half == FileLimit \div 2
      <4>1. half \in 0..FileLimit /\ half <= Len(file)
        BY <1>0, <3>1, <2>2
      <4>2. logFile' = SubSeq(file, 1, half)
        BY <1>4, <3>1 DEF ReadLine
      <4> HIDE DEF half
      <4>3. half \in Nat /\ \A i \in 1..half : file[i] \in 1..MaxLines
        BY <2>2, <4>1, <1>0, ElementOfSeq
      <4> HIDE DEF file
      <4>4. /\ SubSeq(file, 1, half) \in Seq(1..MaxLines)
            /\ Len(SubSeq(file, 1, half)) = IF 1 <= half THEN (half - 1) + 1 ELSE 0
        BY <4>3, SubSeqProperties
      <4> QED
        BY <1>0, <4>1, <4>2, <4>4
    <3>2. CASE ~(Len(file) > FileLimit)
      BY <1>0, <1>4, <2>2, <3>2 DEF ReadLine
    <3> QED
      BY <3>1, <3>2
  <2>4. buffer' \in Seq(1..MaxLines) /\ Len(buffer') <= BufferSize
    <3>1. Len(Append(buffer, line)) \in Nat
      BY <2>2
    <3>2. Least(BufferSize, Len(Append(buffer, line))) <= BufferSize
      BY <1>0, <3>1 DEF Least
    <3>3. buffer' = LastOf(BufferSize, Append(buffer, line))
      BY <1>4 DEF ReadLine
    <3> QED
      BY <1>0, <2>2, <3>2, <3>3, LastOfProperties
  <2>5. queue' \in [Pages -> Seq(0..MaxLines)]
    <3>1. \A q \in Pages : Append(queue[q], line) \in Seq(0..MaxLines)
      BY <1>0, <2>1, AppendProperties DEF ConsoleTypeOK
    <3> QED
      BY <1>0, <1>4, <3>1 DEF ReadLine, ConsoleTypeOK
  <2>6. written' \in 0..MaxLines /\ UNCHANGED <<logPath, subscribers, pageVars>>
    BY <1>0, <1>4, <2>1 DEF ReadLine
  <2> QED
    BY <1>0, <2>3, <2>4, <2>5, <2>6 DEF ConsoleTypeOK, pageVars
<1>5. CASE ConnectionsLost
  <2>1. <<>> \in Seq(1..MaxLines) /\ <<>> \in Seq(0..MaxLines) /\ Len(<<>>) <= BufferSize
    BY <1>0, EmptySeq
  <2> QED
    BY <1>0, <1>5, <2>1 DEF ConnectionsLost, ConsoleTypeOK
<1>6. ASSUME NEW p \in Pages, OpenPage(p) \/ LeavePage(p) \/ Streams(p)
      PROVE  ConsoleTypeOK'
  <2>0. <<>> \in Seq(1..MaxLines) /\ <<>> \in Seq(0..MaxLines)
    OBVIOUS
  <2>1. CASE OpenPage(p)
    BY <1>0, <2>0, <2>1 DEF OpenPage, ConsoleTypeOK, busVars
  <2>2. CASE LeavePage(p)
    BY <1>0, <2>0, <2>2 DEF LeavePage, ConsoleTypeOK
  <2>6. CASE Subscribe(p)
    BY <1>0, <2>0, <2>6 DEF Subscribe, ConsoleTypeOK
  <2>7. CASE SkipBus(p)
    BY <1>0, <2>7 DEF SkipBus, ConsoleTypeOK, busVars
  <2>3. CASE SendLine(p)
    <3>1. queue[p] \in Seq(0..MaxLines) /\ queue[p] # <<>> /\ Head(queue[p]) # Sentinel
      BY <1>0, <2>3 DEF SendLine, ConsoleTypeOK
    <3>2. Tail(queue[p]) \in Seq(0..MaxLines) /\ Head(queue[p]) \in 1..MaxLines
      <4>1. Tail(queue[p]) \in Seq(0..MaxLines) /\ Head(queue[p]) \in 0..MaxLines
        BY <3>1, HeadTailProperties
      <4> QED
        BY <1>0, <3>1, <4>1 DEF Sentinel
    <3>3. Append(shown[p], Head(queue[p])) \in Seq(1..MaxLines)
      BY <1>0, <3>2, AppendProperties DEF ConsoleTypeOK
    <3> QED
      BY <1>0, <2>3, <3>2, <3>3 DEF SendLine, ConsoleTypeOK
  <2>4. CASE StopFollowing(p)
    BY <1>0, <2>0, <2>4 DEF StopFollowing, ConsoleTypeOK
  <2>5. CASE Replay(p)
    BY <1>0, <2>5 DEF Replay, ConsoleTypeOK, busVars
  <2>8. CASE SendEnd(p)
    <3>1. status[Watched] \in Unfinished \cup Finished \cup {"absent"}
      BY <1>0, WatchedAssumption DEF TypeOK
    <3> QED
      BY <1>0, <2>8, <3>1 DEF SendEnd, ConsoleTypeOK, busVars
  <2> QED
    BY <1>6, <2>1, <2>2, <2>3, <2>4, <2>5, <2>6, <2>7, <2>8 DEF Streams
<1> QED
  BY <1>1, <1>2, <1>3, <1>4, <1>5, <1>6
     DEF ConsoleNext, Executes, Happens, ServerSteps, allVars


\* The head of a queue moved to the end of what was taken out of it.
LEMMA HeadMoves ==
  ASSUME NEW S, NEW a \in Seq(S), NEW b \in Seq(S), b # <<>>
  PROVE  /\ Append(a, Head(b)) \o Tail(b) = a \o b
         /\ Len(Append(a, Head(b))) + Len(Tail(b)) = Len(a) + Len(b)
         /\ Head(b) # b[Len(b)] => Tail(b) # <<>> /\ Tail(b)[Len(Tail(b))] = b[Len(b)]
<1> DEFINE h == Head(b)
           t == Tail(b)
<1>1. /\ h \in S /\ t \in Seq(S) /\ Len(t) = Len(b) - 1 /\ Len(b) \in Nat \ {0}
      /\ \A i \in 1..Len(t) : t[i] = b[i + 1]
  BY HeadTailProperties, EmptySeq
<1>2. h = b[1]
  OBVIOUS
<1>3. /\ <<h>> \in Seq(S) /\ Len(<<h>>) = 1 /\ <<h>>[1] = h
  BY <1>1
<1>4. Len(a) \in Nat
  OBVIOUS
<1> HIDE DEF h, t
<1>5. <<h>> \o t = b
  <2> DEFINE c == <<h>> \o t
  <2>1. /\ c \in Seq(S) /\ Len(c) = Len(b)
        /\ \A i \in 1..Len(b) : c[i] = IF i <= 1 THEN h ELSE t[i - 1]
    BY <1>1, <1>3, ConcatProperties
  <2>2. ASSUME NEW i \in 1..Len(b)
        PROVE  c[i] = b[i]
    <3>1. CASE i = 1
      BY <1>2, <2>1, <3>1
    <3>2. CASE i # 1
      <4>1. i - 1 \in 1..Len(t) /\ (i - 1) + 1 = i /\ ~(i <= 1)
        BY <1>1, <3>2
      <4>2. t[i - 1] = b[(i - 1) + 1]
        BY <1>1, <4>1, Zenon
      <4> QED
        BY <2>1, <4>1, <4>2, Zenon
    <3> QED
      BY <3>1, <3>2
  <2> HIDE DEF c
  <2>3. c = b
    BY <2>1, <2>2, SeqEqual
  <2> QED
    BY <2>3 DEF c
<1>6. Append(a, h) = a \o <<h>>
  BY <1>1, AppendIsConcat
<1>7. (a \o <<h>>) \o t = a \o (<<h>> \o t)
  BY <1>1, <1>3, ConcatAssociative
<1>8. Len(Append(a, h)) = Len(a) + 1
  BY <1>1, AppendProperties
<1>9. ASSUME h # b[Len(b)]
      PROVE  t # <<>> /\ t[Len(t)] = b[Len(b)]
  <2>1. Len(b) # 1
    BY <1>2, <1>9
  <2>2. Len(t) \in 1..Len(t) /\ Len(t) + 1 = Len(b)
    BY <1>1, <2>1
  <2>3. t[Len(t)] = b[Len(t) + 1]
    BY <1>1, <2>2, Zenon
  <2>4. t # <<>>
    BY <1>1, <2>2, EmptySeq
  <2> QED
    BY <2>2, <2>3, <2>4
<1> QED
  BY <1>1, <1>4, <1>5, <1>6, <1>7, <1>8, <1>9 DEF h, t

\* What comes after a concatenation's old end when its second part grows.
LEMMA ConcatAppend ==
  ASSUME NEW S, NEW a \in Seq(S), NEW b \in Seq(S), NEW x \in S
  PROVE  /\ \A i \in 1..(Len(a) + Len(b)) : (a \o Append(b, x))[i] = (a \o b)[i]
         /\ (a \o Append(b, x))[Len(a) + Len(b) + 1] = x
<1>1. /\ Append(b, x) \in Seq(S) /\ Len(Append(b, x)) = Len(b) + 1
      /\ Append(b, x)[Len(b) + 1] = x
      /\ \A j \in 1..Len(b) : Append(b, x)[j] = b[j]
  BY AppendProperties
<1> DEFINE c == Append(b, x)
<1> HIDE DEF c
<1>2. c \in Seq(S) /\ Len(c) = Len(b) + 1 /\ c[Len(b) + 1] = x
      /\ \A j \in 1..Len(b) : c[j] = b[j]
  BY <1>1 DEF c
<1>3. \A i \in 1..(Len(a) + Len(c)) :
        (a \o c)[i] = IF i <= Len(a) THEN a[i] ELSE c[i - Len(a)]
  BY <1>2, ConcatProperties
<1>4. \A i \in 1..(Len(a) + Len(b)) :
        (a \o b)[i] = IF i <= Len(a) THEN a[i] ELSE b[i - Len(a)]
  BY ConcatProperties
<1>5. Len(a) \in Nat /\ Len(b) \in Nat
  OBVIOUS
<1>6. ASSUME NEW i \in 1..(Len(a) + Len(b))
      PROVE  (a \o c)[i] = (a \o b)[i]
  <2>1. CASE i <= Len(a)
    BY <1>2, <1>3, <1>4, <1>5, <2>1
  <2>2. CASE ~(i <= Len(a))
    <3>1. i - Len(a) \in 1..Len(b) /\ i \in 1..(Len(a) + Len(c))
      BY <1>2, <1>5, <2>2
    <3>2. (a \o c)[i] = c[i - Len(a)] /\ (a \o b)[i] = b[i - Len(a)]
      BY <1>3, <1>4, <2>2, <3>1, Zenon
    <3>3. c[i - Len(a)] = b[i - Len(a)]
      BY <1>2, <3>1, Zenon
    <3> QED
      BY <3>2, <3>3, Zenon
  <2> QED
    BY <2>1, <2>2
<1>7. (a \o c)[Len(a) + Len(b) + 1] = x
  <2>1. /\ Len(a) + Len(b) + 1 \in 1..(Len(a) + Len(c))
        /\ ~(Len(a) + Len(b) + 1 <= Len(a))
        /\ (Len(a) + Len(b) + 1) - Len(a) = Len(b) + 1
    BY <1>2, <1>5
  <2> QED
    BY <1>2, <1>3, <2>1
<1> QED
  BY <1>6, <1>7 DEF c

-----------------------------------------------------------------------------
\* Steps that touch neither the history, nor the queues, nor a page, and leave the run
\* that is watched active.
LEMMA QuietStep ==
  ASSUME ConsoleInv, [Next]_vars, Watched \in active => Watched \in active',
         UNCHANGED <<written, busVars, pageVars>>
  PROVE  Unwritten' /\ BufferIsTail' /\ NoGapNoRepeat' /\ FollowersHear' /\ BusIsFreed'
<1>0. /\ IInv /\ Covered /\ Unwritten /\ BufferIsTail /\ NoGapNoRepeat /\ FollowersHear
      /\ BusIsFreed /\ ConsoleTypeOK
      /\ BufferSize \in Nat /\ written \in Nat
  BY SizesAssumption DEF ConsoleInv, ConsoleTypeOK
<1>1. /\ pc[Watched] = "gone" => pc'[Watched] = "gone"
      /\ pc'[Watched] \in Early => pc[Watched] \in Early
      /\ Watched \in active' => Watched \in active \/ pc[Watched] = "created"
      /\ Watched \in active => Watched \in active'
  BY <1>0, WatchedAssumption, RunnerMoves, Zenon
<1>2. UNCHANGED <<written, buffer, subscribers, queue, page, shown>>
  BY DEF busVars, pageVars
<1>3. Unwritten'
  BY <1>0, <1>1, <1>2 DEF Unwritten
<1>4. BufferIsTail'
  <2>1. CASE Watched \in active
    BY <1>0, <1>2, <2>1 DEF BufferIsTail
  <2>2. CASE Watched \notin active /\ Watched \in active'
    <3>1. written = 0 /\ buffer = <<>>
      BY <1>0, <1>1, <2>2 DEF Unwritten, Early, BusIsFreed
    <3> QED
      BY <1>0, <1>2, <3>1 DEF BufferIsTail, Least
  <2>3. CASE Watched \notin active'
    BY <2>3 DEF BufferIsTail
  <2> QED
    BY <2>1, <2>2, <2>3
<1>5. NoGapNoRepeat'
  BY <1>0, <1>2 DEF NoGapNoRepeat, LinesFor
<1>6. FollowersHear'
  BY <1>0, <1>1, <1>2 DEF FollowersHear
<1>7. BusIsFreed'
  BY <1>0, <1>1, <1>2 DEF BusIsFreed
<1> QED
  BY <1>3, <1>4, <1>5, <1>6, <1>7

\* The last step of the watched run: every subscriber gets the sentinel.
LEMMA CloseStep ==
  ASSUME ConsoleInv, [Next]_vars, Finish(Watched), CloseSubscribers(Watched)
  PROVE  Unwritten' /\ BufferIsTail' /\ NoGapNoRepeat' /\ FollowersHear' /\ BusIsFreed'
<1>0. /\ IInv /\ Unwritten /\ NoGapNoRepeat /\ FollowersHear /\ BusIsFreed /\ ConsoleTypeOK
      /\ Watched \in Runs
  BY WatchedAssumption DEF ConsoleInv
<1>1. /\ pc'[Watched] = "gone" /\ Watched \notin active'
  BY <1>0 DEF Finish
<1>2. /\ queue' = [p \in Pages |-> IF p \in subscribers
                                   THEN Append(queue[p], Sentinel) ELSE queue[p]]
      /\ subscribers' = {} /\ buffer' = <<>>
      /\ UNCHANGED <<written, page, shown>>
  BY DEF CloseSubscribers, pageVars
<1>3. ASSUME NEW p \in Pages
      PROVE  /\ queue[p] \in Seq(0..MaxLines) /\ shown[p] \in Seq(1..MaxLines)
             /\ Len(queue[p]) \in Nat /\ Len(shown[p]) \in Nat
             /\ Len(Append(queue[p], Sentinel)) = Len(queue[p]) + 1
             /\ Append(queue[p], Sentinel)[Len(queue[p]) + 1] = Sentinel
             /\ \A i \in 1..Len(queue[p]) : Append(queue[p], Sentinel)[i] = queue[p][i]
  BY <1>0 DEF ConsoleTypeOK
<1>4. Unwritten' /\ BufferIsTail' /\ BusIsFreed'
  BY <1>1, <1>2 DEF Unwritten, Early, BufferIsTail, BusIsFreed
<1>5. ASSUME NEW p \in Pages, page'[p] = "following"
      PROVE  /\ p \notin subscribers' /\ pc'[Watched] = "gone"
             /\ queue'[p] # <<>> /\ queue'[p][Len(queue'[p])] = Sentinel
  <2>1. CASE p \in subscribers
    <3>1. queue'[p] = Append(queue[p], Sentinel)
      BY <1>2, <2>1
    <3>2. Len(queue'[p]) = Len(queue[p]) + 1 /\ queue'[p][Len(queue'[p])] = Sentinel
      BY <1>3, <3>1
    <3>3. queue'[p] # <<>>
      BY <1>3, <3>2
    <3> QED
      BY <1>1, <1>2, <3>2, <3>3
  <2>2. CASE p \notin subscribers
    BY <1>0, <1>1, <1>2, <1>5, <2>2 DEF FollowersHear
  <2> QED
    BY <2>1, <2>2
<1>6. FollowersHear'
  BY <1>5 DEF FollowersHear
<1>7. NoGapNoRepeat'
  <2> SUFFICES ASSUME NEW p \in Pages, page'[p] = "following"
               PROVE  LET heard == shown'[p] \o queue'[p]
                          n == LinesFor(p)'
                      IN  /\ n \in Least(written, BufferSize)..written
                          /\ \A i \in 1..n : heard[i] = (written - n) + i
    BY <1>2 DEF NoGapNoRepeat
  <2>0. /\ LinesFor(p) \in Least(written, BufferSize)..written
        /\ \A i \in 1..LinesFor(p) : (shown[p] \o queue[p])[i] = (written - LinesFor(p)) + i
    BY <1>0, <1>2 DEF NoGapNoRepeat
  <2>1. CASE p \in subscribers
    <3>1. queue'[p] = Append(queue[p], Sentinel)
      BY <1>2, <2>1
    <3>2. Len(queue'[p]) = Len(queue[p]) + 1
      BY <1>3, <3>1
    <3>3. LinesFor(p)' = LinesFor(p) /\ LinesFor(p) = Len(shown[p]) + Len(queue[p])
      <4>1. LinesFor(p)' = (Len(shown[p]) + (Len(queue[p]) + 1)) - 1
        BY <1>2, <3>2 DEF LinesFor
      <4>2. LinesFor(p) = (Len(shown[p]) + Len(queue[p])) - 0
        BY <2>1 DEF LinesFor
      <4>3. Len(shown[p]) \in Nat /\ Len(queue[p]) \in Nat
        BY <1>3
      <4> DEFINE k == Len(shown[p])
                 l == Len(queue[p])
      <4>4. (k + (l + 1)) - 1 = k + l /\ (k + l) - 0 = k + l
        <5> HIDE DEF k, l
        <5>1. k \in Nat /\ l \in Nat
          BY <4>3 DEF k, l
        <5> QED
          BY <5>1
      <4> QED
        BY <4>1, <4>2, <4>4, Zenon
    <3>4. \A i \in 1..(Len(shown[p]) + Len(queue[p])) :
            (shown[p] \o Append(queue[p], Sentinel))[i] = (shown[p] \o queue[p])[i]
      <4>1. /\ shown[p] \in Seq(0..MaxLines) /\ queue[p] \in Seq(0..MaxLines)
            /\ Sentinel \in 0..MaxLines
        <5>1. (1..MaxLines) \subseteq (0..MaxLines)
          BY SizesAssumption
        <5> QED
          BY <1>3, <5>1, SeqMonotonic, SizesAssumption DEF Sentinel
      <4> DEFINE a == shown[p]
                 b == queue[p]
                 S == 0..MaxLines
      <4>2. a \in Seq(S) /\ b \in Seq(S) /\ Sentinel \in S
        BY <4>1
      <4> HIDE DEF a, b, S
      <4>3. \A i \in 1..(Len(a) + Len(b)) : (a \o Append(b, Sentinel))[i] = (a \o b)[i]
        BY <4>2, ConcatAppend
      <4> QED
        BY <4>3 DEF a, b
    <3> QED
      BY <1>2, <2>0, <3>1, <3>3, <3>4
  <2>2. CASE p \notin subscribers
    <3>1. queue'[p] = queue[p] /\ LinesFor(p)' = LinesFor(p)
      BY <1>2, <2>2 DEF LinesFor
    <3> QED
      BY <1>2, <2>0, <3>1
  <2> QED
    BY <2>1, <2>2
<1> QED
  BY <1>4, <1>6, <1>7

\* A line read: every subscriber's queue grows with the output.
LEMMA LineStep ==
  ASSUME ConsoleInv, ReadLine
  PROVE  Unwritten' /\ BufferIsTail' /\ NoGapNoRepeat' /\ FollowersHear' /\ BusIsFreed'
<1> DEFINE line == written + 1
           L == Len(buffer)
<1>0. /\ Covered /\ Unwritten /\ BufferIsTail /\ NoGapNoRepeat /\ FollowersHear /\ BusIsFreed
      /\ ConsoleTypeOK
      /\ Watched \in Runs /\ MaxLines \in Nat /\ BufferSize \in Nat \ {0}
      /\ written \in Nat /\ buffer \in Seq(1..MaxLines) /\ L \in Nat
  BY WatchedAssumption, SizesAssumption DEF ConsoleInv, ConsoleTypeOK
<1>1. /\ pc[Watched] = "streaming" /\ written' = line /\ line \in 1..MaxLines
      /\ buffer' = LastOf(BufferSize, Append(buffer, line))
      /\ queue' = [p \in Pages |-> IF p \in subscribers THEN Append(queue[p], line) ELSE queue[p]]
      /\ UNCHANGED <<pc, active, subscribers, page, shown>>
  BY <1>0 DEF ReadLine, pageVars, vars
<1>2. Watched \in active
  BY <1>0, <1>1 DEF Covered, InSlot
<1>3. Unwritten'
  BY <1>1 DEF Unwritten, Early
<1>4. BusIsFreed'
  BY <1>0, <1>1, <1>2 DEF BusIsFreed
<1>5. BufferIsTail'
  <2> DEFINE s == Append(buffer, line)
             m == Least(BufferSize, Len(s))
  <2>1. /\ s \in Seq(1..MaxLines) /\ Len(s) = L + 1
        /\ s[L + 1] = line /\ \A i \in 1..L : s[i] = buffer[i]
    BY <1>0, <1>1
  <2>2. L = Least(written, BufferSize) /\ \A i \in 1..L : buffer[i] = (written - L) + i
    BY <1>0, <1>2 DEF BufferIsTail
  <2>3. m = Least(line, BufferSize) /\ m \in 0..Len(s)
    BY <1>0, <2>1, <2>2 DEF Least
  <2>4. \A i \in 1..Len(s) : s[i] = (line - Len(s)) + i
    <3> HIDE DEF s
    <3> TAKE i \in 1..Len(s)
    <3>1. CASE i = L + 1
      BY <1>0, <2>1, <3>1
    <3>2. CASE i # L + 1
      <4>1. i \in 1..L
        BY <1>0, <2>1, <3>2
      <4>2. s[i] = (written - L) + i
        BY <2>1, <2>2, <4>1
      <4> QED
        BY <1>0, <2>1, <4>1, <4>2
    <3> QED
      BY <3>1, <3>2
  <2>5. /\ Len(buffer') = m
        /\ \A i \in 1..m : buffer'[i] = s[(Len(s) - m) + i]
    <3>1. BufferSize \in Nat
      BY <1>0
    <3> HIDE DEF s
    <3> QED
      BY <1>1, <2>1, <3>1, LastOfProperties DEF s
  <2> HIDE DEF s, m
  <2>6. \A i \in 1..m : buffer'[i] = (line - m) + i
    <3> TAKE i \in 1..m
    <3>1. (Len(s) - m) + i \in 1..Len(s)
      BY <1>0, <2>1, <2>3
    <3>2. buffer'[i] = (line - Len(s)) + ((Len(s) - m) + i)
      BY <2>4, <2>5, <3>1
    <3> QED
      BY <1>0, <2>1, <2>3, <3>2
  <2> QED
    BY <1>1, <2>3, <2>5, <2>6 DEF BufferIsTail
<1>6. ASSUME NEW p \in Pages, page'[p] = "following"
      PROVE  /\ p \in subscribers /\ queue'[p] = Append(queue[p], line)
             /\ queue[p] \in Seq(0..MaxLines) /\ shown[p] \in Seq(1..MaxLines)
             /\ LinesFor(p) = Len(shown[p]) + Len(queue[p])
             /\ LinesFor(p)' = LinesFor(p) + 1
  <2>1. p \in subscribers
    BY <1>0, <1>1, <1>6 DEF FollowersHear
  <2>2. queue[p] \in Seq(0..MaxLines) /\ shown[p] \in Seq(1..MaxLines)
    BY <1>0 DEF ConsoleTypeOK
  <2>3. queue'[p] = Append(queue[p], line) /\ Len(queue'[p]) = Len(queue[p]) + 1
    BY <1>1, <2>1, <2>2
  <2>4. LinesFor(p) = (Len(shown[p]) + Len(queue[p])) - 0
    BY <2>1 DEF LinesFor
  <2>5. LinesFor(p)' = (Len(shown[p]) + (Len(queue[p]) + 1)) - 0
    BY <1>1, <2>1, <2>3 DEF LinesFor
  <2> DEFINE k == Len(shown[p])
             l == Len(queue[p])
  <2>6. (k + (l + 1)) - 0 = ((k + l) - 0) + 1 /\ (k + l) - 0 = k + l
    <3>1. k \in Nat /\ l \in Nat
      BY <2>2
    <3> HIDE DEF k, l
    <3> QED
      BY <3>1
  <2> QED
    BY <2>1, <2>2, <2>3, <2>4, <2>5, <2>6, Zenon
<1>7. FollowersHear'
  BY <1>1, <1>2, <1>6 DEF FollowersHear
<1>8. NoGapNoRepeat'
  <2> SUFFICES ASSUME NEW p \in Pages, page'[p] = "following"
               PROVE  /\ LinesFor(p)' \in Least(line, BufferSize)..line
                      /\ \A i \in 1..LinesFor(p)' :
                           (shown[p] \o queue'[p])[i] = (line - LinesFor(p)') + i
    BY <1>1 DEF NoGapNoRepeat
  <2> DEFINE n == Len(shown[p]) + Len(queue[p])
  <2>1. /\ LinesFor(p)' = n + 1 /\ LinesFor(p) = n /\ queue'[p] = Append(queue[p], line)
        /\ queue[p] \in Seq(0..MaxLines) /\ shown[p] \in Seq(1..MaxLines)
    BY <1>6
  <2>2. /\ n \in Least(written, BufferSize)..written
        /\ \A i \in 1..n : (shown[p] \o queue[p])[i] = (written - n) + i
    BY <1>0, <1>1, <2>1 DEF NoGapNoRepeat
  <2>3. n \in Nat /\ n + 1 \in Least(line, BufferSize)..line
    <3>1. Len(shown[p]) \in Nat /\ Len(queue[p]) \in Nat
      BY <2>1
    <3> DEFINE k == Len(shown[p])
               l == Len(queue[p])
    <3>2. k + l \in Nat
      <4> HIDE DEF k, l
      <4>1. k \in Nat /\ l \in Nat
        BY <3>1 DEF k, l
      <4> QED
        BY <4>1
    <3>3. n \in Nat
      BY <3>2, Zenon
    <3> HIDE DEF n
    <3> QED
      BY <1>0, <2>2, <3>3 DEF Least
  <2>4. /\ (shown[p] \o queue'[p])[n + 1] = line
        /\ \A i \in 1..n : (shown[p] \o queue'[p])[i] = (shown[p] \o queue[p])[i]
    <3>1. /\ shown[p] \in Seq(0..MaxLines) /\ queue[p] \in Seq(0..MaxLines)
          /\ line \in 0..MaxLines
      <4>1. (1..MaxLines) \subseteq (0..MaxLines)
        BY <1>0
      <4> QED
        BY <1>1, <2>1, <4>1, SeqMonotonic
    <3>2. /\ (shown[p] \o Append(queue[p], line))[n + 1] = line
          /\ \A i \in 1..n : (shown[p] \o Append(queue[p], line))[i] = (shown[p] \o queue[p])[i]
      <4> DEFINE a == shown[p]
                 b == queue[p]
                 S == 0..MaxLines
      <4>1. a \in Seq(S) /\ b \in Seq(S) /\ line \in S
        BY <3>1
      <4> HIDE DEF a, b, S, line
      <4>2. /\ (a \o Append(b, line))[Len(a) + Len(b) + 1] = line
            /\ \A i \in 1..(Len(a) + Len(b)) : (a \o Append(b, line))[i] = (a \o b)[i]
        BY <4>1, ConcatAppend
      <4> QED
        BY <4>2 DEF a, b
    <3> QED
      BY <2>1, <3>2, Zenon
  <2> HIDE DEF n
  <2>5. ASSUME NEW i \in 1..(n + 1)
        PROVE  (shown[p] \o queue'[p])[i] = (line - (n + 1)) + i
    <3>1. CASE i = n + 1
      <4>1. (shown[p] \o queue'[p])[i] = line
        BY <2>4, <3>1, Zenon
      <4>2. line = (line - (n + 1)) + i
        BY <1>0, <2>3, <3>1
      <4> QED
        BY <4>1, <4>2, Zenon
    <3>2. CASE i # n + 1
      <4>1. i \in 1..n
        BY <2>3, <3>2
      <4>2. (shown[p] \o queue'[p])[i] = (written - n) + i
        BY <2>2, <2>4, <4>1
      <4> QED
        BY <1>0, <2>3, <4>1, <4>2
    <3> QED
      BY <3>1, <3>2
  <2> QED
    BY <2>1, <2>3, <2>5
<1> QED
  BY <1>3, <1>4, <1>5, <1>7, <1>8

-----------------------------------------------------------------------------
\* A step of the stream handler of a page, or the page's departure.
LEMMA PageStep ==
  ASSUME ConsoleInv, NEW p \in Pages, OpenPage(p) \/ Streams(p) \/ LeavePage(p)
  PROVE  Unwritten' /\ BufferIsTail' /\ NoGapNoRepeat' /\ FollowersHear' /\ BusIsFreed'
<1>0. /\ Unwritten /\ BufferIsTail /\ NoGapNoRepeat /\ FollowersHear /\ BusIsFreed
      /\ ConsoleTypeOK
      /\ MaxLines \in Nat /\ BufferSize \in Nat \ {0} /\ written \in Nat
  BY SizesAssumption DEF ConsoleInv, ConsoleTypeOK
<1>1. /\ UNCHANGED <<pc, active, written, buffer>>
      /\ subscribers' \in {subscribers, subscribers \cup {p}, subscribers \ {p}}
      /\ \A q \in Pages \ {p} : /\ page'[q] = page[q] /\ shown'[q] = shown[q]
                               /\ queue'[q] = queue[q]
  BY <1>0
     DEF OpenPage, Streams, LeavePage, Subscribe, SkipBus, SendLine, StopFollowing, Replay,
         SendEnd, ConsoleTypeOK, vars, busVars
<1>2. Unwritten' /\ BufferIsTail'
  BY <1>0, <1>1 DEF Unwritten, BufferIsTail
<1> DEFINE Hears(q) == \/ q \in subscribers /\ Watched \in active
                       \/ /\ q \notin subscribers /\ pc[Watched] = "gone"
                          /\ queue[q] # <<>> /\ queue[q][Len(queue[q])] = Sentinel
           Whole(q) == /\ LinesFor(q) \in Least(written, BufferSize)..written
                       /\ \A i \in 1..LinesFor(q) :
                            (shown[q] \o queue[q])[i] = (written - LinesFor(q)) + i
<1>3. /\ page'[p] = "following" => Hears(p)' /\ Whole(p)'
      /\ p \in subscribers' => page'[p] = "following" /\ Watched \in active
  <2>1. CASE page'[p] # "following" /\ p \notin subscribers'
    BY <2>1
  <2>2. CASE Subscribe(p)
    <3>1. /\ p \in subscribers' /\ Watched \in active /\ page'[p] = "following"
          /\ shown'[p] = buffer /\ queue'[p] = <<>>
      BY <1>0, <2>2 DEF Subscribe, ConsoleTypeOK
    <3>2. buffer \in Seq(1..MaxLines) /\ Len(buffer) \in Nat
      BY <1>0 DEF ConsoleTypeOK
    <3>3. buffer \o <<>> = buffer
      BY <3>2, ConcatEmptySeq
    <3>4. LinesFor(p)' = (Len(buffer) + 0) - 0
      BY <3>1, EmptySeq DEF LinesFor
    <3>5. LinesFor(p)' = Len(buffer)
      BY <3>2, <3>4
    <3>6. /\ Len(buffer) = Least(written, BufferSize)
          /\ \A i \in 1..Len(buffer) : buffer[i] = (written - Len(buffer)) + i
      BY <1>0, <3>1 DEF BufferIsTail
    <3>7. Len(buffer) \in Least(written, BufferSize)..written
      BY <1>0, <3>2, <3>6 DEF Least
    <3>8. Whole(p)'
      BY <1>1, <3>1, <3>3, <3>5, <3>6, <3>7, Zenon
    <3> QED
      BY <1>1, <3>1, <3>8
  <2>3. CASE SendLine(p)
    <3>1. /\ page[p] = "following" /\ page'[p] = "following" /\ subscribers' = subscribers
          /\ queue[p] # <<>> /\ Head(queue[p]) # Sentinel
          /\ queue'[p] = Tail(queue[p]) /\ shown'[p] = Append(shown[p], Head(queue[p]))
      BY <1>0, <2>3 DEF SendLine, ConsoleTypeOK
    <3>2. queue[p] \in Seq(0..MaxLines) /\ shown[p] \in Seq(0..MaxLines)
      <4>1. (1..MaxLines) \subseteq (0..MaxLines)
        BY <1>0
      <4> QED
        BY <1>0, <4>1, SeqMonotonic DEF ConsoleTypeOK
    <3>3. /\ LinesFor(p)' = LinesFor(p) /\ shown'[p] \o queue'[p] = shown[p] \o queue[p]
          /\ p \notin subscribers /\ queue[p][Len(queue[p])] = Sentinel =>
               queue'[p] # <<>> /\ queue'[p][Len(queue'[p])] = Sentinel
      <4> DEFINE a == shown[p]
                 b == queue[p]
                 S == 0..MaxLines
      <4>1. a \in Seq(S) /\ b \in Seq(S) /\ b # <<>> /\ Head(b) # Sentinel
        BY <3>1, <3>2
      <4>2. queue'[p] = Tail(b) /\ shown'[p] = Append(a, Head(b))
        BY <3>1
      <4> HIDE DEF a, b, S
      <4>3. /\ Append(a, Head(b)) \o Tail(b) = a \o b
            /\ Len(Append(a, Head(b))) + Len(Tail(b)) = Len(a) + Len(b)
            /\ Head(b) # b[Len(b)] => Tail(b) # <<>> /\ Tail(b)[Len(Tail(b))] = b[Len(b)]
        BY <4>1, HeadMoves
      <4>4. LinesFor(p)' = (Len(Append(a, Head(b))) + Len(Tail(b)))
                            - (IF p \in subscribers THEN 0 ELSE 1)
        BY <3>1, <4>2 DEF LinesFor
      <4>5. LinesFor(p) = (Len(a) + Len(b)) - (IF p \in subscribers THEN 0 ELSE 1)
        BY DEF LinesFor, a, b
      <4>6. LinesFor(p)' = LinesFor(p)
        BY <4>3, <4>4, <4>5, Zenon
      <4>7. b[Len(b)] = Sentinel => Tail(b) # <<>> /\ Tail(b)[Len(Tail(b))] = Sentinel
        BY <4>1, <4>3, Zenon
      <4> QED
        BY <4>2, <4>3, <4>6, <4>7, Zenon DEF a, b
    <3>4. Hears(p) /\ Whole(p)
      BY <1>0, <3>1 DEF FollowersHear, NoGapNoRepeat
    <3>5. Hears(p)' /\ Whole(p)'
      BY <1>1, <3>1, <3>3, <3>4, Zenon
    <3> QED
      BY <1>0, <3>1, <3>5 DEF BusIsFreed
  <2>4. CASE ~Subscribe(p) /\ ~SendLine(p)
    <3>1. p \in subscribers => page[p] = "following"
      BY <1>0 DEF BusIsFreed
    <3>2. OpenPage(p) \/ SkipBus(p) \/ StopFollowing(p) \/ Replay(p) \/ SendEnd(p) \/ LeavePage(p)
      BY <2>4 DEF Streams
    <3>3. page'[p] # "following" /\ p \notin subscribers'
      BY <1>0, <3>1, <3>2
         DEF OpenPage, SkipBus, StopFollowing, Replay, SendEnd, LeavePage, ConsoleTypeOK, busVars
    <3> QED
      BY <2>1, <3>3
  <2> QED
    BY <2>2, <2>3, <2>4
<1>4. ASSUME NEW q \in Pages, q # p
      PROVE  /\ Hears(q)' <=> Hears(q)
             /\ Whole(q)' <=> Whole(q)
             /\ q \in subscribers' <=> q \in subscribers
  <2>1. /\ q \in subscribers' <=> q \in subscribers
        /\ queue'[q] = queue[q] /\ shown'[q] = shown[q]
    BY <1>1, <1>4
  <2>2. LinesFor(q)' = LinesFor(q)
    BY <2>1 DEF LinesFor
  <2> QED
    BY <1>1, <2>1, <2>2, Zenon
<1>5. FollowersHear'
  <2> SUFFICES ASSUME NEW q \in Pages, page'[q] = "following"  PROVE Hears(q)'
    BY DEF FollowersHear
  <2> QED
    BY <1>0, <1>1, <1>3, <1>4 DEF FollowersHear
<1>6. NoGapNoRepeat'
  <2> SUFFICES ASSUME NEW q \in Pages, page'[q] = "following"  PROVE Whole(q)'
    BY DEF NoGapNoRepeat
  <2>1. CASE q = p
    BY <1>3, <2>1
  <2>2. CASE q # p
    <3>1. Whole(q)
      BY <1>0, <1>1, <2>2 DEF NoGapNoRepeat
    <3> QED
      BY <1>4, <2>2, <3>1
  <2> QED
    BY <2>1, <2>2
<1>7. BusIsFreed'
  <2>1. \A q \in subscribers' : page'[q] = "following" /\ Watched \in active
    <3> TAKE q \in subscribers'
    <3>1. q \in Pages
      BY <1>0, <1>1 DEF ConsoleTypeOK
    <3> QED
      BY <1>0, <1>1, <1>3, <1>4, <3>1 DEF BusIsFreed
  <2> QED
    BY <1>0, <1>1, <2>1 DEF BusIsFreed
<1> QED
  BY <1>2, <1>5, <1>6, <1>7

-----------------------------------------------------------------------------
\* The server process ends: nobody follows and no history is left.
LEMMA LostStep ==
  ASSUME ConsoleInv, Stopped \/ Crash, ConnectionsLost
  PROVE  Unwritten' /\ BufferIsTail' /\ NoGapNoRepeat' /\ FollowersHear' /\ BusIsFreed'
<1>0. Unwritten /\ ConsoleTypeOK /\ Watched \in Runs
  BY WatchedAssumption DEF ConsoleInv
<1>1. /\ active' = {} /\ pc' = [r \in Runs |-> IF pc[r] = "none" THEN "none" ELSE "gone"]
  BY DEF Stopped, Crash, Exit
<1>2. /\ written' = written /\ buffer' = <<>> /\ subscribers' = {}
      /\ page' = [p \in Pages |-> IF p \in Connected THEN "away" ELSE page[p]]
  BY DEF ConnectionsLost
<1>3. \A p \in Pages : page'[p] # "following"
  BY <1>2 DEF Connected
<1> QED
  BY <1>0, <1>1, <1>2, <1>3
     DEF Unwritten, Early, BufferIsTail, NoGapNoRepeat, FollowersHear, BusIsFreed

\* Before anything has happened.
LEMMA ConsoleStart == ConsoleInit => ConsoleInv
<1> SUFFICES ASSUME ConsoleInit  PROVE ConsoleInv
  OBVIOUS
<1>1. IInv
  BY InvariantInit DEF ConsoleInit
<1>2. ConsoleTypeOK
  <2>1. <<>> \in Seq(1..MaxLines) /\ <<>> \in Seq(0..MaxLines) /\ Len(<<>>) = 0
    BY EmptySeq
  <2>2. 0 \in 0..MaxLines /\ 0 <= FileLimit /\ 0 <= BufferSize
    BY SizesAssumption
  <2>3. /\ queue \in [Pages -> Seq(0..MaxLines)] /\ shown \in [Pages -> Seq(1..MaxLines)]
        /\ metaPath \in [Pages -> BOOLEAN]
        /\ page \in [Pages -> {"away", "meta", "following", "replaying", "closing", "done"}]
        /\ ended \in [Pages -> Unfinished \cup Finished \cup {"absent"}]
    BY <2>1 DEF ConsoleInit
  <2>4. /\ logFile = <<>> /\ buffer = <<>> /\ subscribers = {} /\ written = 0
        /\ logPath = FALSE
    BY DEF ConsoleInit
  <2> QED
    BY <2>1, <2>2, <2>3, <2>4 DEF ConsoleTypeOK
<1>3. /\ active = {} /\ pc = [r \in Runs |-> "none"] /\ written = 0 /\ buffer = <<>>
      /\ subscribers = {} /\ page = [p \in Pages |-> "away"]
  BY DEF ConsoleInit, Init
<1>4. Covered /\ Unwritten /\ BufferIsTail /\ BusIsFreed
  BY <1>3 DEF Covered, InSlot, Unwritten, BufferIsTail, BusIsFreed
<1>5. NoGapNoRepeat /\ FollowersHear
  BY <1>3 DEF NoGapNoRepeat, FollowersHear
<1> QED
  BY <1>1, <1>2, <1>4, <1>5 DEF ConsoleInv

\* The invariant holds from step to step.
LEMMA ConsoleStep == ConsoleInv /\ [ConsoleNext]_allVars => ConsoleInv'
<1> SUFFICES ASSUME ConsoleInv, [ConsoleNext]_allVars  PROVE ConsoleInv'
  OBVIOUS
<1> DEFINE Kept == /\ Unwritten' /\ BufferIsTail' /\ NoGapNoRepeat' /\ FollowersHear'
                   /\ BusIsFreed'
<1>0. /\ IInv /\ Covered /\ [Next]_vars /\ Watched \in Runs
      /\ pc \in [Runs -> InSlot \cup {"none", "refreshing", "created", "waiting", "gone"}]
  BY ConsoleStepIsRunnerStep, WatchedAssumption DEF ConsoleInv, IInv, TypeOK
<1>1. IInv' /\ ConsoleTypeOK'
  BY <1>0, InvariantStep, ConsoleTypeStep
<1>2. Covered'
  BY <1>0, RunnerMoves
<1>3. ASSUME NEW r \in Runs, MarkRunning(r) /\ NotePath(r)
      PROVE  Kept
  <2>1. UNCHANGED <<active, written, busVars, pageVars>>
    BY <1>3 DEF MarkRunning, NotePath
  <2> QED
    BY <1>0, <2>1, QuietStep
<1>4. ASSUME NEW r \in Runs, Finish(r) /\ CloseSubscribers(r)
      PROVE  Kept
  <2>1. CASE r = Watched
    BY <1>0, <1>4, <2>1, CloseStep
  <2>2. CASE r # Watched
    <3>1. active' = active \ {r} /\ UNCHANGED <<written, busVars, pageVars>>
      BY <1>4, <2>2 DEF Finish, CloseSubscribers
    <3> QED
      BY <1>0, <2>2, <3>1, QuietStep
  <2> QED
    BY <2>1, <2>2
<1>5. ASSUME active \subseteq active', UNCHANGED consoleVars
      PROVE  Kept
  <2>1. UNCHANGED <<written, busVars, pageVars>>
    BY <1>5 DEF consoleVars
  <2> QED
    BY <1>0, <1>5, <2>1, QuietStep
<1>6. ASSUME NEW r \in Runs,
             \/ CreateExecutor(r) \/ Begin(r) \/ Resume(r) \/ Load(r) \/ Reject(r) \/ Spawn(r)
             \/ RecordPid(r) \/ ProcessEnded(r) \/ Finalize(r) \/ MarkFailed(r)
             \/ StartRun(r) \/ Imported(r) \/ Fails(r) \/ CancelHandler(r) \/ ProcessExit(r)
      PROVE  active \subseteq active'
  BY <1>6
     DEF CreateExecutor, Begin, Resume, Load, Imported, Reject, Spawn, RecordPid, ProcessEnded,
         Finalize, MarkFailed, StartRun, Fails, RefreshRaises, Raise, MarkSwallowed, CancelHandler,
         CancelRead, CancelSignal, CancelCommit, CancelRaises, ProcessExit
<1>7. ASSUME ServerSteps
      PROVE  Kept
  <2>1. CASE (Stopped \/ Crash) /\ ConnectionsLost
    BY <2>1, LostStep
  <2>2. CASE (Shutdown \/ Restart) /\ UNCHANGED consoleVars
    <3>1. active' = active
      BY <2>2 DEF Shutdown, Restart
    <3> QED
      BY <1>5, <2>2, <3>1
  <2> QED
    BY <1>7, <2>1, <2>2 DEF ServerSteps
<1>8. ASSUME UNCHANGED allVars
      PROVE  Kept
  <2>1. active' = active /\ UNCHANGED consoleVars
    BY <1>8 DEF allVars, vars
  <2> QED
    BY <1>5, <2>1
<1>9. Kept
  <2>1. ASSUME NEW r \in Runs, Executes(r) \/ Happens(r)
        PROVE  Kept
    BY <1>3, <1>4, <1>5, <1>6, <2>1 DEF Executes, Happens
  <2>2. CASE ReadLine
    BY <2>2, LineStep
  <2>3. ASSUME NEW p \in Pages, OpenPage(p) \/ Streams(p) \/ LeavePage(p)
        PROVE  Kept
    BY <2>3, PageStep
  <2> HIDE DEF Kept
  <2> QED
    BY <1>7, <1>8, <2>1, <2>2, <2>3 DEF ConsoleNext
<1> QED
  BY <1>1, <1>2, <1>9 DEF ConsoleInv

\* What holds of the bus, the pages and the runner together, in every state.
THEOREM ConsoleInvariantHolds == ConsoleSpec => []ConsoleInv
BY ConsoleStart, ConsoleStep, PTL DEF ConsoleSpec

\* The console's variables keep to their types, the history and the file to their
\* limits, whatever the limits are.
THEOREM ConsoleTypeCorrect == ConsoleSpec => []ConsoleTypeOK
<1>1. ConsoleInv => ConsoleTypeOK
  BY DEF ConsoleInv
<1> QED
  BY <1>1, ConsoleInvariantHolds, PTL

\* For any number of pages, opened at any time, the switch from the copied history to
\* the queue neither drops a line nor sends one twice.
THEOREM PagesGetEveryLineOnce == ConsoleSpec => []NoGapNoRepeat
<1>1. ConsoleInv => NoGapNoRepeat
  BY DEF ConsoleInv
<1> QED
  BY <1>1, ConsoleInvariantHolds, PTL

\* A page that follows a run will hear of its end.
THEOREM EveryFollowerHears == ConsoleSpec => []FollowersHear
<1>1. ConsoleInv => FollowersHear
  BY DEF ConsoleInv
<1> QED
  BY <1>1, ConsoleInvariantHolds, PTL

\* The bus keeps nothing for a run that is over or a page that has left.
THEOREM NothingLeftOnBus == ConsoleSpec => []BusIsFreed
<1>1. ConsoleInv => BusIsFreed
  BY DEF ConsoleInv
<1> QED
  BY <1>1, ConsoleInvariantHolds, PTL

-----------------------------------------------------------------------------
\* The server waits for its pages, and takes them along when it is killed.
PagesNeedServer == server # "up" => \A p \in Pages : page[p] \in {"away", "done"}

\* Nothing has been sent before the stream handler subscribes or replays.
Blank == \A p \in Pages : page[p] \in {"away", "meta"} => shown[p] = <<>>

\* The file holds nothing but lines of the output.
FileIsOutput == logFile \in Seq(1..written)

StreamInv == ConsoleInv /\ PagesNeedServer /\ Blank /\ FileIsOutput

\* A step of an executor or of somebody outside leaves the server as it is.
LEMMA ServerStays ==
  ASSUME NEW r \in Runs, Executes(r) \/ Happens(r)
  PROVE  server' = server
BY DEF Executes, Happens, CreateExecutor, Begin, Resume, Load, Imported, Reject, Spawn, MarkRunning,
       RecordPid, ProcessEnded, Finalize, MarkFailed, Finish, StartRun, Fails, RefreshRaises,
       Raise, MarkSwallowed, CancelHandler, CancelRead, CancelSignal, CancelCommit,
       CancelRaises, ProcessExit

\* The file is appended to, or cut.
LEMMA FileStep ==
  ASSUME ConsoleTypeOK, FileIsOutput, ReadLine
  PROVE  FileIsOutput'
<1> DEFINE line == written + 1
           file == Append(logFile, line)
           half == FileLimit \div 2
<1>1. /\ written \in Nat /\ line \in 1..line /\ written' = line
      /\ half \in Nat /\ half <= FileLimit /\ FileLimit \in Nat
  BY SizesAssumption DEF ConsoleTypeOK, ReadLine
<1>2. logFile \in Seq(1..line)
  <2>1. (1..written) \subseteq (1..line)
    BY <1>1
  <2> QED
    BY <2>1, SeqMonotonic DEF FileIsOutput
<1>3. file \in Seq(1..line) /\ Len(file) \in Nat
  BY <1>1, <1>2, AppendProperties
<1>4. logFile' = IF Len(file) > FileLimit THEN SubSeq(file, 1, half) ELSE file
  BY DEF ReadLine
<1> HIDE DEF file, half, line
<1>5. CASE Len(file) > FileLimit
  <2>1. \A i \in 1..half : file[i] \in 1..line
    BY <1>1, <1>3, <1>5, ElementOfSeq
  <2>2. SubSeq(file, 1, half) \in Seq(1..line)
    BY <1>1, <2>1, SubSeqProperties
  <2> QED
    BY <1>1, <1>4, <1>5, <2>2 DEF FileIsOutput
<1>6. CASE ~(Len(file) > FileLimit)
  BY <1>1, <1>3, <1>4, <1>6 DEF FileIsOutput
<1> QED
  BY <1>5, <1>6

\* What the pages and the file owe to the server and the output, step by step.
LEMMA StreamInvStep == StreamInv /\ [ConsoleNext]_allVars => StreamInv'
<1> SUFFICES ASSUME StreamInv, [ConsoleNext]_allVars
             PROVE  PagesNeedServer' /\ Blank' /\ FileIsOutput'
  BY ConsoleStep DEF StreamInv
<1>0. PagesNeedServer /\ Blank /\ FileIsOutput /\ ConsoleTypeOK
  BY DEF StreamInv, ConsoleInv
<1>1. ASSUME server' = server \/ server' = "up", UNCHANGED <<written, logFile, page, shown>>
      PROVE  PagesNeedServer' /\ Blank' /\ FileIsOutput'
  BY <1>0, <1>1 DEF PagesNeedServer, Blank, FileIsOutput
<1>2. ASSUME NEW r \in Runs, Executes(r) \/ Happens(r)
      PROVE  UNCHANGED <<written, logFile, page, shown>>
  BY <1>2 DEF Executes, Happens, NotePath, CloseSubscribers, consoleVars, pageVars, busVars
<1>3. CASE Shutdown /\ Connected = {} /\ UNCHANGED consoleVars
  <2>1. UNCHANGED <<written, logFile, page, shown>>
    BY <1>3 DEF consoleVars, pageVars
  <2>2. \A p \in Pages : page[p] \in {"away", "done"}
    BY <1>3 DEF Connected
  <2> QED
    BY <1>0, <2>1, <2>2 DEF PagesNeedServer, Blank, FileIsOutput
<1>4. CASE (Stopped \/ Crash) /\ ConnectionsLost
  <2>1. /\ page' = [p \in Pages |-> IF p \in Connected THEN "away" ELSE page[p]]
        /\ shown' = [p \in Pages |-> IF p \in Connected THEN <<>> ELSE shown[p]]
        /\ written' = written /\ logFile' = logFile
    BY <1>4 DEF ConnectionsLost
  <2>2. \A p \in Pages : page'[p] \in {"away", "done"}
    BY <2>1 DEF Connected
  <2>3. Blank'
    BY <1>0, <2>1 DEF Blank, Connected
  <2> QED
    BY <1>0, <2>1, <2>2, <2>3 DEF PagesNeedServer, FileIsOutput
<1>5. CASE Restart /\ UNCHANGED consoleVars
  <2>1. server' = "up" /\ UNCHANGED <<written, logFile, page, shown>>
    BY <1>5 DEF Restart, consoleVars, pageVars
  <2> QED
    BY <1>1, <2>1
<1>6. CASE ReadLine
  <2>1. UNCHANGED <<server, page, shown>>
    BY <1>6 DEF ReadLine, vars, pageVars
  <2> QED
    BY <1>0, <1>6, <2>1, FileStep DEF PagesNeedServer, Blank
<1>7. ASSUME NEW p \in Pages, OpenPage(p) \/ Streams(p) \/ LeavePage(p)
      PROVE  PagesNeedServer' /\ Blank' /\ FileIsOutput'
  <2>1. UNCHANGED <<server, written, logFile>>
    BY <1>7
       DEF OpenPage, Streams, LeavePage, Subscribe, SkipBus, SendLine, StopFollowing, Replay,
           SendEnd, vars
  <2>2. server = "up"
    BY <1>0, <1>7
       DEF OpenPage, Streams, LeavePage, Subscribe, SkipBus, SendLine, StopFollowing, Replay,
           SendEnd, PagesNeedServer, Connected
  <2>3. \A q \in Pages : page'[q] \in {"away", "meta"} => shown'[q] = <<>>
    BY <1>0, <1>7
       DEF OpenPage, Streams, LeavePage, Subscribe, SkipBus, SendLine, StopFollowing, Replay,
           SendEnd, Blank, ConsoleTypeOK
  <2> QED
    BY <1>0, <2>1, <2>2, <2>3 DEF PagesNeedServer, Blank, FileIsOutput
<1>8. CASE UNCHANGED allVars
  <2>1. server' = server /\ UNCHANGED <<written, logFile, page, shown>>
    BY <1>8 DEF allVars, vars, consoleVars, pageVars
  <2> QED
    BY <1>1, <2>1
<1> QED
  BY <1>1, <1>2, <1>3, <1>4, <1>5, <1>6, <1>7, <1>8, ServerStays DEF ConsoleNext, ServerSteps

\* Together with what was shown before, in every state.
THEOREM StreamInvariantHolds == ConsoleSpec => []StreamInv
<1>1. ConsoleInit => StreamInv
  <2> SUFFICES ASSUME ConsoleInit  PROVE PagesNeedServer /\ Blank /\ FileIsOutput
    BY ConsoleStart DEF StreamInv
  <2>1. /\ page = [p \in Pages |-> "away"] /\ shown = [p \in Pages |-> <<>>]
        /\ logFile = <<>>
    BY DEF ConsoleInit
  <2> QED
    BY <2>1, EmptySeq DEF PagesNeedServer, Blank, FileIsOutput
<1> QED
  BY <1>1, StreamInvStep, PTL DEF ConsoleSpec

-----------------------------------------------------------------------------
\* A run begins, or ends, and is not begun again.
LEMMA PhaseMoves ==
  ASSUME IInv, Covered, [Next]_vars
  PROVE  \/ RunPhase' = RunPhase
         \/ RunPhase = "new" /\ RunPhase' \in {"live", "over"}
         \/ RunPhase = "live" /\ RunPhase' = "over"
<1>1. /\ pc[Watched] = "gone" => pc'[Watched] = "gone"
      /\ pc'[Watched] \in Early => pc[Watched] \in Early
  BY WatchedAssumption, RunnerMoves
<1>2. CASE pc[Watched] = "gone"
  BY <1>1, <1>2 DEF RunPhase
<1>3. CASE pc[Watched] \in Early
  BY <1>1, <1>3 DEF RunPhase, Early
<1>4. CASE pc[Watched] # "gone" /\ pc[Watched] \notin Early
  BY <1>1, <1>4 DEF RunPhase, Early
<1> QED
  BY <1>2, <1>3, <1>4

\* Steps that change nothing of what the readers are told.
LEMMA QuietStream ==
  ASSUME IInv, Covered, [Next]_vars, UNCHANGED <<written, page, shown>>,
         \A p \in Pages : page[p] = "following" => Ahead(p)' = Ahead(p)
  PROVE  [Stream!Next]_(Stream!streamVars)
<1>1. \A p \in Pages : PageAt(p)' = PageAt(p) /\ NextLine(p)' = NextLine(p)
  BY DEF PageAt, NextLine
<1>2. /\ [p \in Pages |-> PageAt(p)]' = [p \in Pages |-> PageAt(p)]
      /\ [p \in Pages |-> NextLine(p)]' = [p \in Pages |-> NextLine(p)]
  BY <1>1
<1>3. CASE RunPhase' = RunPhase
  BY <1>2, <1>3 DEF Stream!streamVars
<1>4. CASE RunPhase' # RunPhase
  <2>1. Stream!Advance
    BY <1>2, <1>4, PhaseMoves DEF Stream!Advance
  <2> QED
    BY <2>1 DEF Stream!Next
<1> QED
  BY <1>3, <1>4

\* The head of a queue is the next line of the output, or the sentinel when there is no
\* next line and will be none.
LEMMA HeadOfQueue ==
  ASSUME ConsoleInv, NEW p \in Pages, page[p] = "following", queue[p] # <<>>
  PROVE  /\ Head(queue[p]) # Sentinel => /\ Head(queue[p]) = NextLine(p)
                                         /\ NextLine(p) \in 1..written
         /\ Head(queue[p]) = Sentinel => /\ pc[Watched] = "gone"
                                         /\ NextLine(p) = written + 1
<1> DEFINE a == shown[p]
           b == queue[p]
           k == Len(a)
           l == Len(b)
           d == IF p \in subscribers THEN 0 ELSE 1
           n == LinesFor(p)
<1>0. ConsoleTypeOK /\ NoGapNoRepeat /\ FollowersHear /\ written \in Nat
  BY DEF ConsoleInv, ConsoleTypeOK
<1>1. a \in Seq(0..MaxLines) /\ b \in Seq(0..MaxLines) /\ b # <<>>
  <2>1. (1..MaxLines) \subseteq (0..MaxLines)
    BY SizesAssumption
  <2> QED
    BY <1>0, <2>1, SeqMonotonic DEF ConsoleTypeOK
<1>2. /\ n = (k + l) - d /\ NextLine(p) = (written + 1) - (l - d)
      /\ n \in Least(written, BufferSize)..written
      /\ \A i \in 1..n : (a \o b)[i] = (written - n) + i
  <2>1. /\ LinesFor(p) \in Least(written, BufferSize)..written
        /\ \A i \in 1..LinesFor(p) : (shown[p] \o queue[p])[i] = (written - LinesFor(p)) + i
    BY <1>0 DEF NoGapNoRepeat
  <2>2. LinesFor(p) = (k + l) - d /\ NextLine(p) = (written + 1) - (l - d)
    BY DEF LinesFor, NextLine, Ahead
  <2> QED
    BY <2>1, <2>2
<1>3. /\ p \in subscribers => d = 0
      /\ p \notin subscribers => /\ d = 1 /\ pc[Watched] = "gone"
                                 /\ b[l] = Sentinel
  BY <1>0 DEF FollowersHear
<1> HIDE DEF a, b, n, d
<1>4. /\ k \in Nat /\ l \in Nat \ {0} /\ Head(b) = b[1]
      /\ (a \o b)[k + 1] = b[1]
  <2>1. k \in Nat /\ l \in Nat \ {0} /\ Head(b) = b[1]
    BY <1>1, EmptySeq
  <2>2. k + 1 \in 1..(k + l) /\ ~(k + 1 <= k) /\ (k + 1) - k = 1
    BY <2>1
  <2>3. (a \o b)[k + 1] = b[(k + 1) - k]
    BY <1>1, <2>2, ConcatProperties
  <2> QED
    BY <2>1, <2>2, <2>3
<1>5. CASE k + 1 <= n
  <2>1. n \in Nat /\ k + 1 \in 1..n /\ n <= written
    BY <1>0, <1>2, <1>4, <1>5 DEF Least
  <2>2. Head(b) = (written - n) + (k + 1)
    BY <1>2, <1>4, <2>1
  <2>3. d \in {0, 1}
    BY <1>3
  <2>4. Head(b) = NextLine(p) /\ NextLine(p) \in 1..written
    BY <1>0, <1>2, <1>4, <1>5, <2>1, <2>2, <2>3
  <2> QED
    BY <2>4 DEF b, Sentinel
<1>6. CASE ~(k + 1 <= n)
  <2>1. d = 1 /\ l = 1
    <3>1. d \in {0, 1} /\ n = (k + l) - d /\ k \in Nat /\ l \in Nat \ {0}
      BY <1>2, <1>3, <1>4
    <3> HIDE DEF k, l
    <3> QED
      BY <1>6, <3>1
  <2>2. Head(b) = Sentinel /\ pc[Watched] = "gone"
    BY <1>3, <1>4, <2>1
  <2>3. NextLine(p) = written + 1
    BY <1>0, <1>2, <2>1
  <2> QED
    BY <2>2, <2>3 DEF b
<1> QED
  BY <1>4, <1>5, <1>6

-----------------------------------------------------------------------------
\* A line read is a line printed: those who follow have it ahead of them.
LEMMA LineIsPrinted ==
  ASSUME ConsoleInv, ReadLine
  PROVE  Stream!Emit
<1>0. ConsoleTypeOK /\ FollowersHear /\ written \in Nat
  BY DEF ConsoleInv, ConsoleTypeOK
<1>1. /\ pc[Watched] = "streaming" /\ written' = written + 1
      /\ queue' = [p \in Pages |-> IF p \in subscribers THEN Append(queue[p], written + 1)
                                                        ELSE queue[p]]
      /\ UNCHANGED <<pc, subscribers, page, shown>>
  BY DEF ReadLine, vars, pageVars
<1>2. RunPhase = "live" /\ RunPhase' = RunPhase
  BY <1>1 DEF RunPhase
<1>3. ASSUME NEW p \in Pages
      PROVE  PageAt(p)' = PageAt(p) /\ NextLine(p)' = NextLine(p)
  <2>1. page'[p] = page[p]
    BY <1>1
  <2>2. CASE page[p] # "following"
    BY <2>1, <2>2 DEF PageAt, NextLine
  <2>3. CASE page[p] = "following"
    <3>1. p \in subscribers
      BY <1>0, <1>1, <2>3 DEF FollowersHear
    <3>2. Len(queue[p]) \in Nat /\ Len(queue'[p]) = Len(queue[p]) + 1
      <4>1. queue[p] \in Seq(0..MaxLines)
        BY <1>0 DEF ConsoleTypeOK
      <4>2. queue'[p] = Append(queue[p], written + 1)
        BY <1>1, <3>1
      <4> QED
        BY <4>1, <4>2
    <3>3. /\ NextLine(p) = (written + 1) - (Len(queue[p]) - 0)
          /\ NextLine(p)' = ((written + 1) + 1) - (Len(queue'[p]) - 0)
      BY <1>1, <2>3, <3>1 DEF NextLine, Ahead
    <3>4. NextLine(p)' = NextLine(p)
      BY <1>0, <3>2, <3>3
    <3> QED
      BY <2>1, <3>4 DEF PageAt
  <2> QED
    BY <2>2, <2>3
<1>4. /\ [p \in Pages |-> PageAt(p)]' = [p \in Pages |-> PageAt(p)]
      /\ [p \in Pages |-> NextLine(p)]' = [p \in Pages |-> NextLine(p)]
  BY <1>3
<1> QED
  BY <1>1, <1>2, <1>4 DEF Stream!Emit

\* The last step of the watched run puts the sentinel behind what is still ahead.
LEMMA ClosingIsQuiet ==
  ASSUME StreamInv, [Next]_vars, NEW r \in Runs, CloseSubscribers(r)
  PROVE  [Stream!Next]_(Stream!streamVars)
<1>0. IInv /\ Covered /\ ConsoleTypeOK
  BY DEF StreamInv, ConsoleInv
<1>1. UNCHANGED <<written, page, shown>>
  BY DEF CloseSubscribers, pageVars
<1>2. ASSUME NEW p \in Pages
      PROVE  Ahead(p)' = Ahead(p)
  <2>1. CASE r = Watched /\ p \in subscribers
    <3>1. queue'[p] = Append(queue[p], Sentinel) /\ p \notin subscribers'
      BY <2>1 DEF CloseSubscribers
    <3>2. Len(queue[p]) \in Nat /\ Len(queue'[p]) = Len(queue[p]) + 1
      BY <1>0, <3>1 DEF ConsoleTypeOK
    <3>3. Ahead(p) = Len(queue[p]) - 0 /\ Ahead(p)' = Len(queue'[p]) - 1
      BY <2>1, <3>1 DEF Ahead
    <3> QED
      BY <3>2, <3>3
  <2>2. CASE ~(r = Watched /\ p \in subscribers)
    <3>1. /\ queue'[p] = queue[p]
          /\ p \in subscribers' <=> p \in subscribers
      BY <2>2 DEF CloseSubscribers, busVars
    <3> QED
      BY <3>1 DEF Ahead
  <2> QED
    BY <2>1, <2>2
<1> QED
  BY <1>0, <1>1, <1>2, QuietStream

\* The end of the server process breaks every stream.
LEMMA LossIsBreak ==
  ASSUME StreamInv, [Next]_vars, Exit, ConnectionsLost
  PROVE  Stream!Break
<1> DEFINE lost == {p \in Pages : page[p] # "done"}
<1>0. Blank /\ IInv /\ Covered /\ Watched \in Runs
  BY WatchedAssumption DEF StreamInv, ConsoleInv
<1>1. RunPhase' = "over" \/ (RunPhase = "new" /\ RunPhase' = "new")
  <2>1. pc'[Watched] = IF pc[Watched] = "none" THEN "none" ELSE "gone"
    BY <1>0 DEF Exit
  <2> QED
    BY <2>1 DEF RunPhase
<1>2. /\ page' = [p \in Pages |-> IF p \in Connected THEN "away" ELSE page[p]]
      /\ shown' = [p \in Pages |-> IF p \in Connected THEN <<>> ELSE shown[p]]
      /\ written' = written
  BY DEF ConnectionsLost
<1>3. {p \in Pages : [q \in Pages |-> PageAt(q)][p] = "in"} \subseteq lost
  BY DEF PageAt
<1>4. [p \in Pages |-> PageAt(p)]' =
        [p \in Pages |-> IF p \in lost THEN "out" ELSE [q \in Pages |-> PageAt(q)][p]]
  BY <1>2 DEF PageAt, Connected
<1>5. shown' = [p \in Pages |-> IF p \in lost THEN <<>> ELSE shown[p]]
  BY <1>0, <1>2 DEF Blank, Connected
<1>6. [p \in Pages |-> NextLine(p)]' =
        [p \in Pages |-> IF p \in lost THEN 0 ELSE [q \in Pages |-> NextLine(q)][p]]
  BY <1>2 DEF NextLine, Connected
<1>7. lost \in SUBSET Pages
  OBVIOUS
<1> HIDE DEF lost
<1> QED
  BY <1>1, <1>2, <1>3, <1>4, <1>5, <1>6, <1>7 DEF Stream!Break

\* What a stream handler does is what the stream lets its reader do.
LEMMA PageIsReader ==
  ASSUME StreamInv, NEW p \in Pages, OpenPage(p) \/ Streams(p) \/ LeavePage(p)
  PROVE  [Stream!Next]_(Stream!streamVars)
<1> DEFINE At == [q \in Pages |-> PageAt(q)]
           Due == [q \in Pages |-> NextLine(q)]
<1>0. /\ ConsoleInv /\ ConsoleTypeOK /\ Blank /\ FileIsOutput /\ BufferIsTail /\ FollowersHear
      /\ Covered /\ IInv /\ ActiveIsExecuting /\ Watched \in Runs
      /\ DOMAIN page = Pages /\ DOMAIN shown = Pages /\ DOMAIN queue = Pages
      /\ written \in Nat /\ BufferSize \in Nat
  BY WatchedAssumption, SizesAssumption DEF StreamInv, ConsoleInv, ConsoleTypeOK, IInv
<1>1. UNCHANGED <<pc, active, written, buffer, logFile>> /\ RunPhase' = RunPhase
  <2>1. UNCHANGED <<pc, active, written, buffer, logFile>>
    BY DEF OpenPage, Streams, LeavePage, Subscribe, SkipBus, SendLine, StopFollowing, Replay,
           SendEnd, vars, busVars
  <2> QED
    BY <2>1 DEF RunPhase
<1>2. ASSUME NEW q \in Pages, q # p
      PROVE  PageAt(q)' = PageAt(q) /\ NextLine(q)' = NextLine(q)
  <2>1. /\ page'[q] = page[q] /\ queue'[q] = queue[q]
        /\ q \in subscribers' <=> q \in subscribers
    BY <1>0, <1>2
       DEF OpenPage, Streams, LeavePage, Subscribe, SkipBus, SendLine, StopFollowing, Replay,
           SendEnd, busVars
  <2> QED
    BY <1>1, <2>1 DEF PageAt, NextLine, Ahead
<1>3. /\ At' = [At EXCEPT ![p] = PageAt(p)']
      /\ Due' = [Due EXCEPT ![p] = NextLine(p)']
  BY <1>2
<1>4. /\ At[p] = PageAt(p) /\ Due[p] = NextLine(p)
      /\ PageAt(p)' = PageAt(p) => At' = At
      /\ NextLine(p)' = NextLine(p) => Due' = Due
  BY <1>3
<1>5. Watched \in active /\ server = "up" <=> RunPhase = "live" /\ server = "up"
  BY <1>0 DEF ActiveIsExecuting, RunPhase, Holders, InSlot, IInv, TypeOK
<1>6. page[p] \notin {"away", "done"} => server = "up"
  BY DEF StreamInv, PagesNeedServer
<1> HIDE DEF At, Due
<1>7. CASE OpenPage(p)
  <2>1. /\ page[p] \in {"away", "done"} /\ page' = [page EXCEPT ![p] = "meta"]
        /\ shown' = [shown EXCEPT ![p] = <<>>]
    BY <1>7 DEF OpenPage
  <2>2. page'[p] = "meta"
    BY <1>0, <2>1
  <2>3. PageAt(p)' = "out" /\ NextLine(p)' = 0
    BY <2>2 DEF PageAt, NextLine
  <2>4. CASE page[p] = "away"
    <3>1. PageAt(p) = "out" /\ NextLine(p) = 0
      BY <2>4 DEF PageAt, NextLine
    <3>2. shown' = shown
      BY <1>0, <2>1, <2>4 DEF Blank, ConsoleTypeOK
    <3> QED
      BY <1>1, <1>4, <2>3, <3>1, <3>2 DEF Stream!streamVars, At, Due
  <2>5. CASE page[p] = "done"
    <3>1. PageAt(p) = "past"
      BY <2>5 DEF PageAt
    <3>2. Stream!Leave(p)
      BY <1>1, <1>3, <1>4, <2>1, <2>3, <3>1 DEF Stream!Leave, At, Due
    <3> QED
      BY <3>2 DEF Stream!Next
  <2> QED
    BY <2>1, <2>4, <2>5
<1>8. CASE Subscribe(p)
  <2>1. /\ page[p] = "meta" /\ Watched \in active /\ shown' = [shown EXCEPT ![p] = buffer]
        /\ page'[p] = "following" /\ queue'[p] = <<>> /\ p \in subscribers'
    BY <1>0, <1>8 DEF Subscribe
  <2>2. /\ PageAt(p) = "out" /\ PageAt(p)' = "in"
        /\ NextLine(p)' = (written + 1) - (Len(<<>>) - 0)
    BY <1>1, <2>1 DEF PageAt, NextLine, Ahead
  <2>3. NextLine(p)' = written + 1
    BY <1>0, <2>2, EmptySeq
  <2>4. RunPhase = "live"
    BY <1>5, <1>6, <2>1
  <2>5. buffer = [i \in 1..Stream!Kept |-> (written - Stream!Kept) + i]
    <3>1. /\ Len(buffer) = Stream!Kept
          /\ \A i \in 1..Len(buffer) : buffer[i] = (written - Len(buffer)) + i
      BY <1>0, <2>1 DEF BufferIsTail, Stream!Kept, Least
    <3>2. buffer \in [1..Len(buffer) -> 1..MaxLines]
      BY <1>0, LenProperties DEF ConsoleTypeOK
    <3> QED
      BY <3>1, <3>2
  <2>6. Stream!Tune(p)
    BY <1>1, <1>3, <1>4, <2>1, <2>2, <2>3, <2>4, <2>5 DEF Stream!Tune, At, Due
  <2> QED
    BY <2>6 DEF Stream!Next
<1>9. CASE SkipBus(p)
  <2>1. /\ page[p] = "meta" /\ Watched \notin active /\ page'[p] = "replaying"
        /\ shown' = shown
    BY <1>0, <1>9 DEF SkipBus
  <2>2. /\ PageAt(p) = "out" /\ PageAt(p)' = "past" /\ NextLine(p)' = NextLine(p)
    BY <2>1 DEF PageAt, NextLine
  <2>3. RunPhase # "live"
    BY <1>5, <1>6, <2>1
  <2>4. Stream!Miss(p)
    BY <1>1, <1>3, <1>4, <2>1, <2>2, <2>3 DEF Stream!Miss, At, Due
  <2> QED
    BY <2>4 DEF Stream!Next
<1>10. CASE SendLine(p)
  <2>1. /\ page[p] = "following" /\ queue[p] # <<>> /\ Head(queue[p]) # Sentinel
        /\ queue'[p] = Tail(queue[p]) /\ subscribers' = subscribers /\ page' = page
        /\ shown' = [shown EXCEPT ![p] = Append(@, Head(queue[p]))]
    BY <1>0, <1>10 DEF SendLine
  <2>2. Head(queue[p]) = NextLine(p) /\ NextLine(p) \in 1..written
    BY <1>0, <2>1, HeadOfQueue
  <2>3. Len(queue[p]) \in Nat /\ Len(Tail(queue[p])) = Len(queue[p]) - 1
    <3>1. queue[p] \in Seq(0..MaxLines)
      BY <1>0 DEF ConsoleTypeOK
    <3> QED
      BY <2>1, <3>1, EmptySeq
  <2>4. NextLine(p)' = NextLine(p) + 1
    <3> DEFINE d == IF p \in subscribers THEN 0 ELSE 1
    <3>1. /\ NextLine(p) = (written + 1) - (Len(queue[p]) - d)
          /\ NextLine(p)' = (written + 1) - ((Len(queue[p]) - 1) - d)
      BY <1>1, <2>1, <2>3 DEF NextLine, Ahead
    <3>2. d \in {0, 1}
      OBVIOUS
    <3> HIDE DEF d
    <3> QED
      BY <1>0, <2>3, <3>1, <3>2
  <2>5. PageAt(p) = "in" /\ PageAt(p)' = "in"
    BY <2>1 DEF PageAt
  <2>6. At[p] = "in" /\ At' = At
    BY <1>4, <2>5
  <2>7. /\ Due[p] <= written
        /\ Due' = [Due EXCEPT ![p] = Due[p] + 1]
        /\ shown' = [shown EXCEPT ![p] = Append(shown[p], Due[p])]
    <3>1. Due[p] = Head(queue[p]) /\ Due[p] \in 1..written
      BY <1>4, <2>2
    <3>2. shown' = [shown EXCEPT ![p] = Append(shown[p], Due[p])]
      BY <2>1, <3>1, Zenon
    <3>3. Due' = [Due EXCEPT ![p] = Due[p] + 1]
      BY <1>3, <1>4, <2>4, Zenon
    <3>4. Due[p] <= written
      BY <1>0, <3>1
    <3> QED
      BY <3>2, <3>3, <3>4
  <2>8. Stream!Tell(p)
    BY <1>1, <2>6, <2>7, Zenon DEF Stream!Tell, At, Due
  <2> QED
    BY <2>8 DEF Stream!Next
<1>11. CASE StopFollowing(p)
  <2>1. /\ page[p] = "following" /\ queue[p] # <<>> /\ Head(queue[p]) = Sentinel
        /\ page'[p] = "replaying" /\ shown' = shown
    BY <1>0, <1>11 DEF StopFollowing
  <2>2. pc[Watched] = "gone" /\ NextLine(p) = written + 1
    BY <1>0, <2>1, HeadOfQueue
  <2>3. PageAt(p) = "in" /\ PageAt(p)' = "past" /\ NextLine(p)' = 0 /\ RunPhase = "over"
    BY <2>1, <2>2 DEF PageAt, NextLine, RunPhase
  <2>4. Stream!End(p)
    BY <1>1, <1>3, <1>4, <2>1, <2>2, <2>3 DEF Stream!End, At, Due
  <2> QED
    BY <2>4 DEF Stream!Next
<1>12. CASE Replay(p)
  <2>1. /\ page[p] = "replaying" /\ page'[p] = "closing"
        /\ shown' = [shown EXCEPT ![p] = IF metaPath[p] /\ @ = <<>> THEN logFile ELSE @]
    BY <1>0, <1>12 DEF Replay
  <2>2. PageAt(p) = "past" /\ PageAt(p)' = "past" /\ NextLine(p)' = NextLine(p)
    BY <2>1 DEF PageAt, NextLine
  <2>3. CASE metaPath[p] /\ shown[p] = <<>>
    <3>1. shown' = [shown EXCEPT ![p] = logFile] /\ shown'[p] = logFile
      BY <1>0, <2>1, <2>3
    <3>2. Stream!Recall(p)
      BY <1>0, <1>1, <1>4, <2>2, <2>3, <3>1 DEF Stream!Recall, FileIsOutput, At, Due
    <3> QED
      BY <3>2 DEF Stream!Next
  <2>4. CASE ~(metaPath[p] /\ shown[p] = <<>>)
    <3>1. shown' = shown
      BY <1>0, <2>1, <2>4 DEF ConsoleTypeOK
    <3> QED
      BY <1>1, <1>4, <2>2, <3>1 DEF Stream!streamVars, At, Due
  <2> QED
    BY <2>3, <2>4
<1>13. CASE SendEnd(p)
  <2>1. page[p] = "closing" /\ page'[p] = "done" /\ shown' = shown
    BY <1>0, <1>13 DEF SendEnd
  <2>2. PageAt(p)' = PageAt(p) /\ NextLine(p)' = NextLine(p)
    BY <2>1 DEF PageAt, NextLine
  <2> QED
    BY <1>1, <1>4, <2>1, <2>2 DEF Stream!streamVars, At, Due
<1>14. CASE LeavePage(p)
  <2>1. /\ page[p] \notin {"away", "done"} /\ page'[p] = "away"
        /\ shown' = [shown EXCEPT ![p] = <<>>]
    BY <1>0, <1>14 DEF LeavePage, Connected
  <2>2. PageAt(p)' = "out" /\ NextLine(p)' = 0
    BY <2>1 DEF PageAt, NextLine
  <2>3. CASE page[p] = "meta"
    <3>1. PageAt(p) = "out" /\ NextLine(p) = 0
      BY <2>3 DEF PageAt, NextLine
    <3>2. shown' = shown
      BY <1>0, <2>1, <2>3 DEF Blank, ConsoleTypeOK
    <3> QED
      BY <1>1, <1>4, <2>2, <3>1, <3>2 DEF Stream!streamVars, At, Due
  <2>4. CASE page[p] # "meta"
    <3>1. PageAt(p) # "out"
      BY <2>1, <2>4 DEF PageAt
    <3>2. Stream!Leave(p)
      BY <1>1, <1>3, <1>4, <2>1, <2>2, <3>1 DEF Stream!Leave, At, Due
    <3> QED
      BY <3>2 DEF Stream!Next
  <2> QED
    BY <2>3, <2>4
<1> QED
  BY <1>7, <1>8, <1>9, <1>10, <1>11, <1>12, <1>13, <1>14 DEF Streams

\* Every step of the console is a step of the stream or does not concern it.
LEMMA StreamStep == StreamInv /\ [ConsoleNext]_allVars => [Stream!Next]_(Stream!streamVars)
<1> SUFFICES ASSUME StreamInv, [ConsoleNext]_allVars
             PROVE  [Stream!Next]_(Stream!streamVars)
  OBVIOUS
<1>0. [Next]_vars /\ IInv /\ Covered /\ ConsoleInv
  BY ConsoleStepIsRunnerStep DEF StreamInv, ConsoleInv
<1>1. ASSUME UNCHANGED <<written, queue, subscribers, page, shown>>
      PROVE  [Stream!Next]_(Stream!streamVars)
  <2>1. \A p \in Pages : Ahead(p)' = Ahead(p)
    BY <1>1 DEF Ahead
  <2> QED
    BY <1>0, <1>1, <2>1, QuietStream
<1>2. ASSUME NEW r \in Runs, Executes(r) \/ Happens(r)
      PROVE  [Stream!Next]_(Stream!streamVars)
  <2>1. CASE CloseSubscribers(r)
    BY <1>0, <2>1, ClosingIsQuiet
  <2>2. CASE NotePath(r) \/ UNCHANGED consoleVars
    <3>1. UNCHANGED <<written, queue, subscribers, page, shown>>
      BY <2>2 DEF NotePath, consoleVars, busVars, pageVars
    <3> QED
      BY <1>1, <3>1
  <2> QED
    BY <1>2, <2>1, <2>2 DEF Executes, Happens
<1>3. CASE ServerSteps
  <2>1. CASE (Stopped \/ Crash) /\ ConnectionsLost
    <3>1. Stream!Break
      BY <1>0, <2>1, LossIsBreak DEF Stopped, Crash
    <3> QED
      BY <3>1 DEF Stream!Next
  <2>2. CASE UNCHANGED consoleVars
    BY <1>1, <2>2 DEF consoleVars, busVars, pageVars
  <2> QED
    BY <1>3, <2>1, <2>2 DEF ServerSteps
<1>4. CASE ReadLine
  <2>1. Stream!Emit
    BY <1>0, <1>4, LineIsPrinted
  <2> QED
    BY <2>1 DEF Stream!Next
<1>5. ASSUME NEW p \in Pages, OpenPage(p) \/ Streams(p) \/ LeavePage(p)
      PROVE  [Stream!Next]_(Stream!streamVars)
  BY <1>5, PageIsReader
<1>6. CASE UNCHANGED allVars
  BY <1>1, <1>6 DEF allVars, consoleVars, busVars, pageVars
<1> QED
  BY <1>2, <1>3, <1>4, <1>5, <1>6 DEF ConsoleNext

\* For any number of runs, pages and lines and any history, the log bus and the stream
\* handlers are the stream they promise to be: who follows a run is told every line
\* from where it came in, in order, and is let go when it has been told the last.
THEOREM ConsoleIsStream == ConsoleSpec => ImplementsStream
<1>1. ConsoleInit => Stream!Init
  <2> SUFFICES ASSUME ConsoleInit  PROVE Stream!Init
    OBVIOUS
  <2>1. /\ pc = [r \in Runs |-> "none"] /\ written = 0
        /\ page = [p \in Pages |-> "away"] /\ shown = [p \in Pages |-> <<>>]
    BY DEF ConsoleInit, Init
  <2>2. RunPhase = "new"
    BY <2>1, WatchedAssumption DEF RunPhase
  <2> QED
    BY <2>1, <2>2 DEF Stream!Init, PageAt, NextLine
<1>2. StreamInv /\ [ConsoleNext]_allVars => [Stream!Next]_(Stream!streamVars)
  BY StreamStep
<1> QED
  BY <1>1, <1>2, StreamInvariantHolds, PTL DEF ConsoleSpec, ImplementsStream, Stream!Spec

-----------------------------------------------------------------------------
\* A page that stops following has been sent the output up to its very last line, all of
\* it or as much as the history had kept when the page was opened.
TheWholeOutput ==
  \A p \in Pages : page[p] = "following" /\ page'[p] = "replaying" =>
    /\ pc[Watched] = "gone"
    /\ Len(shown'[p]) \in Least(written, BufferSize)..written
    /\ \A i \in 1..Len(shown'[p]) : shown'[p][i] = (written - Len(shown'[p])) + i

ToldToTheEnd == [][TheWholeOutput]_allVars

\* The sentinel stands alone in the queue when it is read.
LEMMA SentinelIsLast ==
  ASSUME ConsoleInv, NEW p \in Pages, StopFollowing(p)
  PROVE  /\ pc[Watched] = "gone"
         /\ Len(shown[p]) \in Least(written, BufferSize)..written
         /\ \A i \in 1..Len(shown[p]) : shown[p][i] = (written - Len(shown[p])) + i
<1> DEFINE n == LinesFor(p)
           d == IF p \in subscribers THEN 0 ELSE 1
           k == Len(shown[p])
           l == Len(queue[p])
<1>0. /\ NoGapNoRepeat /\ written \in Nat /\ page[p] = "following" /\ queue[p] # <<>>
      /\ shown[p] \in Seq(1..MaxLines) /\ queue[p] \in Seq(0..MaxLines)
  BY DEF ConsoleInv, ConsoleTypeOK, StopFollowing
<1>1. pc[Watched] = "gone" /\ NextLine(p) = written + 1
  BY <1>0, HeadOfQueue DEF StopFollowing
<1>2. /\ n \in Least(written, BufferSize)..written
      /\ \A i \in 1..n : (shown[p] \o queue[p])[i] = (written - n) + i
  BY <1>0 DEF NoGapNoRepeat
<1>3. /\ n = (k + l) - d
      /\ NextLine(p) = (written + 1) - (l - d)
      /\ d \in {0, 1}
  BY <1>0 DEF LinesFor, NextLine, Ahead
<1>4. k \in Nat /\ l \in Nat \ {0}
  BY <1>0, EmptySeq
<1>5. ASSUME NEW i \in 1..k
      PROVE  (shown[p] \o queue[p])[i] = shown[p][i]
  <2>1. shown[p] \in Seq(0..MaxLines)
    <3>1. (1..MaxLines) \subseteq (0..MaxLines)
      BY SizesAssumption
    <3> QED
      BY <1>0, <3>1, SeqMonotonic
  <2> HIDE DEF k, l
  <2>2. i \in 1..(k + l) /\ i <= k
    BY <1>4
  <2> QED
    BY <1>0, <2>1, <2>2, ConcatProperties DEF k, l
<1> HIDE DEF n, d, k, l
<1>6. k = n
  BY <1>0, <1>1, <1>3, <1>4
<1> QED
  BY <1>1, <1>2, <1>5, <1>6 DEF k

\* Whoever follows a run to its end has missed nothing of it: the last line sent is the
\* last one the run printed, and before it no line is missing or sent twice.
THEOREM FollowersHearAll == ConsoleSpec => ToldToTheEnd
<1>1. StreamInv /\ [ConsoleNext]_allVars => [TheWholeOutput]_allVars
  <2> SUFFICES ASSUME StreamInv, ConsoleNext,
                      NEW p \in Pages, page[p] = "following", page'[p] = "replaying"
               PROVE  /\ pc[Watched] = "gone"
                      /\ Len(shown'[p]) \in Least(written, BufferSize)..written
                      /\ \A i \in 1..Len(shown'[p]) : shown'[p][i] = (written - Len(shown'[p])) + i
    BY DEF TheWholeOutput
  <2>0. DOMAIN page = Pages
    BY DEF StreamInv, ConsoleInv, ConsoleTypeOK
  <2>1. StopFollowing(p)
    <3>1. ASSUME NEW r \in Runs, Executes(r) \/ Happens(r)
          PROVE  page' = page
      BY <3>1 DEF Executes, Happens, NotePath, CloseSubscribers, pageVars, consoleVars
    <3>2. CASE ServerSteps
      BY <3>2 DEF ServerSteps, ConnectionsLost, consoleVars, pageVars
    <3>3. ~ReadLine
      BY DEF ReadLine, pageVars
    <3>4. ASSUME NEW q \in Pages, OpenPage(q) \/ Streams(q) \/ LeavePage(q), ~StopFollowing(p)
          PROVE  FALSE
      BY <2>0, <3>4 DEF OpenPage, Streams, Subscribe, SkipBus, SendLine, StopFollowing, Replay,
         SendEnd, LeavePage
    <3> QED
      BY <3>1, <3>2, <3>3, <3>4 DEF ConsoleNext
  <2>2. shown' = shown
    BY <2>1 DEF StopFollowing
  <2> QED
    BY <2>1, <2>2, SentinelIsLast DEF StreamInv
<1> QED
  BY <1>1, StreamInvariantHolds, PTL DEF ConsoleSpec, ToldToTheEnd

-----------------------------------------------------------------------------
\* A page learns how the run came out, for any number of runs, pages and lines, if no
\* fault is kept from the row: the sentinel is sent after the outcome is committed, and
\* from then on there is one whenever the handler reads.
THEOREM PagesLearnOutcome ==
  ASSUME FailuresReported
  PROVE  ConsoleSpec => EndTellsOutcome
<1>1. ASSUME StreamInv, AllAccounted, [ConsoleNext]_allVars, NEW p \in Pages
      PROVE  /\ page[p] = "following" /\ page'[p] = "replaying" => status[Watched] \in Finished
             /\ page[p] = "closing" /\ page'[p] = "done" /\ pc[Watched] = "gone" =>
                  ended'[p] \in Finished
  <2>0. /\ DOMAIN page = Pages /\ DOMAIN ended = Pages
        /\ page[p] \in {"following", "closing"} => server = "up"
    BY <1>1 DEF StreamInv, ConsoleInv, ConsoleTypeOK, PagesNeedServer
  <2>1. server = "up" /\ pc[Watched] = "gone" => status[Watched] \in Finished
    BY <1>1, WatchedAssumption
       DEF StreamInv, ConsoleInv, IInv, TypeOK, AllAccounted, Accounted, Unfinished
  <2>2. ASSUME page[p] \in {"following", "closing"}, page'[p] \notin {page[p], "away"}
        PROVE  StopFollowing(p) \/ SendEnd(p)
    <3>1. ASSUME NEW r \in Runs, Executes(r) \/ Happens(r)
          PROVE  page' = page
      BY <3>1 DEF Executes, Happens, NotePath, CloseSubscribers, pageVars, consoleVars
    <3>2. CASE ServerSteps
      BY <2>0, <2>2, <3>2 DEF ServerSteps, ConnectionsLost, consoleVars, pageVars
    <3>3. CASE ReadLine \/ UNCHANGED allVars
      BY <2>2, <3>3 DEF ReadLine, allVars, consoleVars, pageVars
    <3>4. ASSUME NEW q \in Pages, OpenPage(q) \/ Streams(q) \/ LeavePage(q)
          PROVE  StopFollowing(p) \/ SendEnd(p)
      <4>1. q = p
        BY <2>0, <2>2, <3>4
           DEF OpenPage, Streams, Subscribe, SkipBus, SendLine, StopFollowing, Replay, SendEnd,
               LeavePage
      <4> QED
        BY <2>0, <2>2, <3>4, <4>1
           DEF OpenPage, Streams, Subscribe, SkipBus, SendLine, Replay, LeavePage
    <3> QED
      BY <1>1, <2>2, <3>1, <3>2, <3>3, <3>4 DEF ConsoleNext
  <2>3. ASSUME page[p] = "following", page'[p] = "replaying"
        PROVE  status[Watched] \in Finished
    <3>1. StopFollowing(p)
      BY <2>2, <2>3 DEF SendEnd
    <3>2. pc[Watched] = "gone"
      BY <1>1, <3>1, SentinelIsLast DEF StreamInv
    <3> QED
      BY <2>0, <2>1, <2>3, <3>2
  <2>4. ASSUME page[p] = "closing", page'[p] = "done", pc[Watched] = "gone"
        PROVE  ended'[p] \in Finished
    <3>1. SendEnd(p)
      BY <2>2, <2>4 DEF StopFollowing
    <3>2. ended'[p] = status[Watched]
      BY <2>0, <3>1 DEF SendEnd
    <3> QED
      BY <2>0, <2>1, <2>4, <3>2
  <2> QED
    BY <2>3, <2>4
<1>2. StreamInv /\ AllAccounted /\ [ConsoleNext]_allVars =>
        \A p \in Pages :
          /\ page[p] = "following" /\ page'[p] = "replaying" => status[Watched] \in Finished
          /\ page[p] = "closing" /\ page'[p] = "done" /\ pc[Watched] = "gone" =>
               ended'[p] \in Finished
  BY <1>1
<1>3. ConsoleSpec => []AllAccounted
  BY ConsoleRuns, RunsAccounted, FailuresReported, PTL
<1> QED
  BY <1>2, <1>3, StreamInvariantHolds, PTL DEF ConsoleSpec, EndTellsOutcome

-----------------------------------------------------------------------------
\* Pages come to their end.  PageGuardsEnable is a hypothesis here as GuardsEnable is in
\* RunnerLiveness: each action whose fairness is assumed is enabled where its own guard
\* holds, which its definition gives and the prover has no rule for.

\* Where a stream handler waits for nothing but the loop: everywhere but on an empty queue.
PageCanGoOn(p) ==
  page[p] \in {"meta", "replaying", "closing"} \/ (page[p] = "following" /\ queue[p] # <<>>)

PageFree(p) == PageCanGoOn(p) => ENABLED <<Streams(p)>>_allVars
ExecutorFree(r) == CanGoOn(r) => ENABLED <<Executes(r)>>_allVars
OutputFree(r) ==
  /\ proc[r] = "alive" => ENABLED <<ProcessExit(r) /\ Happens(r)>>_allVars
  /\ pc[r] = "importing" => ENABLED <<Imported(r) /\ Happens(r)>>_allVars

PageGuardsEnable ==
  /\ \A p \in Pages : PageFree(p)
  /\ \A r \in Runs : ExecutorFree(r) /\ OutputFree(r)

\* What it gives together with fairness.
PageWorksOn(p) == []([]PageCanGoOn(p) => <><<Streams(p)>>_allVars)

\* An executor's step takes it on, wherever it is.
LEMMA WorkMoves ==
  ASSUME IInv, NEW r \in Runs, Works(r)
  PROVE  pc'[r] # pc[r]
<1>1. pc[r] \in InSlot \/ pc[r] \in {"refreshing", "created"}
  BY DEF Works, CreateExecutor, Begin, Resume, Load, Reject, MarkRunning, Spawn, RecordPid,
     ProcessEnded, Finalize, MarkFailed, Finish, InSlot
<1> QED
  BY <1>1, SlotWork, OutsideWork

\* Under the console too the executors work on and the processes end.
LEMMA ExecutorsWorkOn ==
  ASSUME NEW r \in Runs
  PROVE  /\ ConsoleFairSpec /\ []PageGuardsEnable => WorksOn(r)
         /\ ConsoleFairSpec /\ OutputEnds /\ []PageGuardsEnable => RunsOut(r) /\ ImportsThen(r)
<1>1. ConsoleFairness => ExecutesOn(r)
  BY DEF ConsoleFairness
<1>2. OutputEnds => OutputOf(r) /\ ImportOf(r)
  BY DEF OutputEnds
<1>3. PageGuardsEnable => ExecutorFree(r) /\ OutputFree(r)
  BY DEF PageGuardsEnable
<1>4. IInv /\ <<Executes(r)>>_allVars => <<Works(r)>>_vars
  <2> SUFFICES ASSUME IInv, Executes(r)
               PROVE  <<Works(r)>>_vars
    OBVIOUS
  <2>1. Works(r)
    BY DEF Executes, Works
  <2>2. pc' # pc
    BY <2>1, WorkMoves
  <2> QED
    BY <2>1, <2>2 DEF vars
<1>5. IInv /\ <<ProcessExit(r) /\ Happens(r)>>_allVars => <<ProcessExit(r)>>_vars
  <2> SUFFICES ASSUME IInv, ProcessExit(r)
               PROVE  <<ProcessExit(r)>>_vars
    OBVIOUS
  <2>1. proc' # proc
    BY DEF IInv, TypeOK, ProcessExit
  <2> QED
    BY <2>1 DEF vars, procVars
<1>6. IInv /\ <<Imported(r) /\ Happens(r)>>_allVars => <<Imported(r)>>_vars
  <2> SUFFICES ASSUME IInv, Imported(r)
               PROVE  <<Imported(r)>>_vars
    OBVIOUS
  <2>1. pc' # pc
    BY DEF IInv, TypeOK, Imported
  <2> QED
    BY <2>1 DEF vars
<1> QED
  BY <1>1, <1>2, <1>3, <1>4, <1>5, <1>6, ConsoleRuns, InvariantHolds, PTL
     DEF ConsoleFairSpec, ExecutesOn, OutputOf, ImportOf, ExecutorFree, OutputFree, WorksOn,
         RunsOut, ImportsThen

LEMMA PagesWorkOn ==
  ASSUME NEW p \in Pages
  PROVE  ConsoleFairSpec /\ []PageGuardsEnable => PageWorksOn(p)
<1>1. ConsoleFairness => StreamsOn(p)
  BY DEF ConsoleFairness
<1>2. PageGuardsEnable => PageFree(p)
  BY DEF PageGuardsEnable
<1> QED
  BY <1>1, <1>2, PTL DEF ConsoleFairSpec, StreamsOn, PageFree, PageWorksOn

\* The stages of a stream handler: no step of anybody takes it back.
LEMMA PageMoves ==
  ASSUME StreamInv, [ConsoleNext]_allVars, NEW p \in Pages
  PROVE  /\ page[p] = "meta" => page'[p] \in {"meta", "following", "replaying", "away"}
         /\ page[p] = "following" => page'[p] \in {"following", "replaying", "away"}
         /\ page[p] = "replaying" => page'[p] \in {"replaying", "closing", "away"}
         /\ page[p] = "closing" => page'[p] \in {"closing", "done", "away"}
<1>0. DOMAIN page = Pages
  BY DEF StreamInv, ConsoleInv, ConsoleTypeOK
<1>1. ASSUME NEW q \in Pages, OpenPage(q) \/ LeavePage(q)
      PROVE  \/ page'[p] = page[p] \/ page'[p] = "away" \/ page[p] \in {"away", "done"}
  BY <1>0, <1>1 DEF OpenPage, LeavePage
<1>2. ASSUME NEW q \in Pages, Subscribe(q) \/ SkipBus(q) \/ StopFollowing(q)
      PROVE  \/ page'[p] = page[p]
             \/ page[p] = "meta" /\ page'[p] \in {"following", "replaying"}
             \/ page[p] = "following" /\ page'[p] = "replaying"
  BY <1>0, <1>2 DEF Subscribe, SkipBus, StopFollowing
<1>3. ASSUME NEW q \in Pages, SendLine(q) \/ Replay(q) \/ SendEnd(q)
      PROVE  \/ page'[p] = page[p]
             \/ page[p] = "replaying" /\ page'[p] = "closing"
             \/ page[p] = "closing" /\ page'[p] = "done"
  BY <1>0, <1>3 DEF SendLine, Replay, SendEnd
<1>4. ASSUME NEW r \in Runs, Executes(r) \/ Happens(r)
      PROVE  page' = page
  BY <1>4 DEF Executes, Happens, NotePath, CloseSubscribers, pageVars, consoleVars
<1>5. CASE ServerSteps
  BY <1>5 DEF ServerSteps, ConnectionsLost, consoleVars, pageVars
<1>6. CASE ReadLine \/ UNCHANGED allVars
  BY <1>6 DEF ReadLine, allVars, consoleVars, pageVars
<1> QED
  BY <1>1, <1>2, <1>3, <1>4, <1>5, <1>6 DEF ConsoleNext, Streams

\* A page that still follows a run that is over, with n entries left in its queue.
Draining(p) == page[p] = "following" /\ pc[Watched] = "gone"
Left(p, n) == Draining(p) /\ Len(queue[p]) = n
Fewer(p, n) == ~Draining(p) \/ \E m \in 0..(n - 1) : Left(p, m)

\* It is not subscribed any more, and the sentinel is still to come.
LEMMA DrainingPage ==
  ASSUME StreamInv, NEW p \in Pages, Draining(p)
  PROVE  /\ p \notin subscribers /\ queue[p] # <<>> /\ queue[p] \in Seq(0..MaxLines)
         /\ PageCanGoOn(p)
<1>1. /\ ActiveIsExecuting /\ FollowersHear /\ queue[p] \in Seq(0..MaxLines)
      /\ server = "up"
  BY DEF StreamInv, ConsoleInv, IInv, ConsoleTypeOK, PagesNeedServer, Draining
<1>2. Watched \notin active
  BY <1>1, WatchedAssumption DEF ActiveIsExecuting, Draining, Holders, InSlot
<1> QED
  BY <1>1, <1>2 DEF FollowersHear, Draining, PageCanGoOn

\* Nothing joins the queue, and the handler's own step takes from it.
LEMMA QueueStep ==
  ASSUME StreamInv, [ConsoleNext]_allVars, NEW p \in Pages, NEW n \in Nat, Left(p, n)
  PROVE  /\ Left(p, n)' \/ Fewer(p, n)'
         /\ Streams(p) => Fewer(p, n)'
<1>0. /\ Draining(p) /\ Len(queue[p]) = n /\ DOMAIN queue = Pages /\ DOMAIN page = Pages
      /\ p \notin subscribers /\ queue[p] # <<>> /\ queue[p] \in Seq(0..MaxLines)
  BY DrainingPage DEF Left, StreamInv, ConsoleInv, ConsoleTypeOK
<1>1. pc'[Watched] = "gone"
  BY <1>0, ConsoleStepIsRunnerStep, OutsideMoves, WatchedAssumption
     DEF Draining, StreamInv, ConsoleInv
<1>2. ASSUME Streams(p)
      PROVE  Fewer(p, n)'
  <2>1. CASE SendLine(p)
    <3>1. queue'[p] = Tail(queue[p]) /\ Len(Tail(queue[p])) = n - 1 /\ n - 1 \in Nat
      BY <1>0, <2>1, HeadTailProperties DEF SendLine
    <3>2. page'[p] = "following"
      BY <2>1 DEF SendLine
    <3>3. n - 1 \in 0..(n - 1) /\ Left(p, n - 1)'
      BY <1>1, <3>1, <3>2 DEF Left, Draining
    <3> QED
      BY <3>3 DEF Fewer
  <2>2. CASE StopFollowing(p)
    BY <1>0, <2>2 DEF StopFollowing, Fewer, Draining
  <2> QED
    BY <1>0, <1>2, <2>1, <2>2 DEF Streams, Subscribe, SkipBus, Replay, SendEnd, Draining
<1>3. ASSUME UNCHANGED <<queue, page>>
      PROVE  Left(p, n)'
  BY <1>0, <1>1, <1>3 DEF Left, Draining
<1>4. ASSUME page'[p] # "following"
      PROVE  Fewer(p, n)'
  BY <1>4 DEF Fewer, Draining
<1>5. ASSUME NEW q \in Pages, OpenPage(q) \/ Streams(q) \/ LeavePage(q), q # p
      PROVE  Left(p, n)'
  <2>1. page'[p] = page[p] /\ queue'[p] = queue[p]
    BY <1>0, <1>5 DEF OpenPage, Streams, Subscribe, SkipBus, SendLine, StopFollowing, Replay,
       SendEnd, LeavePage, busVars
  <2> QED
    BY <1>0, <1>1, <2>1 DEF Left, Draining
<1>6. ASSUME OpenPage(p) \/ LeavePage(p)
      PROVE  page'[p] # "following"
  BY <1>0, <1>6 DEF OpenPage, LeavePage
<1>7. ASSUME NEW r \in Runs, Executes(r) \/ Happens(r)
      PROVE  Left(p, n)'
  <2>1. page'[p] = page[p] /\ queue'[p] = queue[p]
    BY <1>0, <1>7 DEF Executes, Happens, NotePath, CloseSubscribers, pageVars, consoleVars, busVars
  <2> QED
    BY <1>0, <1>1, <2>1 DEF Left, Draining
<1>8. ASSUME ServerSteps
      PROVE  Left(p, n)' \/ Fewer(p, n)'
  <2>1. CASE ConnectionsLost
    BY <1>0, <1>4, <2>1 DEF ConnectionsLost, Connected, Draining
  <2> QED
    BY <1>3, <1>8, <2>1 DEF ServerSteps, consoleVars, busVars, pageVars
<1>9. ~ReadLine
  BY <1>0 DEF ReadLine, Draining
<1> QED
  BY <1>2, <1>3, <1>4, <1>5, <1>6, <1>7, <1>8, <1>9
     DEF ConsoleNext, allVars, consoleVars, busVars, pageVars

\* So the queue of a page whose run is over gets shorter, whatever its length.
QueueMoves(p) == \A n \in Nat : Left(p, n) ~> Fewer(p, n)
QueuesMove == \A p \in Pages : QueueMoves(p)

LEMMA TheQueueMoves ==
  ASSUME NEW p \in Pages
  PROVE  ConsoleSpec /\ PageWorksOn(p) => QueueMoves(p)
<1> SUFFICES ASSUME NEW n \in Nat
             PROVE  ConsoleSpec /\ PageWorksOn(p) => (Left(p, n) ~> Fewer(p, n))
  BY DEF QueueMoves
<1>1. StreamInv /\ [ConsoleNext]_allVars /\ Left(p, n) => Left(p, n)' \/ Fewer(p, n)'
  BY QueueStep
<1>2. StreamInv /\ <<Streams(p)>>_allVars /\ Left(p, n) => Fewer(p, n)'
  <2> SUFFICES ASSUME StreamInv, Streams(p), Left(p, n)
               PROVE  Fewer(p, n)'
    OBVIOUS
  <2>1. [ConsoleNext]_allVars
    BY DEF ConsoleNext
  <2> QED
    BY <2>1, QueueStep
<1>3. StreamInv /\ Left(p, n) => PageCanGoOn(p)
  BY DrainingPage DEF Left
<1> QED
  BY <1>1, <1>2, <1>3, StreamInvariantHolds, PTL DEF ConsoleSpec, PageWorksOn

\* The countdown of the queue, as those in RunnerLiveness: a queue has a length.
QueuesCountDown == QueuesMove => \A p \in Pages : (Draining(p) ~> ~Draining(p))

\* Every page that stays open is sent its end event, for any number of runs, pages and
\* lines and any history: through a wait in line, a run, faults and a crash, the sentinel
\* comes, the queue is drained and the handler goes on to the end.  Again if processes
\* and imports end and there are process ids.
THEOREM EveryPageEnds ==
  ASSUME EnoughPids
  PROVE  ConsoleFairSpec /\ []PageGuardsEnable /\ LineCountsDown /\ QueuesCountDown => PagesEnd
<1> SUFFICES ASSUME NEW p \in Pages
             PROVE  ConsoleFairSpec /\ []PageGuardsEnable /\ LineCountsDown /\ QueuesCountDown =>
                      (OutputEnds => (page[p] = "meta" ~> page[p] \in {"done", "away"}))
  BY DEF PagesEnd
\* The run comes to its end.
<1>1. ConsoleSpec => Spec /\ []StreamInv /\ []PidsLast
  BY ConsoleRuns, StreamInvariantHolds, PidsSuffice, EnoughPids, PTL
<1>2. ConsoleFairSpec /\ OutputEnds /\ []PageGuardsEnable => SlotsComeFree
  <2> SUFFICES ASSUME NEW r \in Runs
               PROVE  ConsoleFairSpec /\ OutputEnds /\ []PageGuardsEnable => LeavesSlot(r)
    BY DEF SlotsComeFree
  <2>1. /\ ConsoleFairSpec /\ []PageGuardsEnable => WorksOn(r)
        /\ ConsoleFairSpec /\ OutputEnds /\ []PageGuardsEnable => RunsOut(r) /\ ImportsThen(r)
    BY ExecutorsWorkOn
  <2>2. Spec /\ []PidsLast /\ WorksOn(r) /\ RunsOut(r) /\ ImportsThen(r) => LeavesSlot(r)
    BY SlotComesFree
  <2> QED
    BY <1>1, <2>1, <2>2, PTL DEF ConsoleFairSpec
<1>3. SlotsComeFree => LeavesSlot(Watched)
  BY WatchedAssumption DEF SlotsComeFree
<1>4. Spec /\ SlotsComeFree => LineMoves
  BY SlotsMoveTheLine
<1>5. LineCountsDown /\ LineMoves => LeavesLine(Watched)
  BY WatchedAssumption DEF LineCountsDown
<1>6. Spec /\ WorksOn(Watched) /\ LeavesSlot(Watched) /\ LeavesLine(Watched) =>
        ExecutorEnds(Watched)
  BY EveryExecutorEnds, WatchedAssumption
<1>7. ConsoleFairSpec /\ []PageGuardsEnable => WorksOn(Watched)
  BY ExecutorsWorkOn, WatchedAssumption
<1>8. StreamInv /\ page[p] = "following" => pc[Watched] # "none"
  BY WatchedAssumption DEF StreamInv, ConsoleInv, IInv, FollowersHear, PagesNeedServer,
     ActiveIsExecuting, Holders, InSlot
<1>9. StreamInv /\ [ConsoleNext]_allVars /\ pc[Watched] = "gone" => (pc[Watched] = "gone")'
  BY ConsoleStepIsRunnerStep, OutsideMoves, WatchedAssumption DEF StreamInv, ConsoleInv
\* The queue comes to its end.
<1>10. ConsoleFairSpec /\ []PageGuardsEnable => QueuesMove
  <2> SUFFICES ASSUME NEW q \in Pages
               PROVE  ConsoleFairSpec /\ []PageGuardsEnable => QueueMoves(q)
    BY DEF QueuesMove
  <2>1. ConsoleFairSpec /\ []PageGuardsEnable => PageWorksOn(q)
    BY PagesWorkOn
  <2>2. ConsoleSpec /\ PageWorksOn(q) => QueueMoves(q)
    BY TheQueueMoves
  <2> QED
    BY <2>1, <2>2, PTL DEF ConsoleFairSpec
<1>11. QueuesCountDown /\ QueuesMove => (Draining(p) ~> ~Draining(p))
  BY DEF QueuesCountDown
<1>12. page[p] = "following" /\ pc[Watched] = "gone" <=> Draining(p)
  BY DEF Draining
\* And so does the handler.
<1>13. StreamInv /\ [ConsoleNext]_allVars =>
         /\ page[p] = "meta" =>
              \/ (page[p] = "meta")' \/ (page[p] = "following")'
              \/ (page[p] = "replaying")' \/ (page[p] = "away")'
         /\ page[p] = "following" =>
              (page[p] = "following")' \/ (page[p] = "replaying")' \/ (page[p] = "away")'
         /\ page[p] = "replaying" =>
              (page[p] = "replaying")' \/ (page[p] = "closing")' \/ (page[p] = "away")'
         /\ page[p] = "closing" =>
              (page[p] = "closing")' \/ (page[p] = "done")' \/ (page[p] = "away")'
  BY PageMoves
<1>14. StreamInv /\ <<Streams(p)>>_allVars =>
         /\ page[p] = "meta" => ~((page[p] = "meta")')
         /\ page[p] = "replaying" => ~((page[p] = "replaying")')
         /\ page[p] = "closing" => ~((page[p] = "closing")')
  BY DEF Streams, Subscribe, SkipBus, SendLine, StopFollowing, Replay, SendEnd,
     StreamInv, ConsoleInv, ConsoleTypeOK
<1>15. /\ page[p] = "meta" => PageCanGoOn(p)
       /\ page[p] = "replaying" => PageCanGoOn(p)
       /\ page[p] = "closing" => PageCanGoOn(p)
  BY DEF PageCanGoOn
<1>16. ConsoleFairSpec /\ []PageGuardsEnable => PageWorksOn(p)
  BY PagesWorkOn
<1>17. /\ page[p] = "done" => page[p] \in {"done", "away"}
       /\ page[p] = "away" => page[p] \in {"done", "away"}
  OBVIOUS
<1> QED
  BY <1>1, <1>2, <1>3, <1>4, <1>5, <1>6, <1>7, <1>8, <1>9, <1>10, <1>11, <1>12, <1>13, <1>14,
     <1>15, <1>16, <1>17, PTL DEF ConsoleFairSpec, ConsoleSpec, PageWorksOn, ExecutorEnds
=============================================================================
