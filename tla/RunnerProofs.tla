---------------------------- MODULE RunnerProofs ----------------------------
(***************************************************************************)
(* The runner's slot discipline and the finality and truth of its          *)
(* outcomes, for any number of runs and any limit.                         *)
(***************************************************************************)
EXTENDS Runner, FiniteSetTheorems, SequenceTheorems, TLAPS

-----------------------------------------------------------------------------
\* A server process that is down has no executor and no memory.
DownIsEmpty ==
  server = "down" => /\ active = {}
                     /\ \A r \in Runs : pc[r] \in {"none", "gone"}

\* Up to the commit of _finalize_run or of _mark_run_failed nobody writes an outcome
\* for a run that still has an executor: only a cancel may come before.
Undecided == {"refreshing", "created", "waiting", "granted", "loading", "importing", "preparing",
              "spawning", "recording", "streaming", "finalizing"}

NoEarlyOutcome ==
  \A r \in Runs :
    /\ pc[r] = "none" => status[r] \in {"absent", "cancelled"}
    /\ pc[r] \in Undecided => status[r] \notin {"succeeded", "failed"}

IInv ==
  /\ TypeOK
  /\ PermitAccounting
  /\ NoLostWakeup
  /\ ActiveIsExecuting
  /\ DownIsEmpty
  /\ NoEarlyOutcome

-----------------------------------------------------------------------------
\* Sets of runs are finite, and so are their counts.
LEMMA RunSetsFinite ==
  ASSUME NEW S \in SUBSET Runs
  PROVE  IsFiniteSet(S) /\ Cardinality(S) \in Nat
BY RunsAssumption, FS_Subset, FS_CardinalityType

\* The first n entries of a line in which nobody stands twice are n runs.
LEMMA PrefixCardinality ==
  ASSUME NEW s \in Seq(Runs), NEW n \in 0..Len(s),
         \A i, j \in 1..Len(s) : s[i] = s[j] => i = j
  PROVE  Cardinality({s[i] : i \in 1..n}) = n
<1> DEFINE S == {s[i] : i \in 1..n}
           f == [i \in 1..n |-> s[i]]
<1>1. f \in Bijection(1..n, S)
  <2>1. n \in 0..Len(s) /\ Len(s) \in Nat
    OBVIOUS
  <2>2. f \in [1..n -> S]
    OBVIOUS
  <2>3. \A i, j \in 1..n : f[i] = f[j] => i = j
    BY <2>1
  <2>4. \A t \in S : \E i \in 1..n : f[i] = t
    OBVIOUS
  <2> QED
    BY <2>2, <2>3, <2>4, Zenon DEF Bijection, Injection, Surjection, IsInjective
<1>2. ExistsBijection(1..n, S)
  BY <1>1 DEF ExistsBijection
<1>3. IsFiniteSet(1..n) /\ Cardinality(1..n) = n
  BY FS_Interval
<1> QED
  BY <1>2, <1>3, FS_Bijection

\* The count of two sets of runs with nothing in common.
LEMMA DisjointUnion ==
  ASSUME NEW S \in SUBSET Runs, NEW T \in SUBSET Runs, S \cap T = {}
  PROVE  Cardinality(S \cup T) = Cardinality(S) + Cardinality(T)
<1>1. IsFiniteSet(S) /\ IsFiniteSet(T) /\ Cardinality(S) \in Nat /\ Cardinality(T) \in Nat
  BY RunSetsFinite
<1>2. Cardinality(S \cup T) = Cardinality(S) + Cardinality(T) - Cardinality(S \cap T)
  BY <1>1, FS_Union
<1> QED
  BY <1>1, <1>2, FS_EmptySet

-----------------------------------------------------------------------------
\* What Wake does to the line and who is woken.
LEMMA WakeProperties ==
  ASSUME TypeOK, NoLostWakeup, NEW n \in 0..Len(waiters)
  PROVE  /\ Woken(n) \in SUBSET {r \in Runs : pc[r] = "waiting"}
         /\ Cardinality(Woken(n)) = n
         /\ SubSeq(waiters, n + 1, Len(waiters)) \in Seq(Runs)
         /\ Len(SubSeq(waiters, n + 1, Len(waiters))) = Len(waiters) - n
         /\ \A i \in 1..(Len(waiters) - n) :
              SubSeq(waiters, n + 1, Len(waiters))[i] = waiters[i + n]
         /\ \A r \in Runs \ Woken(n) : pc[r] = "waiting" <=>
              \E i \in 1..(Len(waiters) - n) : waiters[i + n] = r
         /\ \A i \in 1..(Len(waiters) - n) : waiters[i + n] \notin Woken(n)
<1> DEFINE w == waiters
           L == Len(waiters)
<1>0. w \in Seq(Runs) /\ L \in Nat
  BY DEF TypeOK
<1>1. \A i \in 1..L : w[i] \in Runs /\ pc[w[i]] = "waiting"
  BY <1>0, ElementOfSeq DEF NoLostWakeup
<1>2. Woken(n) \in SUBSET {r \in Runs : pc[r] = "waiting"}
  BY <1>0, <1>1 DEF Woken
<1>3. Cardinality(Woken(n)) = n
  <2>1. \A i, j \in 1..Len(waiters) : waiters[i] = waiters[j] => i = j
    BY DEF NoLostWakeup
  <2> QED
    BY <2>1, <1>0, PrefixCardinality DEF Woken
<1>4. /\ SubSeq(w, n + 1, L) \in Seq(Runs)
      /\ Len(SubSeq(w, n + 1, L)) = L - n
      /\ \A i \in 1..(L - n) : SubSeq(w, n + 1, L)[i] = w[i + n]
  BY <1>0, SubSeqProperties
<1>5. \A i \in 1..(L - n) : w[i + n] \notin Woken(n)
  BY <1>0 DEF Woken, NoLostWakeup
<1>6. \A r \in Runs \ Woken(n) : pc[r] = "waiting" <=> \E i \in 1..(L - n) : w[i + n] = r
  <2> TAKE r \in Runs \ Woken(n)
  <2>1. ASSUME pc[r] = "waiting"  PROVE \E i \in 1..(L - n) : w[i + n] = r
    <3>1. PICK k \in 1..L : w[k] = r
      BY <2>1 DEF NoLostWakeup
    <3>2. k \notin 1..n
      BY <3>1 DEF Woken
    <3>3. k - n \in 1..(L - n) /\ w[(k - n) + n] = r
      BY <3>1, <3>2, <1>0
    <3> QED
      BY <3>3
  <2>2. ASSUME NEW i \in 1..(L - n), w[i + n] = r  PROVE pc[r] = "waiting"
    <3>1. i + n \in 1..L
      BY <1>0
    <3> QED
      BY <2>2, <3>1, <1>1
  <2> QED
    BY <2>1, <2>2
<1> QED
  BY <1>2, <1>3, <1>4, <1>5, <1>6

-----------------------------------------------------------------------------
\* Steps that leave every executor on its side of the semaphore: the steps inside
\* the slot, those before the executor begins, and all the others.
Elsewhere == {"none", "refreshing", "created", "gone"}

StaysInSlot(r) ==
  /\ pc[r] \in InSlot \ {"granted"}
  /\ \E to \in InSlot \ {"granted"} : pc' = [pc EXCEPT ![r] = to]

StaysElsewhere(r) ==
  /\ pc[r] \in Elsewhere
  /\ \E to \in Elsewhere : pc' = [pc EXCEPT ![r] = to]

SameSides ==
  /\ Holders' = Holders
  /\ Granted' = Granted
  /\ \A r \in Runs : pc'[r] = "waiting" <=> pc[r] = "waiting"

LEMMA SidesKept ==
  ASSUME TypeOK, NEW r \in Runs,
         StaysInSlot(r) \/ StaysElsewhere(r) \/ UNCHANGED pc
  PROVE  SameSides
BY DEF StaysInSlot, StaysElsewhere, SameSides, Holders, Granted, InSlot, Elsewhere, TypeOK

InnerStep(r) ==
  \/ Load(r) \/ Imported(r) \/ Reject(r) \/ MarkRunning(r) \/ Spawn(r) \/ RecordPid(r)
  \/ ProcessEnded(r) \/ Finalize(r) \/ Raise(r) \/ MarkFailed(r) \/ MarkSwallowed(r)

OuterStep(r) == StartRun(r) \/ CreateExecutor(r) \/ RefreshRaises(r)

LEMMA InnerStaysInSlot ==
  ASSUME NEW r \in Runs, InnerStep(r)
  PROVE  StaysInSlot(r) /\ UNCHANGED <<server, semVars, active, cancelVars>>
BY Zenon DEF InnerStep, StaysInSlot, InSlot, InTry, AfterMark, Load, Imported, Reject, MarkRunning, Spawn,
   RecordPid, ProcessEnded, Finalize, Raise, MarkFailed, MarkSwallowed, cancelVars, semVars

LEMMA OuterStaysElsewhere ==
  ASSUME NEW r \in Runs, OuterStep(r)
  PROVE  StaysElsewhere(r) /\ UNCHANGED <<server, semVars, active>>
BY DEF OuterStep, StaysElsewhere, Elsewhere, StartRun, CreateExecutor, RefreshRaises, semVars

-----------------------------------------------------------------------------
\* The steps of Next, grouped for the proofs.
LEMMA NextCases ==
  ASSUME Next
  PROVE  \/ \E r \in Runs : \/ OuterStep(r) \/ Begin(r) \/ Resume(r) \/ InnerStep(r)
                             \/ Finish(r) \/ CancelHandler(r) \/ ProcessExit(r)
         \/ Shutdown \/ (Exit /\ server # "down") \/ Restart
BY DEF Next, Executor, Works, Fails, OuterStep, InnerStep, Stopped, Crash

-----------------------------------------------------------------------------
LEMMA TypeInit == Init => TypeOK
BY MaxConcurrentAssumption, PidsAssumption DEF Init, TypeOK, InSlot, Unfinished, Finished

\* Permits stay natural numbers that add up, whoever takes, hands over or drops one.
LEMMA AccountingStep ==
  ASSUME IInv, [Next]_vars
  PROVE  permits' \in Nat /\ PermitAccounting'
<1> DEFINE H == Holders
<1>0. /\ TypeOK /\ NoLostWakeup /\ permits \in Nat /\ MaxConcurrent \in Nat
      /\ permits + Cardinality(H) = MaxConcurrent
      /\ Len(waiters) \in Nat
  BY MaxConcurrentAssumption DEF IInv, TypeOK, PermitAccounting
<1>1. /\ H \in SUBSET Runs /\ IsFiniteSet(H) /\ Cardinality(H) \in Nat
      /\ Holders' \in SUBSET Runs
  BY RunSetsFinite DEF Holders
<1>2. ASSUME SameSides, UNCHANGED permits
      PROVE  permits' \in Nat /\ PermitAccounting'
  BY <1>0, <1>2 DEF SameSides, PermitAccounting
<1>3. ASSUME NEW r \in Runs, OuterStep(r) \/ InnerStep(r) \/ CancelHandler(r) \/ ProcessExit(r)
      PROVE  permits' \in Nat /\ PermitAccounting'
  <2>1. UNCHANGED permits
    BY <1>3, OuterStaysElsewhere, InnerStaysInSlot
       DEF CancelHandler, CancelRead, CancelSignal, CancelCommit, CancelRaises, ProcessExit,
           semVars
  <2>2. StaysInSlot(r) \/ StaysElsewhere(r) \/ UNCHANGED pc
    BY <1>3, OuterStaysElsewhere, InnerStaysInSlot
       DEF CancelHandler, CancelRead, CancelSignal, CancelCommit, CancelRaises, ProcessExit
  <2> QED
    BY <1>0, <1>2, <2>1, <2>2, SidesKept
<1>4. ASSUME NEW r \in Runs, Begin(r)
      PROVE  permits' \in Nat /\ PermitAccounting'
  <2>1. CASE ~Locked
    <3>1. permits' = permits - 1 /\ permits # 0 /\ pc' = [pc EXCEPT ![r] = "loading"]
      BY <1>4, <2>1 DEF Begin, Locked
    <3>2. r \notin H /\ Holders' = H \cup {r}
      BY <1>0, <1>4, <3>1 DEF Begin, TypeOK, Holders, InSlot
    <3>3. Cardinality(Holders') = Cardinality(H) + 1
      BY <1>1, <3>2, FS_AddElement
    <3> QED
      BY <1>0, <1>1, <3>1, <3>3 DEF PermitAccounting
  <2>2. CASE Locked
    <3>1. permits' = permits /\ pc[r] = "created" /\ pc' = [pc EXCEPT ![r] = "waiting"]
      BY <1>4, <2>2 DEF Begin
    <3>2. Holders' = H
      BY <1>0, <3>1 DEF TypeOK, Holders, InSlot
    <3> QED
      BY <1>0, <3>1, <3>2 DEF PermitAccounting
  <2> QED
    BY <2>1, <2>2
<1>5. ASSUME NEW r \in Runs, Resume(r)
      PROVE  permits' \in Nat /\ PermitAccounting'
  <2> DEFINE n == Least(permits, Len(waiters))
  <2>1. n \in 0..Len(waiters) /\ n <= permits /\ n \in Nat
    BY <1>0 DEF Least
  <2>2. permits' = permits - n
    BY <1>5 DEF Resume, Wake
  <2>3. /\ Woken(n) \in SUBSET {q \in Runs : pc[q] = "waiting"}
        /\ Cardinality(Woken(n)) = n
    BY <1>0, <2>1, WakeProperties
  <2>4. /\ pc[r] = "granted"
        /\ pc' = [q \in Runs |-> IF q = r THEN "loading"
                                ELSE IF q \in Woken(n) THEN "granted" ELSE pc[q]]
    BY <1>5 DEF Resume
  <2>5. Holders' = H \cup Woken(n)
    BY <2>3, <2>4 DEF Holders, InSlot
  <2>6. H \cap Woken(n) = {} /\ Woken(n) \in SUBSET Runs
    BY <2>3 DEF Holders, InSlot
  <2>7. Cardinality(Holders') = Cardinality(H) + n
    BY <1>1, <2>3, <2>5, <2>6, DisjointUnion
  <2> QED
    BY <1>0, <1>1, <2>1, <2>2, <2>7 DEF PermitAccounting
<1>6. ASSUME NEW r \in Runs, Finish(r)
      PROVE  permits' \in Nat /\ PermitAccounting'
  <2> DEFINE n == Least(1, Len(waiters))
             H1 == H \ {r}
  <2>1. n \in 0..Len(waiters) /\ n \in {0, 1}
    BY <1>0 DEF Least
  <2>2. permits' = (permits + 1) - n
    BY <1>6 DEF Finish, Wake
  <2>3. /\ Woken(n) \in SUBSET {q \in Runs : pc[q] = "waiting"}
        /\ Cardinality(Woken(n)) = n
    BY <1>0, <2>1, WakeProperties
  <2>4. /\ pc[r] \in {"committed", "closing"}
        /\ pc' = [q \in Runs |-> IF q = r THEN "gone"
                                ELSE IF q \in Woken(n) THEN "granted" ELSE pc[q]]
    BY <1>6 DEF Finish
  <2>5. Holders' = H1 \cup Woken(n)
    <3>1. "gone" \notin InSlot /\ "granted" \in InSlot
      BY DEF InSlot
    <3>2. \A q \in Runs : pc'[q] \in InSlot <=> q # r /\ (q \in Woken(n) \/ pc[q] \in InSlot)
      BY <2>3, <2>4, <3>1
    <3>3. r \notin Woken(n)
      BY <2>3, <2>4
    <3> QED
      BY <2>3, <3>2, <3>3 DEF Holders
  <2>6. H1 \cap Woken(n) = {} /\ Woken(n) \in SUBSET Runs /\ H1 \in SUBSET Runs
    <3>1. \A q \in H1 : pc[q] # "waiting"
      BY DEF Holders, InSlot
    <3> QED
      BY <2>3, <3>1 DEF Holders
  <2>7. r \in H
    BY <2>4 DEF Holders, InSlot
  <2>8. Cardinality(H1) = Cardinality(H) - 1
    BY <1>1, <2>7, FS_RemoveElement
  <2>9. Cardinality(Holders') = Cardinality(H) - 1 + n
    <3>1. Cardinality(H1 \cup Woken(n)) = Cardinality(H1) + Cardinality(Woken(n))
      BY <2>6, DisjointUnion
    <3> QED
      BY <2>3, <2>5, <2>8, <3>1
  <2> QED
    BY <1>0, <1>1, <2>1, <2>2, <2>9 DEF PermitAccounting
<1>7. CASE Shutdown
  <2>1. permits' = permits + Cardinality(Granted) /\ pc' = [q \in Runs |-> Interrupted(pc[q])]
    BY <1>7 DEF Shutdown
  <2>2. Granted \in SUBSET Runs
    BY DEF Granted
  <2>3. Holders' \cap Granted = {} /\ H = Holders' \cup Granted
    BY <2>1 DEF Holders, Granted, InSlot, InTry, Interrupted
  <2>4. Cardinality(H) = Cardinality(Holders') + Cardinality(Granted)
    BY <1>1, <2>2, <2>3, DisjointUnion
  <2>5. Cardinality(Granted) \in Nat /\ Cardinality(Holders') \in Nat
    BY <1>1, <2>2, RunSetsFinite
  <2> QED
    BY <1>0, <1>1, <2>1, <2>4, <2>5 DEF PermitAccounting
<1>8. CASE Exit
  <2>1. permits' = MaxConcurrent /\ Holders' = {}
    BY <1>8 DEF Exit, Holders, InSlot
  <2> QED
    BY <1>0, <2>1, FS_EmptySet DEF PermitAccounting
<1>9. CASE Restart
  BY <1>0, <1>9 DEF Restart, semVars, PermitAccounting, Holders
<1>10. CASE UNCHANGED vars
  BY <1>0, <1>10 DEF vars, semVars, PermitAccounting, Holders
<1> QED
  BY <1>3, <1>4, <1>5, <1>6, <1>7, <1>8, <1>9, <1>10, NextCases

LEMMA PermitBound ==
  ASSUME permits' \in Nat, PermitAccounting'
  PROVE  permits' \in 0..MaxConcurrent
<1>1. Holders' \in SUBSET Runs
  BY DEF Holders
<1>2. Cardinality(Holders') \in Nat
  BY <1>1, RunSetsFinite
<1> QED
  BY <1>2, MaxConcurrentAssumption DEF PermitAccounting

-----------------------------------------------------------------------------
\* The line holds exactly the waiting executors, and none sleeps beside a free
\* permit with nobody on the way to wake it.
LEMMA WakeupStep ==
  ASSUME IInv, [Next]_vars
  PROVE  NoLostWakeup'
<1>0. /\ TypeOK /\ NoLostWakeup /\ permits \in Nat
      /\ waiters \in Seq(Runs) /\ Len(waiters) \in Nat
  BY DEF IInv, TypeOK
<1>1. ASSUME SameSides, UNCHANGED semVars
      PROVE  NoLostWakeup'
  BY <1>0, <1>1 DEF SameSides, semVars, NoLostWakeup
<1>2. ASSUME NEW r \in Runs, OuterStep(r) \/ InnerStep(r) \/ CancelHandler(r) \/ ProcessExit(r)
      PROVE  NoLostWakeup'
  <2>1. UNCHANGED semVars
    BY <1>2, OuterStaysElsewhere, InnerStaysInSlot
       DEF CancelHandler, CancelRead, CancelSignal, CancelCommit, CancelRaises, ProcessExit,
           semVars
  <2>2. StaysInSlot(r) \/ StaysElsewhere(r) \/ UNCHANGED pc
    BY <1>2, OuterStaysElsewhere, InnerStaysInSlot
       DEF CancelHandler, CancelRead, CancelSignal, CancelCommit, CancelRaises, ProcessExit
  <2> QED
    BY <1>0, <1>1, <2>1, <2>2, SidesKept
<1>3. ASSUME NEW r \in Runs, Begin(r)
      PROVE  NoLostWakeup'
  <2>1. CASE ~Locked
    <3>1. /\ waiters' = waiters /\ waiters = <<>> /\ pc[r] = "created"
          /\ pc' = [pc EXCEPT ![r] = "loading"]
      BY <1>3, <2>1 DEF Begin, Locked
    <3> QED
      BY <1>0, <3>1 DEF NoLostWakeup, TypeOK
  <2>2. CASE Locked
    <3> DEFINE L == Len(waiters)
    <3>1. /\ waiters' = Append(waiters, r) /\ pc[r] = "created" /\ permits' = permits
          /\ pc' = [pc EXCEPT ![r] = "waiting"]
      BY <1>3, <2>2 DEF Begin
    <3>2. /\ Len(waiters') = L + 1 /\ waiters'[L + 1] = r
          /\ \A i \in 1..L : waiters'[i] = waiters[i]
      BY <1>0, <3>1, AppendProperties
    <3>3. \A q \in Runs : pc'[q] = "waiting" <=> (q = r \/ pc[q] = "waiting")
      BY <1>0, <3>1 DEF TypeOK
    <3>4. \A i \in 1..L : waiters[i] # r
      BY <1>0, <3>1, ElementOfSeq DEF NoLostWakeup
    <3>5. \A q \in Runs : pc'[q] = "waiting" <=> \E i \in 1..Len(waiters') : waiters'[i] = q
      <4> TAKE q \in Runs
      <4>1. CASE q = r
        BY <1>0, <3>2, <3>3, <4>1
      <4>2. CASE q # r
        <5>1. pc'[q] = "waiting" <=> \E i \in 1..L : waiters[i] = q
          BY <3>3, <4>2, <1>0 DEF NoLostWakeup
        <5>2. (\E i \in 1..L : waiters[i] = q) <=> \E i \in 1..(L + 1) : waiters'[i] = q
          BY <3>2, <4>2, <1>0
        <5> QED
          BY <5>1, <5>2, <3>2
      <4> QED
        BY <4>1, <4>2
    <3>6. \A i, j \in 1..Len(waiters') : waiters'[i] = waiters'[j] => i = j
      BY <1>0, <3>2, <3>4 DEF NoLostWakeup
    <3>7. permits' > 0 => Granted' # {}
      <4>1. Granted' = Granted
        BY <1>0, <3>1 DEF Granted, TypeOK
      <4> QED
        BY <1>0, <2>2, <3>1, <4>1 DEF Locked, NoLostWakeup
    <3> QED
      BY <3>5, <3>6, <3>7 DEF NoLostWakeup
  <2> QED
    BY <2>1, <2>2
<1>4. ASSUME NEW r \in Runs, NEW n \in 0..Len(waiters), NEW free \in Nat, n <= free,
             Wake(n, free), pc[r] # "waiting",
             n = Len(waiters) \/ n = free \/ n > 0,
             NEW to \in {"loading", "gone"},
             pc' = [q \in Runs |-> IF q = r THEN to
                                  ELSE IF q \in Woken(n) THEN "granted" ELSE pc[q]]
      PROVE  NoLostWakeup'
  <2> DEFINE M == Len(waiters) - n
             W == Woken(n)
  <2>1. /\ W \in SUBSET {q \in Runs : pc[q] = "waiting"}
        /\ Cardinality(W) = n
        /\ waiters' \in Seq(Runs)
        /\ Len(waiters') = M
        /\ \A i \in 1..M : waiters'[i] = waiters[i + n]
        /\ \A q \in Runs \ W : pc[q] = "waiting" <=> \E i \in 1..M : waiters[i + n] = q
        /\ \A i \in 1..M : waiters[i + n] \notin W
    BY <1>0, <1>4, WakeProperties DEF Wake
  <2>2. permits' = free - n /\ M \in Nat
    BY <1>0, <1>4 DEF Wake
  <2>3. \A q \in Runs : pc'[q] = "waiting" <=> (pc[q] = "waiting" /\ q \notin W)
    BY <1>4, <2>1
  <2>4. \A q \in Runs : pc'[q] = "waiting" <=> \E i \in 1..Len(waiters') : waiters'[i] = q
    <3> TAKE q \in Runs
    <3>1. (\E i \in 1..Len(waiters') : waiters'[i] = q) <=> \E i \in 1..M : waiters[i + n] = q
      BY <2>1
    <3>2. CASE q \in W
      BY <2>1, <2>3, <3>1, <3>2
    <3>3. CASE q \notin W
      BY <2>1, <2>3, <3>1, <3>3, Zenon
    <3> QED
      BY <3>2, <3>3
  <2>5. \A i, j \in 1..Len(waiters') : waiters'[i] = waiters'[j] => i = j
    <3> SUFFICES ASSUME NEW i \in 1..M, NEW j \in 1..M, waiters[i + n] = waiters[j + n]
                 PROVE  i = j
      BY <2>1
    <3>1. i + n \in 1..Len(waiters) /\ j + n \in 1..Len(waiters)
      BY <1>0
    <3> QED
      BY <1>0, <3>1 DEF NoLostWakeup
  <2>6. waiters' # <<>> /\ permits' > 0 => Granted' # {}
    <3> HAVE waiters' # <<>> /\ permits' > 0
    <3>1. M # 0
      BY <2>1
    <3>2. n > 0
      BY <1>0, <1>4, <2>2, <3>1
    <3>3. waiters[1] \in W /\ waiters[1] # r /\ waiters[1] \in Runs
      BY <1>4, <2>1, <3>2 DEF Woken
    <3>4. pc'[waiters[1]] = "granted"
      BY <1>4, <3>3
    <3> QED
      BY <3>3, <3>4 DEF Granted
  <2> QED
    BY <2>4, <2>5, <2>6 DEF NoLostWakeup
<1>5. ASSUME NEW r \in Runs, Resume(r)
      PROVE  NoLostWakeup'
  <2> DEFINE n == Least(permits, Len(waiters))
  <2>1. /\ n \in 0..Len(waiters) /\ n <= permits
        /\ n = Len(waiters) \/ n = permits
    BY <1>0 DEF Least
  <2>2. /\ Wake(n, permits) /\ pc[r] # "waiting"
        /\ pc' = [q \in Runs |-> IF q = r THEN "loading"
                                ELSE IF q \in Woken(n) THEN "granted" ELSE pc[q]]
    BY <1>5, Zenon DEF Resume
  <2> HIDE DEF n
  <2> QED
    BY <1>0, <1>4, <2>1, <2>2
<1>6. ASSUME NEW r \in Runs, Finish(r)
      PROVE  NoLostWakeup'
  <2> DEFINE n == Least(1, Len(waiters))
             free == permits + 1
  <2>1. /\ n \in 0..Len(waiters) /\ n <= free /\ free \in Nat
        /\ n = Len(waiters) \/ n > 0
    BY <1>0 DEF Least
  <2>2. /\ Wake(n, free) /\ pc[r] # "waiting"
        /\ pc' = [q \in Runs |-> IF q = r THEN "gone"
                                ELSE IF q \in Woken(n) THEN "granted" ELSE pc[q]]
    BY <1>6 DEF Finish
  <2> HIDE DEF n, free
  <2> QED
    BY <1>0, <1>4, <2>1, <2>2
<1>7. ASSUME Shutdown \/ Exit
      PROVE  NoLostWakeup'
  <2>1. waiters' = <<>> /\ \A q \in Runs : pc'[q] # "waiting"
    BY <1>7 DEF Shutdown, Exit, Interrupted, InTry
  <2> QED
    BY <2>1 DEF NoLostWakeup
<1>8. ASSUME Restart \/ UNCHANGED vars
      PROVE  NoLostWakeup'
  BY <1>0, <1>8 DEF Restart, vars, semVars, NoLostWakeup, Granted
<1> QED
  BY <1>2, <1>3, <1>5, <1>6, <1>7, <1>8, NextCases

-----------------------------------------------------------------------------
\* Every column and field keeps its type.
LEMMA TypeStep ==
  ASSUME IInv, [Next]_vars
  PROVE  TypeOK'
<1>0. TypeOK /\ NoLostWakeup
  BY DEF IInv
<1>1. permits' \in 0..MaxConcurrent
  BY AccountingStep, PermitBound
<1>a. \A n \in 0..Len(waiters) : SubSeq(waiters, n + 1, Len(waiters)) \in Seq(Runs)
  BY <1>0, WakeProperties
<1> USE DEF TypeOK, jobVars, semVars, procVars, cancelVars
<1>2. ASSUME NEW r \in Runs, OuterStep(r)
      PROVE  TypeOK'
  BY <1>0, <1>1, <1>2
     DEF OuterStep, StartRun, CreateExecutor, RefreshRaises, Unfinished
<1>3. ASSUME NEW r \in Runs, InnerStep(r)
      PROVE  TypeOK'
  <2>1. CASE Load(r) \/ Imported(r) \/ Reject(r) \/ ProcessEnded(r) \/ Raise(r)
    BY <1>0, <1>1, <2>1 DEF Load, Imported, Reject, ProcessEnded, Raise, InSlot
  <2>2. CASE MarkRunning(r) \/ RecordPid(r) \/ Finalize(r)
    BY <1>0, <1>1, <2>2 DEF MarkRunning, RecordPid, Finalize, InSlot, Unfinished, Finished
  <2>3. CASE MarkFailed(r) \/ MarkSwallowed(r)
    BY <1>0, <1>1, <2>3 DEF MarkFailed, MarkSwallowed, AfterMark, InSlot, Finished
  <2>4. CASE Spawn(r)
    BY <1>0, <1>1, <2>4 DEF Spawn, InSlot
  <2> QED
    BY <1>3, <2>1, <2>2, <2>3, <2>4 DEF InnerStep
<1>4. ASSUME NEW r \in Runs, Begin(r)
      PROVE  TypeOK'
  <2>1. waiters' \in Seq(Runs)
    BY <1>0, <1>4, AppendProperties DEF Begin
  <2> QED
    BY <1>0, <1>1, <1>4, <2>1 DEF Begin, InSlot
<1>5. ASSUME NEW r \in Runs, Resume(r) \/ Finish(r)
      PROVE  TypeOK'
  <2>1. waiters' \in Seq(Runs)
    <3>1. /\ Least(permits, Len(waiters)) \in 0..Len(waiters)
          /\ Least(1, Len(waiters)) \in 0..Len(waiters)
      BY <1>0 DEF Least
    <3>2. \E n \in 0..Len(waiters) : waiters' = SubSeq(waiters, n + 1, Len(waiters))
      BY <1>5, <3>1, Zenon DEF Resume, Finish, Wake
    <3> QED
      BY <1>a, <3>2
  <2>2. pc' \in [Runs -> InSlot \cup {"none", "refreshing", "created", "waiting", "gone"}]
    BY <1>0, <1>5 DEF Resume, Finish, InSlot
  <2>3. active' \subseteq Runs /\ UNCHANGED <<server, jobVars, procVars, cancelVars>>
    BY <1>0, <1>5 DEF Resume, Finish
  <2> QED
    BY <1>0, <1>1, <2>1, <2>2, <2>3
<1>6. ASSUME NEW r \in Runs, CancelHandler(r)
      PROVE  TypeOK'
  <2>1. CASE CancelRead(r)
    BY <1>0, <1>1, <2>1, PidsAssumption DEF CancelRead
  <2>2. CASE CancelSignal(r)
    BY <1>0, <1>1, <2>2 DEF CancelSignal, Bearers
  <2>3. CASE CancelCommit(r)
    BY <1>0, <1>1, <2>3, PidsAssumption DEF CancelCommit, Finished
  <2>4. CASE CancelRaises(r)
    BY <1>0, <1>1, <2>4, PidsAssumption DEF CancelRaises
  <2> QED
    BY <1>6, <2>1, <2>2, <2>3, <2>4 DEF CancelHandler
<1>7. ASSUME NEW r \in Runs, ProcessExit(r)
      PROVE  TypeOK'
  BY <1>0, <1>1, <1>7 DEF ProcessExit
<1>8. ASSUME Shutdown \/ Exit
      PROVE  TypeOK'
  <2>1. waiters' \in Seq(Runs)
    BY <1>8, EmptySeq DEF Shutdown, Exit
  <2>2. pc' \in [Runs -> InSlot \cup {"none", "refreshing", "created", "waiting", "gone"}]
    BY <1>0, <1>8 DEF Shutdown, Exit, Interrupted, InTry, InSlot
  <2>3. /\ server' \in {"stopping", "down"} /\ active' \subseteq Runs
        /\ cancel' \in [Runs -> {"idle", "pending", "running", "killed"}]
        /\ cancelPid' \in [Runs -> Pids \cup {NoPid}]
        /\ UNCHANGED <<jobVars, procVars>>
    BY <1>0, <1>8 DEF Shutdown, Exit
  <2> QED
    BY <1>0, <1>1, <2>1, <2>2, <2>3
<1>9. CASE Restart
  BY <1>0, <1>1, <1>9 DEF Restart, Finished, Unfinished
<1>10. CASE UNCHANGED vars
  BY <1>0, <1>1, <1>10 DEF vars
<1> QED
  BY <1>2, <1>3, <1>4, <1>5, <1>6, <1>7, <1>8, <1>9, <1>10, NextCases

-----------------------------------------------------------------------------
\* The set of active runs follows the executors, and is empty while no process is up.
LEMMA ActiveStep ==
  ASSUME IInv, [Next]_vars
  PROVE  ActiveIsExecuting' /\ DownIsEmpty'
<1>0. TypeOK /\ NoLostWakeup /\ ActiveIsExecuting /\ DownIsEmpty
  BY DEF IInv
<1>1. ASSUME NEW r \in Runs, OuterStep(r) \/ InnerStep(r) \/ CancelHandler(r) \/ ProcessExit(r)
      PROVE  ActiveIsExecuting' /\ DownIsEmpty'
  <2>1. UNCHANGED <<server, active>>
    BY <1>1, OuterStaysElsewhere, InnerStaysInSlot
       DEF CancelHandler, CancelRead, CancelSignal, CancelCommit, CancelRaises, ProcessExit
  <2>2. StaysInSlot(r) \/ StaysElsewhere(r) \/ UNCHANGED pc
    BY <1>1, OuterStaysElsewhere, InnerStaysInSlot
       DEF CancelHandler, CancelRead, CancelSignal, CancelCommit, CancelRaises, ProcessExit
  <2>3. SameSides
    BY <1>0, <2>2, SidesKept
  <2>4. ActiveIsExecuting'
    BY <1>0, <2>1, <2>3 DEF SameSides, ActiveIsExecuting
  <2>5. server = "down" => UNCHANGED pc
    <3> HAVE server = "down"
    <3>1. pc[r] \in {"none", "gone"}
      BY <1>0 DEF DownIsEmpty
    <3> QED
      BY <1>1, <3>1
         DEF OuterStep, StartRun, CreateExecutor, RefreshRaises, InnerStep, Load, Imported, Reject,
             MarkRunning, Spawn, RecordPid, ProcessEnded, Finalize, Raise, InTry, MarkFailed,
             MarkSwallowed, CancelHandler, CancelRead, CancelSignal, CancelCommit, CancelRaises,
             ProcessExit
  <2> QED
    BY <1>0, <2>1, <2>4, <2>5 DEF DownIsEmpty
<1>2. ASSUME NEW r \in Runs, Begin(r)
      PROVE  ActiveIsExecuting' /\ DownIsEmpty'
  <2>1. pc[r] = "created" /\ active' = active \cup {r} /\ UNCHANGED server
    BY <1>2 DEF Begin
  <2>2. \E to \in {"loading", "waiting"} : pc' = [pc EXCEPT ![r] = to]
    BY <1>2 DEF Begin
  <2>3. server # "down"
    BY <1>0, <2>1 DEF DownIsEmpty
  <2> QED
    BY <1>0, <2>1, <2>2, <2>3 DEF ActiveIsExecuting, DownIsEmpty, Holders, InSlot, TypeOK
<1>3. ASSUME NEW r \in Runs, Resume(r) \/ Finish(r)
      PROVE  ActiveIsExecuting' /\ DownIsEmpty'
  <2>1. /\ Least(permits, Len(waiters)) \in 0..Len(waiters)
        /\ Least(1, Len(waiters)) \in 0..Len(waiters)
    BY <1>0 DEF Least, TypeOK
  <2>2. \E n \in 0..Len(waiters), to \in {"loading", "gone"} :
          /\ pc' = [q \in Runs |-> IF q = r THEN to
                                  ELSE IF q \in Woken(n) THEN "granted" ELSE pc[q]]
          /\ active' = IF to = "gone" THEN active \ {r} ELSE active
    BY <1>3, <2>1 DEF Resume, Finish
  <2>3. PICK n \in 0..Len(waiters), to \in {"loading", "gone"} :
          /\ pc' = [q \in Runs |-> IF q = r THEN to
                                  ELSE IF q \in Woken(n) THEN "granted" ELSE pc[q]]
          /\ active' = IF to = "gone" THEN active \ {r} ELSE active
    BY <2>2
  <2>4. Woken(n) \in SUBSET {q \in Runs : pc[q] = "waiting"}
    BY <1>0, WakeProperties
  <2>5. UNCHANGED server /\ pc[r] \in {"granted", "committed", "closing"}
    BY <1>3 DEF Resume, Finish
  <2>6. server # "down"
    BY <1>0, <2>5 DEF DownIsEmpty
  <2> QED
    BY <1>0, <2>3, <2>4, <2>5, <2>6 DEF ActiveIsExecuting, DownIsEmpty, Holders, InSlot
<1>4. CASE Shutdown
  BY <1>4 DEF Shutdown, ActiveIsExecuting, DownIsEmpty
<1>5. CASE Exit
  BY <1>5 DEF Exit, ActiveIsExecuting, DownIsEmpty
<1>6. CASE Restart
  BY <1>0, <1>6 DEF Restart, ActiveIsExecuting, DownIsEmpty, Holders, InSlot
<1>7. CASE UNCHANGED vars
  BY <1>0, <1>7 DEF vars, ActiveIsExecuting, DownIsEmpty, Holders
<1> QED
  BY <1>1, <1>2, <1>3, <1>4, <1>5, <1>6, <1>7, NextCases

-----------------------------------------------------------------------------
\* Who may write an outcome, and when.
LEMMA OutcomeStep ==
  ASSUME IInv, [Next]_vars
  PROVE  NoEarlyOutcome'
<1>0. /\ TypeOK /\ NoLostWakeup /\ NoEarlyOutcome /\ DownIsEmpty
      /\ status \in [Runs -> Unfinished \cup Finished \cup {"absent"}]
      /\ DOMAIN pc = Runs
  BY DEF IInv, TypeOK
<1>1. ASSUME NEW r \in Runs, OuterStep(r) \/ InnerStep(r)
      PROVE  NoEarlyOutcome'
  <2>1. CASE StartRun(r)
    BY <1>0, <2>1 DEF StartRun, NoEarlyOutcome, Undecided
  <2>2. CASE CreateExecutor(r) \/ RefreshRaises(r)
    BY <1>0, <2>2 DEF CreateExecutor, RefreshRaises, jobVars, NoEarlyOutcome, Undecided
  <2>3. CASE Load(r) \/ Imported(r) \/ Reject(r) \/ ProcessEnded(r) \/ Raise(r) \/ MarkSwallowed(r)
    BY <1>0, <2>3
       DEF Load, Imported, Reject, ProcessEnded, Raise, MarkSwallowed, AfterMark, jobVars, NoEarlyOutcome,
           Undecided
  <2>4. CASE Spawn(r)
    BY <1>0, <2>4 DEF Spawn, jobVars, NoEarlyOutcome, Undecided
  <2>5. CASE MarkRunning(r) \/ RecordPid(r)
    BY <1>0, <2>5 DEF MarkRunning, RecordPid, NoEarlyOutcome, Undecided
  <2>6. CASE Finalize(r) \/ MarkFailed(r)
    <3>1. \E to \in {"committed", "closing"} : pc' = [pc EXCEPT ![r] = to]
      BY <2>6 DEF Finalize, MarkFailed, AfterMark
    <3>2. \A q \in Runs : q # r => status'[q] = status[q]
      BY <1>0, <2>6 DEF Finalize, MarkFailed
    <3> QED
      BY <1>0, <3>1, <3>2 DEF NoEarlyOutcome, Undecided
  <2> QED
    BY <1>1, <2>1, <2>2, <2>3, <2>4, <2>5, <2>6 DEF OuterStep, InnerStep
<1>2. ASSUME NEW r \in Runs, Begin(r)
      PROVE  NoEarlyOutcome'
  BY <1>0, <1>2 DEF Begin, jobVars, NoEarlyOutcome, Undecided
<1>3. ASSUME NEW r \in Runs, Resume(r) \/ Finish(r)
      PROVE  NoEarlyOutcome'
  <2>1. /\ Least(permits, Len(waiters)) \in 0..Len(waiters)
        /\ Least(1, Len(waiters)) \in 0..Len(waiters)
    BY <1>0 DEF Least, TypeOK
  <2>2. \E n \in 0..Len(waiters), to \in {"loading", "gone"} :
          /\ to = "loading" => pc[r] = "granted"
          /\ pc' = [q \in Runs |-> IF q = r THEN to
                                  ELSE IF q \in Woken(n) THEN "granted" ELSE pc[q]]
    BY <1>3, <2>1 DEF Resume, Finish
  <2>3. PICK n \in 0..Len(waiters), to \in {"loading", "gone"} :
          /\ to = "loading" => pc[r] = "granted"
          /\ pc' = [q \in Runs |-> IF q = r THEN to
                                  ELSE IF q \in Woken(n) THEN "granted" ELSE pc[q]]
    BY <2>2
  <2>4. Woken(n) \in SUBSET {q \in Runs : pc[q] = "waiting"}
    BY <1>0, WakeProperties
  <2>5. UNCHANGED status
    BY <1>3 DEF Resume, Finish, jobVars
  <2> QED
    BY <1>0, <2>3, <2>4, <2>5 DEF NoEarlyOutcome, Undecided
<1>4. ASSUME NEW r \in Runs, CancelHandler(r) \/ ProcessExit(r)
      PROVE  NoEarlyOutcome'
  <2>1. UNCHANGED pc
    BY <1>4 DEF CancelHandler, CancelRead, CancelSignal, CancelCommit, CancelRaises, ProcessExit
  <2>2. status' = status \/ status' = [status EXCEPT ![r] = "cancelled"]
    BY <1>4
       DEF CancelHandler, CancelRead, CancelSignal, CancelCommit, CancelRaises, ProcessExit,
           jobVars
  <2> QED
    BY <1>0, <2>1, <2>2 DEF NoEarlyOutcome
<1>5. ASSUME Shutdown \/ Exit
      PROVE  NoEarlyOutcome'
  <2>1. /\ UNCHANGED status
        /\ \A q \in Runs : /\ pc'[q] \notin Undecided
                           /\ pc'[q] = "none" => pc[q] = "none"
    BY <1>5 DEF Shutdown, Exit, Interrupted, InTry, Undecided, jobVars
  <2> QED
    BY <1>0, <2>1 DEF NoEarlyOutcome
<1>6. CASE Restart
  <2>1. \A q \in Runs : pc[q] \in {"none", "gone"}
    BY <1>0, <1>6 DEF Restart, DownIsEmpty
  <2>2. /\ UNCHANGED pc
        /\ \A q \in Runs : status[q] \notin Unfinished => status'[q] = status[q]
    BY <1>6 DEF Restart
  <2> QED
    BY <1>0, <2>1, <2>2 DEF NoEarlyOutcome, Undecided, Unfinished
<1>7. CASE UNCHANGED vars
  BY <1>0, <1>7 DEF vars, jobVars, NoEarlyOutcome
<1> QED
  BY <1>1, <1>2, <1>3, <1>4, <1>5, <1>6, <1>7, NextCases

-----------------------------------------------------------------------------
\* The invariant holds at the start and is kept by every step.
LEMMA InvariantInit == Init => IInv
<1> SUFFICES ASSUME Init  PROVE IInv
  OBVIOUS
<1>1. TypeOK
  BY TypeInit
<1>2. Holders = {} /\ Cardinality(Holders) = 0 /\ MaxConcurrent \in Nat
  BY FS_EmptySet, MaxConcurrentAssumption DEF Init, Holders, InSlot
<1>3. PermitAccounting
  BY <1>2 DEF Init, PermitAccounting
<1>4. NoLostWakeup
  BY DEF Init, NoLostWakeup
<1>5. ActiveIsExecuting
  BY <1>2 DEF Init, ActiveIsExecuting
<1>6. DownIsEmpty /\ NoEarlyOutcome
  BY DEF Init, DownIsEmpty, NoEarlyOutcome, Undecided
<1> QED
  BY <1>1, <1>3, <1>4, <1>5, <1>6 DEF IInv

LEMMA InvariantStep == IInv /\ [Next]_vars => IInv'
BY TypeStep, AccountingStep, WakeupStep, ActiveStep, OutcomeStep DEF IInv

\* All parts of the invariant hold in every reachable state.
THEOREM InvariantHolds == Spec => []IInv
BY InvariantInit, InvariantStep, PTL DEF Spec

\* The columns of jobs and the fields of RunnerService keep their types.
THEOREM TypeCorrect == Spec => []TypeOK
<1>1. IInv => TypeOK
  BY DEF IInv
<1> QED
  BY <1>1, InvariantHolds, PTL

\* No permit of the semaphore is lost or invented, whatever fails or is interrupted.
THEOREM SlotAccounting == Spec => []PermitAccounting
<1>1. IInv => PermitAccounting
  BY DEF IInv
<1> QED
  BY <1>1, InvariantHolds, PTL

\* No executor sleeps in line beside a free permit.
THEOREM NobodyForgotten == Spec => []NoLostWakeup
<1>1. IInv => NoLostWakeup
  BY DEF IInv
<1> QED
  BY <1>1, InvariantHolds, PTL

\* is_active tells the log stream exactly when there is an executor to listen to.
THEOREM ActiveExact == Spec => []ActiveIsExecuting
<1>1. IInv => ActiveIsExecuting
  BY DEF IInv
<1> QED
  BY <1>1, InvariantHolds, PTL

\* A recorded success or failure is never taken back to pending or running.
THEOREM OutcomesStand == Spec => OutcomeStands
<1> DEFINE Stands == \A r \in Runs : status[r] \in {"succeeded", "failed"} =>
                                       status'[r] \notin Unfinished
<1>1. ASSUME IInv, [Next]_vars
      PROVE  Stands
  <2>0. /\ NoEarlyOutcome /\ status \in [Runs -> Unfinished \cup Finished \cup {"absent"}]
    BY <1>1 DEF IInv, TypeOK
  <2>1. ASSUME NEW r \in Runs, OuterStep(r) \/ InnerStep(r)
        PROVE  Stands
    <3>1. CASE StartRun(r) \/ MarkRunning(r) \/ RecordPid(r)
      <4>1. status[r] \notin {"succeeded", "failed"}
        BY <2>0, <3>1 DEF StartRun, MarkRunning, RecordPid, NoEarlyOutcome, Undecided
      <4>2. \A q \in Runs : q # r => status'[q] = status[q]
        BY <2>0, <3>1 DEF StartRun, MarkRunning, RecordPid
      <4> QED
        BY <4>1, <4>2 DEF Unfinished
    <3>2. CASE Finalize(r) \/ MarkFailed(r)
      BY <2>0, <3>2 DEF Finalize, MarkFailed, Unfinished
    <3>3. CASE UNCHANGED status
      BY <3>3 DEF Unfinished
    <3> QED
      BY <2>1, <3>1, <3>2, <3>3
         DEF OuterStep, InnerStep, CreateExecutor, RefreshRaises, Load, Imported, Reject, Spawn,
             ProcessEnded, Raise, MarkSwallowed, jobVars
  <2>2. ASSUME NEW r \in Runs, CancelHandler(r)
        PROVE  Stands
    <3>1. status' = status \/ status' = [status EXCEPT ![r] = "cancelled"]
      BY <2>2 DEF CancelHandler, CancelRead, CancelSignal, CancelCommit, CancelRaises, jobVars
    <3> QED
      BY <2>0, <3>1 DEF Unfinished
  <2>3. CASE Restart
    BY <2>3 DEF Restart, Unfinished
  <2>4. CASE UNCHANGED status
    BY <2>4 DEF Unfinished
  <2> QED
    BY <1>1, <2>1, <2>2, <2>3, <2>4, NextCases
       DEF Begin, Resume, Finish, ProcessExit, Shutdown, Exit, vars, jobVars
<1>2. IInv /\ [Next]_vars => [Stands]_vars
  BY <1>1
<1> QED
  BY <1>2, InvariantHolds, PTL DEF Spec, OutcomeStands

-----------------------------------------------------------------------------
\* The detailed runner takes only the steps of the pool.

Gone == {r \in Runs : pc[r] = "gone"}

LEMMA LineIsWaiting ==
  ASSUME TypeOK, NoLostWakeup
  PROVE  Pool!Queued = {r \in Runs : pc[r] = "waiting"}
<1>1. \A i \in 1..Len(waiters) : waiters[i] \in Runs
  BY ElementOfSeq DEF TypeOK
<1> QED
  BY <1>1 DEF Pool!Queued, NoLostWakeup

LEMMA PoolStep ==
  ASSUME IInv, [Next]_vars
  PROVE  [Pool!Next]_(Pool!poolVars)
<1> DEFINE Still == UNCHANGED <<waiters, Holders, Gone>>
<1>0. /\ TypeOK /\ NoLostWakeup /\ PermitAccounting /\ permits \in Nat
      /\ waiters \in Seq(Runs) /\ Len(waiters) \in Nat
      /\ MaxConcurrent \in Nat /\ Cardinality(Holders) \in Nat /\ Holders \in SUBSET Runs
  <2>1. Holders \in SUBSET Runs
    BY DEF Holders
  <2> QED
    BY <2>1, RunSetsFinite, MaxConcurrentAssumption DEF IInv, TypeOK
<1>1. Cardinality(Holders') <= MaxConcurrent
  <2>1. Holders' \in SUBSET Runs
    BY DEF Holders
  <2>2. Cardinality(Holders') \in Nat
    BY <2>1, RunSetsFinite
  <2> QED
    BY <1>0, <2>2, AccountingStep DEF PermitAccounting
<1>2. Still => [Pool!Next]_(Pool!poolVars)
  BY DEF Pool!poolVars, Gone
<1>3. \A r \in Runs : Pool!Fresh(r) <=> pc[r] \in Elsewhere \ {"gone"}
  BY <1>0, LineIsWaiting DEF Pool!Fresh, Holders, Elsewhere, InSlot, TypeOK
<1>4. ASSUME NEW r \in Runs, OuterStep(r)
      PROVE  [Pool!Next]_(Pool!poolVars)
  <2>1. CASE RefreshRaises(r)
    <3>1. pc[r] = "refreshing" /\ pc' = [pc EXCEPT ![r] = "gone"] /\ UNCHANGED waiters
      BY <2>1 DEF RefreshRaises, semVars
    <3>2. Holders' = Holders /\ Gone' = Gone \cup {r}
      BY <1>0, <3>1 DEF Holders, Gone, InSlot, TypeOK
    <3>3. Pool!Withdraw(r)
      BY <1>3, <3>1, <3>2 DEF Pool!Withdraw, Elsewhere, Gone
    <3> QED
      BY <3>3 DEF Pool!Next
  <2>2. CASE StartRun(r) \/ CreateExecutor(r)
    <3>1. /\ pc[r] \in {"none", "refreshing"} /\ UNCHANGED waiters
          /\ \E to \in {"refreshing", "created"} : pc' = [pc EXCEPT ![r] = to]
      BY <2>2 DEF StartRun, CreateExecutor, semVars
    <3>2. Still
      BY <1>0, <3>1 DEF Holders, Gone, InSlot, TypeOK
    <3> QED
      BY <1>2, <3>2
  <2> QED
    BY <1>4, <2>1, <2>2 DEF OuterStep
<1>5. ASSUME NEW r \in Runs, Begin(r)
      PROVE  [Pool!Next]_(Pool!poolVars)
  <2>1. pc[r] = "created" /\ Pool!Fresh(r)
    BY <1>3, <1>5 DEF Begin, Elsewhere
  <2>2. CASE ~Locked
    <3>1. /\ waiters = <<>> /\ permits # 0 /\ waiters' = waiters
          /\ pc' = [pc EXCEPT ![r] = "loading"]
      BY <1>5, <2>2 DEF Begin, Locked
    <3>2. Holders' = Holders \cup {r} /\ Gone' = Gone
      BY <1>0, <2>1, <3>1 DEF Holders, Gone, InSlot, TypeOK
    <3>3. Cardinality(Holders) < MaxConcurrent
      BY <1>0, <3>1 DEF PermitAccounting
    <3>4. Pool!Enter(r)
      BY <2>1, <3>1, <3>2, <3>3 DEF Pool!Enter, Gone, Pool!Cardinality, Cardinality
    <3> QED
      BY <3>4 DEF Pool!Next
  <2>3. CASE Locked
    <3>1. waiters' = Append(waiters, r) /\ pc' = [pc EXCEPT ![r] = "waiting"]
      BY <1>5, <2>3 DEF Begin
    <3>2. Holders' = Holders /\ Gone' = Gone
      BY <1>0, <2>1, <3>1 DEF Holders, Gone, InSlot, TypeOK
    <3>3. Pool!Queue(r)
      BY <2>1, <3>1, <3>2 DEF Pool!Queue, Gone
    <3> QED
      BY <3>3 DEF Pool!Next
  <2> QED
    BY <2>2, <2>3
<1>6. ASSUME NEW r \in Runs, Resume(r)
      PROVE  [Pool!Next]_(Pool!poolVars)
  <2> DEFINE n == Least(permits, Len(waiters))
  <2>1. n \in 0..Len(waiters)
    BY <1>0 DEF Least
  <2>2. /\ pc[r] = "granted" /\ waiters' = SubSeq(waiters, n + 1, Len(waiters))
        /\ pc' = [q \in Runs |-> IF q = r THEN "loading"
                                ELSE IF q \in Woken(n) THEN "granted" ELSE pc[q]]
    BY <1>6 DEF Resume, Wake
  <2> HIDE DEF n
  <2>3. Woken(n) \in SUBSET {q \in Runs : pc[q] = "waiting"}
    BY <1>0, <2>1, WakeProperties
  <2>4. Holders' = Holders \cup Woken(n) /\ Gone' = Gone
    BY <2>2, <2>3 DEF Holders, Gone, InSlot
  <2>5. CASE n = 0
    <3>1. Woken(n) = {}
      BY <2>5 DEF Woken
    <3>2. waiters' = waiters
      BY <1>0, <2>2, <2>5, SubSeqFull
    <3> QED
      BY <1>2, <2>4, <3>1, <3>2
  <2>6. CASE n # 0
    <3>1. n \in 1..Len(waiters)
      BY <1>0, <2>1, <2>6
    <3>2. Pool!Admit(n)
      BY <1>1, <2>2, <2>4, <3>1 DEF Pool!Admit, Woken, Gone, Pool!Cardinality, Cardinality
    <3> QED
      BY <3>1, <3>2 DEF Pool!Next
  <2> QED
    BY <2>5, <2>6
<1>7. ASSUME NEW r \in Runs, InnerStep(r) \/ CancelHandler(r) \/ ProcessExit(r)
      PROVE  [Pool!Next]_(Pool!poolVars)
  <2>1. UNCHANGED waiters
    BY <1>7, InnerStaysInSlot
       DEF CancelHandler, CancelRead, CancelSignal, CancelCommit, CancelRaises, ProcessExit,
           semVars
  <2>2. StaysInSlot(r) \/ UNCHANGED pc
    BY <1>7, InnerStaysInSlot
       DEF CancelHandler, CancelRead, CancelSignal, CancelCommit, CancelRaises, ProcessExit
  <2>3. Still
    BY <1>0, <2>1, <2>2 DEF StaysInSlot, Holders, Gone, InSlot, TypeOK
  <2> QED
    BY <1>2, <2>3
<1>8. ASSUME NEW r \in Runs, Finish(r)
      PROVE  [Pool!Next]_(Pool!poolVars)
  <2> DEFINE n == Least(1, Len(waiters))
  <2>1. n \in 0..Len(waiters) /\ (waiters # <<>> => n = 1) /\ (waiters = <<>> => n = 0)
    BY <1>0 DEF Least
  <2>2. /\ pc[r] \in {"committed", "closing"}
        /\ waiters' = SubSeq(waiters, n + 1, Len(waiters))
        /\ pc' = [q \in Runs |-> IF q = r THEN "gone"
                                ELSE IF q \in Woken(n) THEN "granted" ELSE pc[q]]
    BY <1>8 DEF Finish, Wake
  <2> HIDE DEF n
  <2>3. Woken(n) \in SUBSET {q \in Runs : pc[q] = "waiting"}
    BY <1>0, <2>1, WakeProperties
  <2>4. /\ Holders' = (Holders \ {r}) \cup Woken(n) /\ Gone' = Gone \cup {r}
        /\ r \in Holders
    BY <2>2, <2>3 DEF Holders, Gone, InSlot
  <2>5. CASE waiters = <<>>
    <3>1. Woken(n) = {}
      BY <2>1, <2>5 DEF Woken
    <3>2. waiters' = waiters
      BY <1>0, <2>1, <2>2, <2>5, SubSeqFull
    <3>3. Pool!Leave(r)
      BY <2>4, <3>1, <3>2 DEF Pool!Leave, Gone
    <3> QED
      BY <3>3 DEF Pool!Next
  <2>6. CASE waiters # <<>>
    <3>1. Woken(n) = {Head(waiters)}
      BY <1>0, <2>1, <2>6 DEF Woken
    <3>2. waiters' = Tail(waiters)
      BY <1>0, <2>1, <2>2, <2>6
    <3>3. Pool!Leave(r)
      BY <2>4, <2>6, <3>1, <3>2 DEF Pool!Leave, Gone
    <3> QED
      BY <3>3 DEF Pool!Next
  <2> QED
    BY <2>5, <2>6
<1>9. ASSUME Shutdown \/ Exit
      PROVE  [Pool!Next]_(Pool!poolVars)
  <2>1. /\ waiters' = <<>>
        /\ \A q \in Runs : /\ pc'[q] \in InSlot => pc[q] \in InSlot
                           /\ pc[q] = "gone" => pc'[q] = "gone"
                           /\ pc[q] = "waiting" => pc'[q] = "gone"
                           /\ pc[q] \in InSlot /\ pc'[q] \notin InSlot => pc'[q] = "gone"
    BY <1>9 DEF Shutdown, Exit, Interrupted, InTry, InSlot
  <2>2. Pool!Queued = {q \in Runs : pc[q] = "waiting"}
    BY <1>0, LineIsWaiting
  <2>3. Holders' \subseteq Holders /\ Gone' \in SUBSET Runs /\ Holders' \cap Gone' = {}
    BY <2>1 DEF Holders, Gone, InSlot
  <2>4. Gone \cup Pool!Queued \cup (Holders \ Holders') \subseteq Gone'
    BY <2>1, <2>2 DEF Holders, Gone
  <2>5. Pool!Abandon
    BY <2>1, <2>3, <2>4 DEF Pool!Abandon, Gone
  <2> QED
    BY <2>5 DEF Pool!Next
<1>10. ASSUME Restart \/ UNCHANGED vars
       PROVE  [Pool!Next]_(Pool!poolVars)
  <2>1. Still
    BY <1>10 DEF Restart, vars, semVars, Holders, Gone
  <2> QED
    BY <1>2, <2>1
<1> QED
  BY <1>4, <1>5, <1>6, <1>7, <1>8, <1>9, <1>10, NextCases

\* RunnerService implements the first-come first-served pool of max_concurrent_runs
\* places, for any number of runs and any combination of faults, cancels and crashes.
THEOREM RunnerIsPool == Spec => ImplementsPool
<1>1. Init => Pool!Init
  BY DEF Init, Pool!Init, Holders, InSlot
<1>2. IInv /\ [Next]_vars => [Pool!Next]_(Pool!poolVars)
  BY PoolStep
<1> QED
  BY <1>1, <1>2, InvariantHolds, PTL DEF Spec, ImplementsPool, Pool!Spec

\* Whoever is let in while another waits stood ahead of that one: first come, first served.
\* A newcomer that finds a permit free while a woken waiter has not resumed, or permits
\* that come free meanwhile, overtakes nobody.
NobodyOvertakes ==
  [][\A r, q \in Runs :
       pc[r] = "waiting" /\ pc'[r] = "waiting" /\ q \notin Holders /\ q \in Holders' =>
         \E i, j \in 1..Len(waiters) : i < j /\ waiters[i] = q /\ waiters[j] = r]_vars

\* What a pool does to a job that goes on waiting while another gets a place.
LEMMA PoolOrder ==
  ASSUME waiters \in Seq(Runs), waiters' \in Seq(Runs), Pool!Next,
         \A i, j \in 1..Len(waiters) : waiters[i] = waiters[j] => i = j,
         NEW j \in 1..Len(waiters), NEW k \in 1..Len(waiters'), waiters'[k] = waiters[j],
         NEW q \in Runs, q \notin Holders, q \in Holders'
  PROVE  \E i \in 1..Len(waiters) : i < j /\ waiters[i] = q
<1>0. Len(waiters) \in Nat /\ Len(waiters') \in Nat /\ waiters # <<>> /\ waiters' # <<>>
  OBVIOUS
<1>1. ASSUME NEW n \in 1..Len(waiters), Pool!Admit(n)
      PROVE  \E i \in 1..Len(waiters) : i < j /\ waiters[i] = q
  <2>1. PICK i \in 1..n : waiters[i] = q
    BY <1>1 DEF Pool!Admit
  <2>2. waiters' = SubSeq(waiters, n + 1, Len(waiters))
    BY <1>1 DEF Pool!Admit
  <2>3. Len(waiters') = Len(waiters) - n /\ waiters'[k] = waiters[k + n]
    BY <1>0, <2>2, SubSeqProperties
  <2>4. k + n \in 1..Len(waiters)
    BY <1>0, <2>3
  <2>5. j = k + n
    BY <2>3, <2>4
  <2> QED
    BY <2>1, <2>5
<1>2. ASSUME NEW x \in Runs, Pool!Leave(x)
      PROVE  \E i \in 1..Len(waiters) : i < j /\ waiters[i] = q
  <2>1. Holders' = (Holders \ {x}) \cup {Head(waiters)} /\ waiters' = Tail(waiters)
    BY <1>2 DEF Pool!Leave
  <2>2. waiters[1] = q
    BY <1>0, <2>1
  <2>3. Len(waiters') = Len(waiters) - 1 /\ waiters'[k] = waiters[k + 1]
    BY <1>0, <2>1, HeadTailProperties
  <2>4. k + 1 \in 1..Len(waiters)
    BY <1>0, <2>3
  <2>5. j = k + 1
    BY <2>3, <2>4
  <2> QED
    BY <1>0, <2>2, <2>5
<1>3. CASE \/ \E x \in Runs : Pool!Enter(x) \/ Pool!Queue(x) \/ Pool!Withdraw(x)
           \/ Pool!Abandon
  BY <1>0, <1>3 DEF Pool!Enter, Pool!Queue, Pool!Withdraw, Pool!Abandon
<1> QED
  BY <1>1, <1>2, <1>3 DEF Pool!Next

\* The pool's promise to those who wait, in terms of the runner's executors.
THEOREM FirstComeFirstServed == Spec => NobodyOvertakes
<1> DEFINE Ordered ==
      \A r, q \in Runs :
        pc[r] = "waiting" /\ pc'[r] = "waiting" /\ q \notin Holders /\ q \in Holders' =>
          \E i, j \in 1..Len(waiters) : i < j /\ waiters[i] = q /\ waiters[j] = r
<1>1. ASSUME IInv, IInv', [Next]_vars
      PROVE  Ordered
  <2> SUFFICES ASSUME NEW r \in Runs, NEW q \in Runs, pc[r] = "waiting", pc'[r] = "waiting",
                      q \notin Holders, q \in Holders'
               PROVE  \E i, j \in 1..Len(waiters) : i < j /\ waiters[i] = q /\ waiters[j] = r
    OBVIOUS
  <2>1. /\ waiters \in Seq(Runs) /\ waiters' \in Seq(Runs)
        /\ \A i, j \in 1..Len(waiters) : waiters[i] = waiters[j] => i = j
    BY <1>1 DEF IInv, TypeOK, NoLostWakeup
  <2>2. PICK j \in 1..Len(waiters) : waiters[j] = r
    BY <1>1 DEF IInv, NoLostWakeup
  <2>3. PICK k \in 1..Len(waiters') : waiters'[k] = r
    BY <1>1 DEF IInv, NoLostWakeup
  <2>4. [Pool!Next]_(Pool!poolVars)
    BY <1>1, PoolStep
  <2>5. Pool!Next
    BY <2>4 DEF Pool!poolVars
  <2>6. \E i \in 1..Len(waiters) : i < j /\ waiters[i] = q
    BY <2>1, <2>2, <2>3, <2>5, PoolOrder
  <2> QED
    BY <2>2, <2>6
<1>2. IInv /\ IInv' /\ [Next]_vars => [Ordered]_vars
  BY <1>1
<1> QED
  BY <1>2, InvariantHolds, PTL DEF Spec, NobodyOvertakes

-----------------------------------------------------------------------------
\* The columns of jobs against the processes and the executors.  The faults left
\* out are those after which a row stays behind: a refresh that raises once the row
\* is committed, and an exception that _mark_run_failed swallows.
FailuresReported == Faults \cap {"refreshing", "rejecting", "failing"} = {}

\* The points at which no pid has been recorded.
BeforeRecord == {"none", "refreshing", "created", "waiting", "granted", "loading",
                 "rejecting", "importing", "preparing", "spawning", "recording"}

\* A run's row can be told from its executor and its process; the last three parts
\* are about a server that is up, because only the sweep of the restart puts right
\* what a shutdown or a crash leaves behind.
Accounted(q) ==
  /\ status[q] = "absent" => pc[q] = "none" /\ proc[q] = "none"
  /\ pc[q] \in BeforeRecord => jobPid[q] = NoPid
  /\ status[q] = "succeeded" => proc[q] = "zero"
  /\ server = "up" /\ status[q] \in Unfinished =>
       pc[q] \notin {"none", "gone", "committed", "closing"}
  /\ server = "up" /\ proc[q] = "alive" /\ pc[q] = "gone" =>
       status[q] \in {"failed", "cancelled"}
  /\ server = "up" /\ status[q] = "running" /\ jobPid[q] # NoPid =>
       pc[q] \in {"streaming", "finalizing", "failing"} /\ jobPid[q] = procPid[q]

AllAccounted == \A q \in Runs : Accounted(q)

\* What a step leaves alone of a run that it is not about: all but a waiter's place,
\* which may become a granted one.
LeftAlone(q) ==
  /\ server' = "up" => server = "up"
  /\ pc'[q] = pc[q] \/ (pc[q] = "waiting" /\ pc'[q] = "granted")
  /\ status'[q] = status[q] /\ jobPid'[q] = jobPid[q]
  /\ proc'[q] = proc[q] /\ procPid'[q] = procPid[q]

\* A run that is left alone stays accounted for.
LEMMA LeftAloneAccounted ==
  ASSUME NEW q \in Runs, Accounted(q), LeftAlone(q)
  PROVE  Accounted(q)'
<1>1. CASE pc'[q] = pc[q]
  BY <1>1 DEF Accounted, LeftAlone
<1>2. CASE pc[q] = "waiting" /\ pc'[q] = "granted"
  BY <1>2 DEF Accounted, LeftAlone, BeforeRecord
<1> QED
  BY <1>1, <1>2 DEF LeftAlone

\* A step about one run leaves the others alone.
LEMMA OthersLeftAlone ==
  ASSUME TypeOK, NoLostWakeup, NEW r \in Runs,
         \/ OuterStep(r) \/ Begin(r) \/ Resume(r) \/ InnerStep(r)
         \/ Finish(r) \/ CancelHandler(r) \/ ProcessExit(r)
  PROVE  /\ UNCHANGED server
         /\ \A q \in Runs : q # r => LeftAlone(q)
<1>0. /\ status \in [Runs -> Unfinished \cup Finished \cup {"absent"}]
      /\ jobPid \in [Runs -> Pids \cup {NoPid}]
      /\ DOMAIN pc = Runs /\ DOMAIN proc = Runs /\ DOMAIN procPid = Runs
  BY DEF TypeOK
<1>1. CASE Resume(r) \/ Finish(r)
  <2>1. /\ Least(permits, Len(waiters)) \in 0..Len(waiters)
        /\ Least(1, Len(waiters)) \in 0..Len(waiters)
    BY DEF Least, TypeOK
  <2>2. \E n \in 0..Len(waiters), to \in {"loading", "gone"} :
          pc' = [q \in Runs |-> IF q = r THEN to
                                ELSE IF q \in Woken(n) THEN "granted" ELSE pc[q]]
    BY <1>1, <2>1 DEF Resume, Finish
  <2>3. PICK n \in 0..Len(waiters), to \in {"loading", "gone"} :
          pc' = [q \in Runs |-> IF q = r THEN to
                                ELSE IF q \in Woken(n) THEN "granted" ELSE pc[q]]
    BY <2>2
  <2>4. Woken(n) \in SUBSET {q \in Runs : pc[q] = "waiting"}
    BY WakeProperties
  <2>5. UNCHANGED <<server, status, jobPid, proc, procPid>>
    BY <1>1 DEF Resume, Finish, jobVars, procVars
  <2>6. \A q \in Runs : q # r => pc'[q] = pc[q] \/ (pc[q] = "waiting" /\ pc'[q] = "granted")
    BY <2>3, <2>4
  <2> QED
    BY <2>5, <2>6 DEF LeftAlone
<1>2. CASE StartRun(r)
  BY <1>0, <1>2 DEF StartRun, LeftAlone, procVars
<1>3. CASE CreateExecutor(r) \/ RefreshRaises(r)
  BY <1>0, <1>3 DEF CreateExecutor, RefreshRaises, LeftAlone, jobVars, procVars
<1>4. CASE Begin(r)
  <2>1. PICK to \in {"loading", "waiting"} : pc' = [pc EXCEPT ![r] = to]
    BY <1>4 DEF Begin
  <2>2. UNCHANGED <<server, status, jobPid, proc, procPid>>
    BY <1>4 DEF Begin, jobVars, procVars
  <2> QED
    BY <1>0, <2>1, <2>2 DEF LeftAlone
<1>5. CASE Load(r) \/ Imported(r) \/ Reject(r) \/ ProcessEnded(r) \/ Raise(r) \/ MarkSwallowed(r)
  <2>1. PICK to \in InSlot : pc' = [pc EXCEPT ![r] = to]
    BY <1>5 DEF Load, Imported, Reject, ProcessEnded, Raise, MarkSwallowed, AfterMark, InSlot
  <2>2. UNCHANGED <<server, status, jobPid, proc, procPid>>
    BY <1>5 DEF Load, Imported, Reject, ProcessEnded, Raise, MarkSwallowed, jobVars, procVars
  <2> QED
    BY <1>0, <2>1, <2>2 DEF LeftAlone
<1>6. CASE MarkRunning(r) \/ MarkFailed(r)
  <2>1. PICK to \in InSlot, s \in {"running", "failed"} :
          pc' = [pc EXCEPT ![r] = to] /\ status' = [status EXCEPT ![r] = s]
    BY <1>6 DEF MarkRunning, MarkFailed, AfterMark, InSlot
  <2>2. UNCHANGED <<server, jobPid, proc, procPid>>
    BY <1>6 DEF MarkRunning, MarkFailed, procVars
  <2> QED
    BY <1>0, <2>1, <2>2 DEF LeftAlone
<1>7. CASE Spawn(r)
  <2>1. PICK p \in Pids : procPid' = [procPid EXCEPT ![r] = p]
    BY <1>7 DEF Spawn
  <2> QED
    BY <1>0, <1>7, <2>1 DEF Spawn, LeftAlone, jobVars
<1>8. CASE RecordPid(r)
  BY <1>0, <1>8 DEF RecordPid, LeftAlone, procVars
<1>9. CASE Finalize(r)
  BY <1>0, <1>9 DEF Finalize, LeftAlone, procVars
<1>10. CASE CancelHandler(r)
  <2>1. UNCHANGED <<server, pc, proc, procPid>>
    BY <1>10 DEF CancelHandler, CancelRead, CancelSignal, CancelCommit, CancelRaises, procVars
  <2>2. \A q \in Runs : q # r => status'[q] = status[q] /\ jobPid'[q] = jobPid[q]
    BY <1>0, <1>10 DEF CancelHandler, CancelRead, CancelSignal, CancelCommit, CancelRaises, jobVars
  <2> QED
    BY <2>1, <2>2 DEF LeftAlone
<1>11. CASE ProcessExit(r)
  <2>1. PICK code \in {"zero", "nonzero"} : proc' = [proc EXCEPT ![r] = code]
    BY <1>11 DEF ProcessExit
  <2> QED
    BY <1>0, <1>11, <2>1 DEF ProcessExit, LeftAlone, jobVars
<1> QED
  BY <1>1, <1>2, <1>3, <1>4, <1>5, <1>6, <1>7, <1>8, <1>9, <1>10, <1>11 DEF OuterStep, InnerStep

\* Every step of a run's own keeps it accounted for.
LEMMA OwnStepAccounted ==
  ASSUME FailuresReported, TypeOK, NoEarlyOutcome, NEW r \in Runs, Accounted(r),
         \/ OuterStep(r) \/ Begin(r) \/ Resume(r) \/ InnerStep(r)
         \/ Finish(r) \/ CancelHandler(r) \/ ProcessExit(r)
  PROVE  Accounted(r)'
<1>0. /\ status \in [Runs -> Unfinished \cup Finished \cup {"absent"}]
      /\ jobPid \in [Runs -> Pids \cup {NoPid}]
      /\ DOMAIN pc = Runs /\ DOMAIN proc = Runs /\ DOMAIN procPid = Runs
      /\ pc[r] \in Undecided => status[r] \notin {"succeeded", "failed"}
  BY DEF TypeOK, NoEarlyOutcome
<1> USE DEF Accounted, BeforeRecord, Unfinished
<1>1. CASE StartRun(r)
  BY <1>0, <1>1 DEF StartRun, procVars
<1>2. CASE CreateExecutor(r)
  BY <1>0, <1>2 DEF CreateExecutor, jobVars, procVars
<1>3. ~ RefreshRaises(r) /\ ~ MarkSwallowed(r)
  BY DEF FailuresReported, RefreshRaises, MarkSwallowed
<1>4. CASE Begin(r)
  <2>1. PICK to \in {"loading", "waiting"} : pc' = [pc EXCEPT ![r] = to]
    BY <1>4 DEF Begin
  <2>2. pc[r] = "created" /\ UNCHANGED <<server, status, jobPid, proc, procPid>>
    BY <1>4 DEF Begin, jobVars, procVars
  <2> QED
    BY <1>0, <2>1, <2>2
<1>5. CASE Resume(r)
  <2>1. pc[r] = "granted" /\ pc'[r] = "loading" /\ UNCHANGED <<server, status, jobPid, proc, procPid>>
    BY <1>5 DEF Resume, jobVars, procVars
  <2> QED
    BY <2>1
<1>6. CASE Finish(r)
  <2>1. /\ pc[r] \in {"committed", "closing"} /\ pc'[r] = "gone"
        /\ UNCHANGED <<server, status, jobPid, proc, procPid>>
    BY <1>6 DEF Finish, jobVars, procVars
  <2>2. status[r] \in Unfinished \cup Finished \cup {"absent"}
    BY <1>0
  <2> QED
    BY <2>1, <2>2 DEF Finished
<1>7. CASE Load(r) \/ Imported(r) \/ Reject(r) \/ ProcessEnded(r)
  BY <1>0, <1>7 DEF Load, Imported, Reject, ProcessEnded, jobVars, procVars
<1>8. CASE Raise(r)
  BY <1>0, <1>8 DEF Raise, InTry, jobVars, procVars
<1>9. CASE MarkRunning(r)
  BY <1>0, <1>9 DEF MarkRunning, Undecided, procVars
<1>10. CASE MarkFailed(r)
  BY <1>0, <1>10 DEF MarkFailed, AfterMark, procVars
<1>11. CASE Spawn(r)
  <2>1. /\ pc[r] = "spawning" /\ pc'[r] = "recording" /\ proc'[r] = "alive"
        /\ UNCHANGED <<server, status, jobPid>>
    BY <1>0, <1>11 DEF Spawn, jobVars
  <2>2. status[r] \notin {"succeeded", "failed"}
    BY <1>0, <2>1 DEF Undecided
  <2> QED
    BY <2>1, <2>2
<1>12. CASE RecordPid(r)
  BY <1>0, <1>12 DEF RecordPid, procVars
<1>13. CASE Finalize(r)
  BY <1>0, <1>13 DEF Finalize, procVars
<1>14. CASE CancelHandler(r)
  <2>1. UNCHANGED <<server, pc, proc, procPid>>
    BY <1>14 DEF CancelHandler, CancelRead, CancelSignal, CancelCommit, CancelRaises, procVars
  <2>2. \/ status'[r] = status[r] /\ jobPid'[r] = jobPid[r]
        \/ status'[r] = "cancelled" /\ jobPid'[r] \in {jobPid[r], NoPid}
    BY <1>0, <1>14 DEF CancelHandler, CancelRead, CancelSignal, CancelCommit, CancelRaises, jobVars
  <2> QED
    BY <2>1, <2>2
<1>15. CASE ProcessExit(r)
  <2>1. /\ proc[r] = "alive" /\ proc'[r] \in {"zero", "nonzero"}
        /\ UNCHANGED <<server, status, jobPid, pc, procPid>>
    BY <1>0, <1>15 DEF ProcessExit, jobVars
  <2> QED
    BY <2>1
<1> QED
  BY <1>1, <1>2, <1>3, <1>4, <1>5, <1>6, <1>7, <1>8, <1>9, <1>10, <1>11, <1>12, <1>13, <1>14, <1>15
     DEF OuterStep, InnerStep

\* A shutdown, the end of the server process and the sweep of the next one.
LEMMA ServerStepAccounted ==
  ASSUME IInv, NEW q \in Runs, Accounted(q), Shutdown \/ Exit \/ Restart
  PROVE  Accounted(q)'
<1>0. /\ status \in [Runs -> Unfinished \cup Finished \cup {"absent"}]
      /\ pc[q] = "none" => status[q] \in {"absent", "cancelled"}
      /\ server = "down" => pc[q] \in {"none", "gone"}
  BY DEF IInv, TypeOK, NoEarlyOutcome, DownIsEmpty
<1>1. CASE Shutdown \/ Exit
  <2>1. server' # "up" /\ UNCHANGED <<status, jobPid, proc, procPid>>
    BY <1>1 DEF Shutdown, Exit, jobVars, procVars
  <2>2. /\ pc[q] = "none" => pc'[q] = "none"
        /\ pc'[q] \in BeforeRecord => pc[q] = "none"
    BY <1>1 DEF Shutdown, Exit, Interrupted, InTry, BeforeRecord
  <2> QED
    BY <2>1, <2>2 DEF Accounted, BeforeRecord
<1>2. CASE Restart
  <2>1. /\ status'[q] = IF status[q] \in Unfinished THEN "failed" ELSE status[q]
        /\ pc[q] \in {"none", "gone"} /\ UNCHANGED <<jobPid, pc, proc, procPid>>
    BY <1>0, <1>2 DEF Restart, jobVars, procVars
  <2>2. status[q] \in Unfinished \cup Finished \cup {"absent"}
    BY <1>0
  <2>3. status'[q] \notin Unfinished
    BY <2>1 DEF Unfinished
  <2>4. CASE status[q] \in Unfinished
    BY <1>0, <2>1, <2>4 DEF Accounted, Unfinished, BeforeRecord
  <2>5. CASE status[q] \notin Unfinished
    BY <1>0, <2>1, <2>2, <2>3, <2>5 DEF Accounted, Unfinished, Finished, BeforeRecord
  <2> QED
    BY <2>4, <2>5
<1> QED
  BY <1>1, <1>2

\* Unless a failure is kept from the row, every run stays accounted for.
LEMMA RunsAccounted ==
  ASSUME FailuresReported
  PROVE  Spec => []AllAccounted
<1>1. Init => AllAccounted
  BY DEF Init, AllAccounted, Accounted, Unfinished
<1>2. IInv /\ AllAccounted /\ [Next]_vars => AllAccounted'
  <2> SUFFICES ASSUME IInv, AllAccounted, [Next]_vars, NEW q \in Runs
                  PROVE  Accounted(q)'
    BY DEF AllAccounted
  <2>0. TypeOK /\ NoLostWakeup /\ NoEarlyOutcome /\ Accounted(q)
    BY DEF IInv, AllAccounted
  <2>1. ASSUME NEW r \in Runs,
               \/ OuterStep(r) \/ Begin(r) \/ Resume(r) \/ InnerStep(r)
               \/ Finish(r) \/ CancelHandler(r) \/ ProcessExit(r)
        PROVE  Accounted(q)'
    <3>1. CASE q = r
      BY <2>0, <2>1, <3>1, OwnStepAccounted
    <3>2. CASE q # r
      <4>1. LeftAlone(q)
        BY <2>0, <2>1, <3>2, OthersLeftAlone
      <4> QED
        BY <2>0, <4>1, LeftAloneAccounted
    <3> QED
      BY <3>1, <3>2
  <2>2. CASE Shutdown \/ Exit \/ Restart
    BY <2>0, <2>2, ServerStepAccounted
  <2>3. CASE UNCHANGED vars
    <3>1. LeftAlone(q)
      BY <2>3 DEF vars, jobVars, procVars, LeftAlone
    <3> QED
      BY <2>0, <3>1, LeftAloneAccounted
  <2> QED
    BY <2>1, <2>2, <2>3, NextCases
<1> QED
  BY <1>1, <1>2, InvariantHolds, PTL DEF Spec

\* A succeeded run has exited with 0, and a process that outlives its executor
\* belongs to a run that is recorded as failed or cancelled.
THEOREM OutcomesTrue ==
  ASSUME FailuresReported
  PROVE  Spec => []OutcomeMatchesProcess
<1>1. AllAccounted => OutcomeMatchesProcess
  BY DEF AllAccounted, Accounted, OutcomeMatchesProcess
<1> QED
  BY <1>1, RunsAccounted, PTL

\* No job stays pending or running without an executor that will end it.
THEOREM UnfinishedServed ==
  ASSUME FailuresReported
  PROVE  Spec => []UnfinishedHasExecutor
<1>1. AllAccounted => UnfinishedHasExecutor
  BY DEF AllAccounted, Accounted, UnfinishedHasExecutor
<1> QED
  BY <1>1, RunsAccounted, PTL

\* The pid that cancel_run reads from a running job is that of the job's process.
THEOREM CancelTargetsOwn ==
  ASSUME FailuresReported
  PROVE  Spec => []CancelTargetsExecutor
<1>1. AllAccounted => CancelTargetsExecutor
  BY DEF AllAccounted, Accounted, CancelTargetsExecutor
<1> QED
  BY <1>1, RunsAccounted, PTL

-----------------------------------------------------------------------------
\* Whose pid a row shows and a cancel handler holds.

\* The points at which the run may have been given a process.
Spawned == {"recording", "streaming", "finalizing", "committed", "failing", "closing", "gone"}

\* A pid that was recorded, or read by a handler that is about to signal, is that of the
\* one process the run was ever given.
PidKept(q) ==
  /\ proc[q] # "none" => pc[q] \in Spawned
  /\ pc[q] = "recording" => proc[q] # "none"
  /\ jobPid[q] # NoPid => proc[q] # "none" /\ jobPid[q] = procPid[q]
  /\ cancel[q] = "running" => proc[q] # "none" /\ cancelPid[q] = procPid[q]

PidsKept == \A q \in Runs : PidKept(q)

\* No two living processes have one pid.
PidsDistinct ==
  \A q, r \in Runs :
    proc[q] = "alive" /\ proc[r] = "alive" /\ procPid[q] = procPid[r] => q = r

\* The steps of an executor, and of the request that creates it.
ExecutorStep(r) ==
  OuterStep(r) \/ Begin(r) \/ Resume(r) \/ InnerStep(r) \/ Finish(r)

\* An executor spawns once, and records nothing but what it has spawned.
LEMMA ExecutorPids ==
  ASSUME IInv, PidsKept, NEW r \in Runs, ExecutorStep(r)
  PROVE  /\ UNCHANGED <<signalled, cancel, cancelPid>>
         /\ PidKept(r)'
         /\ UNCHANGED <<proc, procPid>> \/ Spawn(r)
<1>0. /\ DOMAIN pc = Runs /\ DOMAIN proc = Runs /\ DOMAIN procPid = Runs /\ DOMAIN jobPid = Runs
      /\ PidKept(r)
  BY DEF IInv, TypeOK, PidsKept
<1>1. UNCHANGED <<signalled, cancel, cancelPid>>
  BY DEF ExecutorStep, OuterStep, InnerStep, StartRun, CreateExecutor, RefreshRaises, Begin,
     Resume, Finish, Load, Imported, Reject, MarkRunning, Spawn, RecordPid, ProcessEnded, Finalize, Raise,
     MarkFailed, MarkSwallowed, procVars, cancelVars
<1>2. UNCHANGED <<proc, procPid>> \/ Spawn(r)
  BY DEF ExecutorStep, OuterStep, InnerStep, StartRun, CreateExecutor, RefreshRaises, Begin,
     Resume, Finish, Load, Imported, Reject, MarkRunning, RecordPid, ProcessEnded, Finalize, Raise,
     MarkFailed, MarkSwallowed, procVars
<1>3. CASE Spawn(r)
  <2>1. /\ pc[r] = "spawning" /\ pc'[r] = "recording" /\ proc'[r] = "alive"
        /\ jobPid'[r] = jobPid[r]
    BY <1>0, <1>3 DEF Spawn, jobVars
  <2>2. jobPid[r] = NoPid /\ cancel[r] # "running"
    BY <1>0, <2>1 DEF PidKept, Spawned
  <2> QED
    BY <1>1, <1>3, <2>1, <2>2 DEF PidKept, Spawned
<1>4. CASE RecordPid(r)
  BY <1>0, <1>1, <1>4 DEF RecordPid, PidKept, Spawned, procVars
<1>5. CASE ~ Spawn(r) /\ ~ RecordPid(r)
  <2>1. jobPid'[r] \in {jobPid[r], NoPid}
    BY <1>0, <1>5 DEF ExecutorStep, OuterStep, InnerStep, StartRun, CreateExecutor,
       RefreshRaises, Begin, Resume, Finish, Load, Imported, Reject, MarkRunning, ProcessEnded, Finalize,
       Raise, MarkFailed, MarkSwallowed, jobVars
  <2>2. /\ pc[r] \in Spawned => pc'[r] \in Spawned
        /\ pc'[r] # "recording"
    <3>1. CASE OuterStep(r) \/ Begin(r)
      BY <1>0, <3>1 DEF OuterStep, StartRun, CreateExecutor, RefreshRaises, Begin, Spawned
    <3>2. CASE Resume(r) \/ Finish(r)
      <4>1. \/ pc[r] = "granted" /\ pc'[r] = "loading"
            \/ pc'[r] = "gone"
        BY <3>2 DEF Resume, Finish
      <4> QED
        BY <4>1 DEF Spawned
    <3>3. CASE InnerStep(r)
      BY <1>0, <1>5, <3>3 DEF InnerStep, Load, Imported, Reject, MarkRunning, ProcessEnded, Finalize,
         Raise, InTry, MarkFailed, MarkSwallowed, AfterMark, Spawned
    <3> QED
      BY <3>1, <3>2, <3>3 DEF ExecutorStep
  <2> QED
    BY <1>0, <1>1, <1>2, <1>5, <2>1, <2>2 DEF PidKept
<1> QED
  BY <1>1, <1>2, <1>3, <1>4, <1>5

\* A cancel handler that signals holds the pid of its run's process, which no other process
\* bears while that one lives.
LEMMA SignalStep ==
  ASSUME IInv, PidsKept, PidsDistinct, NEW r \in Runs, CancelSignal(r)
  PROVE  IF proc[r] = "alive" THEN signalled' = signalled \cup {r}
         ELSE \A q \in signalled' \ signalled : procPid[q] = procPid[r]
<1>1. signalled' = signalled \cup Bearers(procPid[r])
  BY DEF CancelSignal, PidsKept, PidKept
<1>2. CASE proc[r] = "alive"
  <2>1. Bearers(procPid[r]) = {r}
    BY <1>2 DEF Bearers, PidsDistinct
  <2> QED
    BY <1>1, <1>2, <2>1
<1>3. CASE proc[r] # "alive"
  BY <1>1, <1>3 DEF Bearers
<1> QED
  BY <1>2, <1>3

LEMMA PidStep == IInv /\ PidsKept /\ PidsDistinct /\ [Next]_vars => PidsKept' /\ PidsDistinct'
<1> SUFFICES ASSUME IInv, PidsKept, PidsDistinct, [Next]_vars
             PROVE  PidsKept' /\ PidsDistinct'
  OBVIOUS
<1>0. /\ TypeOK /\ NoLostWakeup
      /\ DOMAIN pc = Runs /\ DOMAIN proc = Runs /\ DOMAIN procPid = Runs /\ DOMAIN jobPid = Runs
      /\ DOMAIN cancel = Runs /\ DOMAIN cancelPid = Runs
  BY DEF IInv, TypeOK
<1>1. ASSUME NEW r \in Runs, ExecutorStep(r)
      PROVE  PidsKept' /\ PidsDistinct'
  <2>1. ASSUME NEW q \in Runs, q # r
        PROVE  PidKept(q)'
    <3>1. LeftAlone(q)
      BY <1>0, <1>1, <2>1, OthersLeftAlone DEF ExecutorStep
    <3>2. UNCHANGED <<cancel, cancelPid>> /\ PidKept(q)
      BY <1>1, ExecutorPids DEF PidsKept
    <3> QED
      BY <3>1, <3>2 DEF LeftAlone, PidKept, Spawned
  <2>2. PidKept(r)' /\ (UNCHANGED <<proc, procPid>> \/ Spawn(r))
    BY <1>1, ExecutorPids
  <2>3. CASE UNCHANGED <<proc, procPid>>
    BY <2>1, <2>2, <2>3 DEF PidsKept, PidsDistinct
  <2>4. CASE Spawn(r)
    <3>1. PICK p \in Pids \ PidsInUse : procPid' = [procPid EXCEPT ![r] = p]
      BY <2>4 DEF Spawn
    <3>2. \A q \in Runs : proc[q] = "alive" => procPid[q] # p
      BY <3>1 DEF PidsInUse
    <3>3. proc' = [proc EXCEPT ![r] = "alive"]
      BY <2>4 DEF Spawn
    <3>4. PidsDistinct'
      BY <1>0, <3>1, <3>2, <3>3 DEF PidsDistinct
    <3> QED
      BY <2>1, <2>2, <3>4 DEF PidsKept
  <2> QED
    BY <2>2, <2>3, <2>4
<1>2. ASSUME NEW r \in Runs, CancelHandler(r)
      PROVE  PidsKept' /\ PidsDistinct'
  <2>1. UNCHANGED <<pc, proc, procPid>>
    BY <1>2 DEF CancelHandler, CancelRead, CancelSignal, CancelCommit, CancelRaises, procVars
  <2>2. ASSUME NEW q \in Runs
        PROVE  PidKept(q)'
    <3>0. PidKept(q)
      BY DEF PidsKept
    <3>1. CASE CancelRead(r)
      BY <1>0, <2>1, <3>0, <3>1 DEF CancelRead, jobVars, PidKept
    <3>2. CASE CancelSignal(r)
      BY <1>0, <2>1, <3>0, <3>2 DEF CancelSignal, jobVars, PidKept
    <3>3. CASE CancelCommit(r)
      BY <1>0, <2>1, <3>0, <3>3 DEF CancelCommit, PidKept
    <3>4. CASE CancelRaises(r)
      BY <1>0, <2>1, <3>0, <3>4 DEF CancelRaises, jobVars, PidKept
    <3> QED
      BY <1>2, <3>1, <3>2, <3>3, <3>4 DEF CancelHandler
  <2> QED
    BY <2>1, <2>2 DEF PidsKept, PidsDistinct
<1>3. ASSUME NEW r \in Runs, ProcessExit(r)
      PROVE  PidsKept' /\ PidsDistinct'
  <2>1. PICK code \in {"zero", "nonzero"} : proc' = [proc EXCEPT ![r] = code]
    BY <1>3 DEF ProcessExit
  <2>2. proc[r] = "alive" /\ UNCHANGED <<pc, procPid, jobPid, cancel, cancelPid>>
    BY <1>3 DEF ProcessExit, jobVars, cancelVars
  <2>3. PidsDistinct'
    BY <1>0, <2>1, <2>2 DEF PidsDistinct
  <2>4. PidsKept'
    BY <1>0, <2>1, <2>2 DEF PidsKept, PidKept
  <2> QED
    BY <2>3, <2>4
<1>4. CASE Shutdown \/ Exit
  <2>1. UNCHANGED <<proc, procPid, jobPid>>
    BY <1>4 DEF Shutdown, Exit, jobVars, procVars
  <2>2. \A q \in Runs : /\ pc[q] \in Spawned => pc'[q] \in Spawned
                        /\ pc'[q] # "recording"
    BY <1>4 DEF Shutdown, Exit, Interrupted, InTry, Spawned
  <2>3. \A q \in Runs : cancel'[q] = "running" => cancel[q] = "running" /\ cancelPid'[q] = cancelPid[q]
    BY <1>4 DEF Shutdown, Exit, cancelVars
  <2> QED
    BY <2>1, <2>2, <2>3 DEF PidsKept, PidKept, PidsDistinct
<1>5. CASE Restart \/ UNCHANGED vars
  <2>1. UNCHANGED <<pc, proc, procPid, jobPid, cancel, cancelPid>>
    BY <1>5 DEF Restart, vars, jobVars, procVars, cancelVars
  <2> QED
    BY <2>1 DEF PidsKept, PidKept, PidsDistinct
<1> QED
  BY <1>1, <1>2, <1>3, <1>4, <1>5, NextCases DEF ExecutorStep

LEMMA PidsHold == Spec => [](PidsKept /\ PidsDistinct)
<1>1. Init => PidsKept /\ PidsDistinct
  BY DEF Init, PidsKept, PidKept, PidsDistinct
<1> QED
  BY <1>1, PidStep, InvariantHolds, PTL DEF Spec

\* A signal that is sent while the cancelled run's process lives goes to that process and to
\* no other, however long ago the pid was read and whatever was restarted since.
THEOREM SignalsFindOwn == Spec => SignalFindsOwn
<1> DEFINE Finds == \A r \in Runs : cancel[r] = "running" /\ cancel'[r] = "killed" =>
                      IF proc[r] = "alive" THEN signalled' = signalled \cup {r}
                      ELSE \A q \in signalled' \ signalled : procPid[q] = procPid[r]
<1>1. ASSUME IInv, PidsKept, PidsDistinct, [Next]_vars
      PROVE  Finds
  <2> SUFFICES ASSUME NEW r \in Runs, cancel[r] = "running", cancel'[r] = "killed"
               PROVE  CancelSignal(r)
    BY <1>1, SignalStep
  <2>0. DOMAIN cancel = Runs
    BY <1>1 DEF IInv, TypeOK
  <2>1. ASSUME NEW q \in Runs, ExecutorStep(q)
        PROVE  FALSE
    BY <1>1, <2>1, ExecutorPids
  <2>2. ASSUME NEW q \in Runs, CancelHandler(q)
        PROVE  CancelSignal(r)
    <3>1. CASE CancelSignal(q)
      <4>1. q = r
        BY <2>0, <3>1 DEF CancelSignal
      <4> QED
        BY <3>1, <4>1
    <3>2. CASE CancelRead(q) \/ CancelCommit(q) \/ CancelRaises(q)
      <4>1. \/ cancel' = [cancel EXCEPT ![q] = status[q]] /\ status[q] # "killed"
            \/ cancel' = [cancel EXCEPT ![q] = "idle"]
        BY <3>2 DEF CancelRead, CancelCommit, CancelRaises
      <4> QED
        BY <2>0, <4>1
    <3> QED
      BY <2>2, <3>1, <3>2 DEF CancelHandler
  <2>3. CASE \/ \E q \in Runs : ProcessExit(q)
             \/ Shutdown \/ Exit \/ Restart \/ UNCHANGED vars
    BY <2>3 DEF ProcessExit, Shutdown, Exit, Restart, vars, cancelVars
  <2> QED
    BY <1>1, <2>1, <2>2, <2>3, NextCases DEF ExecutorStep
<1>2. IInv /\ PidsKept /\ PidsDistinct /\ [Next]_vars => [Finds]_vars
  BY <1>1
<1> QED
  BY <1>2, InvariantHolds, PidsHold, PTL DEF Spec, SignalFindsOwn

\* A run is executed once: nothing gives it a second process, and an exit code stays, so
\* that no failure, cancel or restart sets the same work going again.
ExecutedOnce ==
  [][\A r \in Runs : proc[r] # "none" =>
       /\ proc'[r] # "none" /\ procPid'[r] = procPid[r]
       /\ proc[r] # "alive" => proc'[r] = proc[r]]_vars

THEOREM RunsExecutedOnce == Spec => ExecutedOnce
<1> DEFINE Once == \A r \in Runs : proc[r] # "none" =>
                     /\ proc'[r] # "none" /\ procPid'[r] = procPid[r]
                     /\ proc[r] # "alive" => proc'[r] = proc[r]
<1>1. ASSUME IInv, PidsKept, [Next]_vars
      PROVE  Once
  <2>0. DOMAIN proc = Runs /\ DOMAIN procPid = Runs
    BY <1>1 DEF IInv, TypeOK
  <2>1. ASSUME NEW r \in Runs, ExecutorStep(r)
        PROVE  Once
    <3>1. CASE Spawn(r)
      <4>1. proc[r] = "none"
        BY <1>1, <3>1 DEF Spawn, PidsKept, PidKept, Spawned
      <4>2. \A q \in Runs : q # r => proc'[q] = proc[q] /\ procPid'[q] = procPid[q]
        BY <2>0, <3>1 DEF Spawn
      <4> QED
        BY <4>1, <4>2
    <3>2. CASE UNCHANGED <<proc, procPid>>
      BY <3>2
    <3> QED
      BY <1>1, <2>1, <3>1, <3>2, ExecutorPids
  <2>2. ASSUME NEW r \in Runs, ProcessExit(r)
        PROVE  Once
    BY <2>0, <2>2 DEF ProcessExit
  <2>3. ASSUME NEW r \in Runs, CancelHandler(r)
        PROVE  UNCHANGED <<proc, procPid>>
    BY <2>3 DEF CancelHandler, CancelRead, CancelSignal, CancelCommit, CancelRaises, procVars
  <2>4. CASE Shutdown \/ Exit \/ Restart \/ UNCHANGED vars
    BY <2>4 DEF Shutdown, Exit, Restart, vars, procVars
  <2> QED
    BY <1>1, <2>1, <2>2, <2>3, <2>4, NextCases DEF ExecutorStep
<1>2. IInv /\ PidsKept /\ [Next]_vars => [Once]_vars
  BY <1>1
<1> QED
  BY <1>2, InvariantHolds, PidsHold, PTL DEF Spec, ExecutedOnce
=============================================================================
