----------------------------- MODULE WorkerPool -----------------------------
(***************************************************************************)
(* What the runner promises to its callers, whatever goes on inside it: a  *)
(* pool that serves every submitted job at most once, first come first     *)
(* served, and never more than Limit of them at a time.  A pool may lose   *)
(* work when its process dies: queued and busy jobs are then over.         *)
(***************************************************************************)
EXTENDS Naturals, Sequences, FiniteSets

CONSTANTS Jobs,   \* everything that may ever be submitted
          Limit   \* settings.max_concurrent_runs

VARIABLES queue,  \* jobs that wait for a place, in order of arrival
          busy,   \* jobs that hold a place
          over    \* jobs the pool is through with

poolVars == <<queue, busy, over>>

Queued == {queue[i] : i \in 1..Len(queue)}

Fresh(j) == j \notin busy \cup over \cup Queued

Init == queue = <<>> /\ busy = {} /\ over = {}

\* A place is free and nobody waits for it.
Enter(j) ==
  /\ Fresh(j)
  /\ queue = <<>>
  /\ Cardinality(busy) < Limit
  /\ busy' = busy \cup {j}
  /\ UNCHANGED <<queue, over>>

Queue(j) ==
  /\ Fresh(j)
  /\ queue' = Append(queue, j)
  /\ UNCHANGED <<busy, over>>

\* A job that was announced and never arrives.
Withdraw(j) ==
  /\ Fresh(j)
  /\ over' = over \cup {j}
  /\ UNCHANGED <<queue, busy>>

\* Free places go to those who have waited longest.
Admit(n) ==
  /\ n \in 1..Len(queue)
  /\ busy' = busy \cup {queue[i] : i \in 1..n}
  /\ Cardinality(busy') <= Limit
  /\ queue' = SubSeq(queue, n + 1, Len(queue))
  /\ UNCHANGED over

\* A job ends; its place is free, or goes straight to the head of the queue.
Leave(j) ==
  /\ j \in busy
  /\ over' = over \cup {j}
  /\ \/ /\ busy' = busy \ {j}
        /\ UNCHANGED queue
     \/ /\ queue # <<>>
        /\ busy' = (busy \ {j}) \cup {Head(queue)}
        /\ queue' = Tail(queue)

\* The process ends or is killed: no one waits any more, and some or all of
\* the busy jobs are over.
Abandon ==
  /\ queue' = <<>>
  /\ busy' \in SUBSET busy
  /\ over' \in SUBSET Jobs
  /\ over \cup Queued \cup (busy \ busy') \subseteq over'
  /\ busy' \cap over' = {}

Next ==
  \/ \E j \in Jobs : Enter(j) \/ Queue(j) \/ Withdraw(j) \/ Leave(j)
  \/ \E n \in 1..Len(queue) : Admit(n)
  \/ Abandon

Spec == Init /\ [][Next]_poolVars
=============================================================================
