-------------------------- MODULE CredentialProofs ---------------------------
(***************************************************************************)
(* That no renewal of a credential is lost, that no keepalive job is left  *)
(* without an instance, and that active credentials are kept alive, for    *)
(* any number of credentials, of tests and of keepalive instances.         *)
(***************************************************************************)
EXTENDS Credential, TLAPS

-----------------------------------------------------------------------------
\* A handler or an instance under way has a credential, a test about to write has
\* the verdict of dws.
Subjects ==
  /\ \A q \in Tests : testing[q] # "idle" => tested[q] \in Creds
  /\ \A q \in Tests : testing[q] = "writing" => verdict[q] \in {"active", "expired"}
  /\ \A i \in Keepalives : at[i] # "idle" => subject[i] \in Creds

Shape == CredTypeOK /\ Subjects

\* One instance at most renews a credential.
OneEach ==
  \A i, j \in Keepalives :
    at[i] # "idle" /\ at[j] # "idle" /\ subject[i] = subject[j] => i = j

\* The blob an instance has read is still the one in the row.
Fresh == \A i \in Keepalives : at[i] \in Refreshing => base[i] = blob[subject[i]]

\* JobHasInstance, by an instance that has already committed the job.
JobIsWatched ==
  server = "up" =>
    \A i \in Keepalives : job[i] \in JobUnfinished =>
      at[i] \in Refreshing \ {"committing"} \/ i \in unrecorded

\* The revocation has read that it has nothing to write, or it has written.
Settled(c) == revoking[c] \in {"revoked", "unscheduling"}

\* ActiveIsKept at every point of a revocation: once it is settled, the credential is
\* active only by a test, or has been without a job since it was created.
Attended(c) ==
  /\ status[c] = "absent" => revoking[c] = "idle"
  /\ status[c] = "active" /\ Settled(c) => c \in stray
  /\ server = "up" /\ status[c] = "active" /\ ~Settled(c) => c \in kept \cup creating \cup stray

CInv ==
  /\ Shape
  /\ OneEach
  /\ Fresh
  /\ JobIsWatched
  /\ \A c \in Creds : Attended(c)

-----------------------------------------------------------------------------
\* Requests leave keepalive instances, blobs and jobs alone.
LEMMA RequestFrame ==
  ASSUME (\E c \in Creds : Manages(c)) \/ (\E q \in Tests : Examines(q))
  PROVE  UNCHANGED <<server, blob, keepVars, jobVars>>
BY DEF Manages, Create, ScheduleKeepalive, CreateRaises, RevokeRead, RevokeCommit,
       RevokeRaises, UnscheduleKeepalive, Examines, TestBegin, TestRead, TestCommit, TestRaises, rowVars

\* Instances leave rows and requests alone, but for the blob.
LEMMA InstanceFrame ==
  ASSUME NEW i \in Keepalives,
         Fire(i) \/ Keeps(i) \/ RaisesEarly(i) \/ MarkSwallowed(i)
  PROVE  UNCHANGED <<server, status, kept, creating, revoking, testVars, stray>>
BY DEF Fire, Keeps, CheckCredential, ReadBlob, CommitJob, OpenLog, MarkJobRunning, Renewed,
       Store, RefreshFails, MarkJobFailed, RaisesEarly, MarkSwallowed, InstanceEnds, rowVars

\* What every action of an instance does to the variables of instances: it moves one,
\* which keeps its credential or ends.
LEMMA InstanceMoves ==
  ASSUME Shape, NEW i \in Keepalives,
         Keeps(i) \/ RaisesEarly(i) \/ MarkSwallowed(i)
  PROVE  /\ at[i] # "idle"
         /\ at' \in [Keepalives -> Refreshing \cup {"idle", "sleeping", "reading"}]
         /\ subject' \in [Keepalives -> Creds \cup {NoCred}]
         /\ base' \in [Keepalives -> Keepalives \cup {Imported}]
         /\ \A j \in Keepalives \ {i} :
              at'[j] = at[j] /\ subject'[j] = subject[j] /\ base'[j] = base[j]
         /\ at'[i] # "idle" => subject'[i] = subject[i]
         /\ at'[i] \in Refreshing =>
              \/ at[i] \in Refreshing /\ base'[i] = base[i]
              \/ base'[i] = blob[subject[i]]
<1> USE DEF Shape, Subjects, CredTypeOK, Refreshing, InstanceEnds
<1>1. CASE CheckCredential(i)
  BY <1>1 DEF CheckCredential
<1>2. CASE ReadBlob(i)
  BY <1>2 DEF ReadBlob
<1>3. CASE CommitJob(i) \/ OpenLog(i) \/ MarkJobRunning(i) \/ Renewed(i) \/ RefreshFails(i)
  BY <1>3 DEF CommitJob, OpenLog, MarkJobRunning, Renewed, RefreshFails
<1>4. CASE Store(i) \/ MarkJobFailed(i) \/ MarkSwallowed(i)
  BY <1>4 DEF Store, MarkJobFailed, MarkSwallowed
<1>5. CASE RaisesEarly(i)
  BY <1>5 DEF RaisesEarly
<1> QED
  BY <1>1, <1>2, <1>3, <1>4, <1>5 DEF Keeps

-----------------------------------------------------------------------------
LEMMA ShapeStep ==
  ASSUME Shape, [CredNext]_credVars
  PROVE  Shape'
<1> USE DEF Shape
<1>1. CASE UNCHANGED credVars
  BY <1>1 DEF CredTypeOK, Subjects, credVars, rowVars, testVars, keepVars, jobVars
<1>2. ASSUME NEW c \in Creds, Manages(c)
      PROVE  Shape'
  <2>1. UNCHANGED <<server, blob, keepVars, jobVars, testVars>>
    BY <1>2, RequestFrame DEF Manages, Create, ScheduleKeepalive, CreateRaises, RevokeRead,
       RevokeCommit, RevokeRaises, UnscheduleKeepalive
  <2>2. Subjects'
    BY <2>1 DEF Subjects, keepVars, testVars
  <2>3. /\ status' \in [Creds -> Statuses \cup {"absent"}]
        /\ revoking' \in [Creds -> Statuses \cup {"idle", "unscheduling"}]
        /\ kept' \subseteq Creds
        /\ creating' \subseteq Creds
        /\ stray' \subseteq Creds
    BY <1>2 DEF CredTypeOK, Statuses, Manages, Create, ScheduleKeepalive, CreateRaises,
       RevokeRead, RevokeCommit, RevokeRaises, UnscheduleKeepalive
  <2> QED
    BY <2>1, <2>2, <2>3 DEF CredTypeOK, keepVars, jobVars, testVars
<1>3. ASSUME NEW q \in Tests, Examines(q)
      PROVE  Shape'
  <2>1. UNCHANGED <<server, blob, keepVars, jobVars>>
    BY <1>3, RequestFrame
  <2>2. UNCHANGED <<kept, creating, revoking>>
    BY <1>3 DEF Examines, TestBegin, TestRead, TestCommit, TestRaises, rowVars
  <2>3. /\ status' \in [Creds -> Statuses \cup {"absent"}]
        /\ testing' \in [Tests -> {"idle", "probing", "writing"}]
        /\ tested' \in [Tests -> Creds \cup {NoCred}]
        /\ seen' \in [Tests -> Statuses \cup {"absent"}]
        /\ verdict' \in [Tests -> Statuses \cup {"absent"}]
        /\ stray' \subseteq Creds
    <3> USE DEF CredTypeOK, Subjects, Statuses, rowVars
    <3>1. CASE TestBegin(q)
      BY <3>1 DEF TestBegin
    <3>2. CASE TestRead(q)
      BY <3>2 DEF TestRead
    <3>3. CASE TestCommit(q)
      BY <3>3 DEF TestCommit, TestEnds
    <3>4. CASE TestRaises(q)
      BY <3>4 DEF TestRaises, TestEnds
    <3> QED
      BY <1>3, <3>1, <3>2, <3>3, <3>4 DEF Examines
  <2>4. /\ \A p \in Tests : testing'[p] # "idle" => tested'[p] \in Creds
        /\ \A p \in Tests : testing'[p] = "writing" => verdict'[p] \in {"active", "expired"}
    BY <1>3 DEF CredTypeOK, Subjects, Examines, TestBegin, TestRead, TestCommit, TestRaises,
       TestEnds
  <2>5. Subjects'
    BY <2>1, <2>4 DEF Subjects, keepVars
  <2> QED
    BY <2>1, <2>2, <2>3, <2>5 DEF CredTypeOK, keepVars, jobVars
<1>4. ASSUME NEW i \in Keepalives, Fire(i)
      PROVE  Shape'
  BY <1>4 DEF CredTypeOK, Subjects, Fire, rowVars, testVars, jobVars
<1>5. ASSUME NEW i \in Keepalives, Keeps(i) \/ RaisesEarly(i) \/ MarkSwallowed(i)
      PROVE  Shape'
  <2>1. UNCHANGED <<server, status, kept, creating, revoking, testVars, stray>>
    BY <1>5, InstanceFrame
  <2>2. Subjects'
    BY <1>5, <2>1, InstanceMoves DEF CredTypeOK, Subjects, testVars
  <2>3. /\ blob' \in [Creds -> Keepalives \cup {Imported}]
        /\ job' \in [Keepalives -> JobUnfinished \cup JobFinished \cup {"absent"}]
        /\ unrecorded' \subseteq Keepalives
    BY <1>5 DEF CredTypeOK, JobUnfinished, JobFinished, Keeps, CheckCredential, ReadBlob,
       CommitJob, OpenLog, MarkJobRunning, Renewed, Store, RefreshFails, MarkJobFailed,
       RaisesEarly, MarkSwallowed, rowVars, jobVars
  <2> QED
    BY <1>5, <2>1, <2>2, <2>3, InstanceMoves DEF CredTypeOK, testVars
<1>6. CASE Down
  BY <1>6 DEF CredTypeOK, Subjects, Down, jobVars, Statuses
<1>7. CASE Start
  BY <1>7 DEF CredTypeOK, Subjects, Start, testVars, keepVars, JobUnfinished, JobFinished
<1> QED
  BY <1>1, <1>2, <1>3, <1>4, <1>5, <1>6, <1>7 DEF CredNext

-----------------------------------------------------------------------------
\* One instance at a time renews a credential, from the blob that is in its row.
LEMMA RenewalStep ==
  ASSUME Shape, OneEach, Fresh, [CredNext]_credVars
  PROVE  OneEach' /\ Fresh'
<1> USE DEF Shape
<1>1. CASE UNCHANGED <<blob, keepVars>>
  BY <1>1 DEF OneEach, Fresh, keepVars
<1>2. ASSUME NEW i \in Keepalives, Fire(i)
      PROVE  OneEach' /\ Fresh'
  <2>1. PICK c \in kept : Instances(c) = {} /\ subject' = [subject EXCEPT ![i] = c]
    BY <1>2 DEF Fire
  <2>2. /\ at'[i] = "sleeping" /\ subject'[i] = c
        /\ \A j \in Keepalives \ {i} : at'[j] = at[j] /\ subject'[j] = subject[j]
        /\ base' = base /\ blob' = blob
    BY <1>2, <2>1 DEF CredTypeOK, Fire, rowVars
  <2>3. \A j \in Keepalives : ~(at[j] # "idle" /\ subject[j] = c)
    BY <2>1 DEF Instances
  <2>4. OneEach'
    BY <2>2, <2>3 DEF OneEach
  <2>5. Fresh'
    BY <2>2 DEF Fresh, Refreshing
  <2> QED
    BY <2>4, <2>5
<1>3. ASSUME NEW i \in Keepalives, Keeps(i) \/ RaisesEarly(i) \/ MarkSwallowed(i)
      PROVE  OneEach' /\ Fresh'
  <2>1. OneEach'
    BY <1>3, InstanceMoves DEF OneEach
  <2>2. CASE blob' = blob
    <3>1. ASSUME NEW j \in Keepalives, at'[j] \in Refreshing
          PROVE  base'[j] = blob[subject'[j]]
      <4>1. CASE j = i
        BY <1>3, <3>1, <4>1, InstanceMoves DEF Fresh, Refreshing
      <4>2. CASE j # i
        BY <1>3, <3>1, <4>2, InstanceMoves DEF Fresh
      <4> QED
        BY <4>1, <4>2
    <3> QED
      BY <2>1, <2>2, <3>1 DEF Fresh
  <2>3. CASE Store(i)
    <3>1. at'[i] = "idle" /\ blob' = [blob EXCEPT ![subject[i]] = i]
      BY <2>3 DEF Store, InstanceEnds, CredTypeOK
    <3>2. ASSUME NEW j \in Keepalives, at'[j] \in Refreshing
          PROVE  base'[j] = blob'[subject'[j]]
      <4>1. j # i
        BY <3>1, <3>2 DEF Refreshing
      <4>2. at[j] \in Refreshing /\ subject'[j] = subject[j] /\ base'[j] = base[j]
        BY <1>3, <3>2, <4>1, InstanceMoves
      <4>3. subject[j] # subject[i] /\ subject[j] \in Creds
        BY <1>3, <4>1, <4>2, InstanceMoves DEF OneEach, Subjects, Refreshing
      <4>4. blob'[subject[j]] = blob[subject[j]]
        BY <3>1, <4>3 DEF CredTypeOK
      <4> QED
        BY <4>2, <4>4 DEF Fresh
    <3> QED
      BY <2>1, <3>2 DEF Fresh
  <2> QED
    BY <1>3, <2>2, <2>3 DEF Keeps, CheckCredential, ReadBlob, CommitJob, OpenLog,
       MarkJobRunning, Renewed, RefreshFails, MarkJobFailed, RaisesEarly, MarkSwallowed, rowVars
<1>4. CASE Down
  BY <1>4 DEF OneEach, Fresh, Down, Refreshing
<1>5. CASE Start
  BY <1>5, <1>1 DEF Start
<1>6. CASE UNCHANGED credVars
  BY <1>6, <1>1 DEF credVars, rowVars
<1> QED
  BY <1>1, <1>2, <1>3, <1>4, <1>5, <1>6, RequestFrame DEF CredNext

\* The step of a renewal: what is stored was made from what it replaces.
LEMMA StoreReplacesBase ==
  ASSUME Shape, Fresh, [CredNext]_credVars,
         NEW c \in Creds, NEW i \in Keepalives, blob'[c] = i, blob[c] # i
  PROVE  base[i] = blob[c] /\ subject[i] = c
<1>1. blob' # blob
  OBVIOUS
<1>2. PICK j \in Keepalives : Store(j)
  BY <1>1, RequestFrame DEF CredNext, credVars, Fire, Keeps, CheckCredential, ReadBlob,
     CommitJob, OpenLog, MarkJobRunning, Renewed, RefreshFails, MarkJobFailed, RaisesEarly,
     MarkSwallowed, Down, Start, rowVars
<1>3. at[j] \in Refreshing /\ blob' = [blob EXCEPT ![subject[j]] = j]
  BY <1>2 DEF Store, Refreshing
<1>4. subject[j] = c /\ j = i
  BY <1>3 DEF Shape, CredTypeOK
<1> QED
  BY <1>3, <1>4 DEF Fresh

-----------------------------------------------------------------------------
\* A job is committed by an instance, and an instance that leaves it unfinished is
\* one of which an exception is the end.
LEMMA WatchStep ==
  ASSUME Shape, JobIsWatched, [CredNext]_credVars
  PROVE  JobIsWatched'
<1> USE DEF Shape
<1>1. CASE UNCHANGED <<server, keepVars, jobVars>>
  BY <1>1 DEF JobIsWatched, keepVars, jobVars
<1>2. ASSUME NEW i \in Keepalives, Fire(i)
      PROVE  JobIsWatched'
  BY <1>2 DEF JobIsWatched, CredTypeOK, Fire, Refreshing, jobVars
<1>3. ASSUME NEW i \in Keepalives, Keeps(i) \/ RaisesEarly(i) \/ MarkSwallowed(i)
      PROVE  JobIsWatched'
  <2>1. /\ \A j \in Keepalives \ {i} :
             at'[j] = at[j] /\ job'[j] = job[j] /\ (j \in unrecorded' <=> j \in unrecorded)
        /\ server' = server
    BY <1>3, InstanceMoves, InstanceFrame DEF CredTypeOK, Keeps, CheckCredential, ReadBlob,
       CommitJob, OpenLog, MarkJobRunning, Renewed, Store, RefreshFails, MarkJobFailed,
       RaisesEarly, MarkSwallowed, jobVars
  <2>2. ASSUME server = "up", job'[i] \in JobUnfinished
        PROVE  at'[i] \in Refreshing \ {"committing"} \/ i \in unrecorded'
    <3> USE <2>2 DEF JobIsWatched, CredTypeOK, Refreshing, JobUnfinished, InstanceEnds, jobVars
    <3>1. CASE CheckCredential(i) \/ ReadBlob(i) \/ CommitJob(i) \/ OpenLog(i)
      BY <3>1 DEF CheckCredential, ReadBlob, CommitJob, OpenLog
    <3>2. CASE MarkJobRunning(i) \/ Renewed(i) \/ RefreshFails(i)
      BY <3>2 DEF MarkJobRunning, Renewed, RefreshFails
    <3>3. CASE Store(i) \/ MarkJobFailed(i)
      BY <3>3 DEF Store, MarkJobFailed
    <3>4. CASE RaisesEarly(i) \/ MarkSwallowed(i)
      BY <3>4 DEF RaisesEarly, MarkSwallowed
    <3> QED
      BY <1>3, <3>1, <3>2, <3>3, <3>4 DEF Keeps
  <2> QED
    BY <2>1, <2>2 DEF JobIsWatched
<1>4. CASE Down
  BY <1>4 DEF JobIsWatched, Down
<1>5. CASE Start
  BY <1>5 DEF JobIsWatched, CredTypeOK, Start, JobUnfinished
<1>6. CASE UNCHANGED credVars
  BY <1>6, <1>1 DEF credVars
<1> QED
  BY <1>1, <1>2, <1>3, <1>4, <1>5, <1>6, RequestFrame DEF CredNext

-----------------------------------------------------------------------------
LEMMA AttendedStep ==
  ASSUME Shape, \A c \in Creds : Attended(c), [CredNext]_credVars,
         NEW c \in Creds
  PROVE  Attended(c)'
<1> USE DEF Shape
<1>0. Attended(c)
  OBVIOUS
<1>1. CASE UNCHANGED <<server, status, kept, creating, revoking, stray>>
  BY <1>0, <1>1 DEF Attended, Settled
<1>2. ASSUME NEW d \in Creds, Manages(d)
      PROVE  Attended(c)'
  <2> USE <1>0 DEF Attended, Settled, CredTypeOK, Statuses
  <2>1. CASE Create(d) \/ ScheduleKeepalive(d) \/ CreateRaises(d)
    BY <2>1 DEF Create, ScheduleKeepalive, CreateRaises
  <2>2. CASE RevokeRead(d) \/ RevokeRaises(d)
    BY <2>2 DEF RevokeRead, RevokeRaises
  <2>3. CASE RevokeCommit(d)
    BY <2>3 DEF RevokeCommit
  <2>4. CASE UnscheduleKeepalive(d)
    BY <2>4 DEF UnscheduleKeepalive
  <2> QED
    BY <1>2, <2>1, <2>2, <2>3, <2>4 DEF Manages
<1>3. ASSUME NEW q \in Tests, TestCommit(q)
      PROVE  Attended(c)'
  <2>1. /\ UNCHANGED <<server, kept, creating, revoking>>
        /\ stray \subseteq stray'
        /\ \/ status'[c] = status[c]
           \/ /\ tested[q] = c /\ status'[c] = verdict[q]
              /\ verdict[q] = "active" /\ NotToStay(c) => c \in stray'
    BY <1>3 DEF TestCommit, CredTypeOK
  <2>2. verdict[q] \in {"active", "expired"}
    BY <1>3 DEF TestCommit, Subjects
  <2>3. CASE status'[c] = status[c]
    BY <1>0, <2>1, <2>3 DEF Attended, Settled
  <2>4. CASE status'[c] = "expired"
    BY <2>4 DEF Attended
  <2>5. CASE status'[c] = "active" /\ (NotToStay(c) => c \in stray')
    BY <2>1, <2>5 DEF Attended, Settled, NotToStay
  <2> QED
    BY <2>1, <2>2, <2>3, <2>4, <2>5
<1>4. CASE Down
  BY <1>4 DEF Attended, Settled, Down
<1>5. CASE Start
  BY <1>0, <1>5 DEF Attended, Settled, Start
<1>6. CASE UNCHANGED credVars
  BY <1>6, <1>1 DEF credVars, rowVars
<1>7. ASSUME NEW q \in Tests, TestBegin(q) \/ TestRead(q) \/ TestRaises(q)
      PROVE  Attended(c)'
  BY <1>7, <1>1 DEF TestBegin, TestRead, TestRaises, rowVars
<1>8. ASSUME NEW i \in Keepalives,
             Fire(i) \/ Keeps(i) \/ RaisesEarly(i) \/ MarkSwallowed(i)
      PROVE  Attended(c)'
  BY <1>8, <1>1, InstanceFrame
<1> QED
  BY <1>2, <1>3, <1>4, <1>5, <1>6, <1>7, <1>8 DEF CredNext, Examines

-----------------------------------------------------------------------------
LEMMA CInvInit == CredInit => CInv
BY DEF CredInit, CInv, Shape, CredTypeOK, Subjects, OneEach, Fresh,
   JobIsWatched, Attended, Settled, Refreshing, Statuses, JobUnfinished, JobFinished

LEMMA CInvStep == CInv /\ [CredNext]_credVars => CInv'
<1> SUFFICES ASSUME CInv, [CredNext]_credVars
             PROVE  CInv'
  OBVIOUS
<1>1. Shape' /\ OneEach' /\ Fresh' /\ JobIsWatched'
  BY ShapeStep, RenewalStep, WatchStep DEF CInv
<1>2. \A c \in Creds : Attended(c)'
  BY AttendedStep DEF CInv
<1> QED
  BY <1>1, <1>2 DEF CInv

\* The inductive invariant: who renews a credential, what of its row is still current,
\* and who has made it active.
THEOREM CredInvariantHolds == CredSpec => []CInv
BY CInvInit, CInvStep, PTL DEF CredSpec

\* Every variable of CredentialService's model keeps its type.
THEOREM CredTypeCorrect == CredSpec => []CredTypeOK
<1>1. CInv => CredTypeOK
  BY DEF CInv, Shape
<1> QED
  BY CredInvariantHolds, <1>1, PTL

\* A refresh replaces the blob it was made from, whatever is read and written between.
THEOREM RenewalsKept == CredSpec => NoRenewalLost
<1>1. CInv /\ [CredNext]_credVars =>
        [\A c \in Creds, i \in Keepalives :
           blob'[c] = i /\ blob[c] # i => base[i] = blob[c] /\ subject[i] = c]_credVars
  BY StoreReplacesBase DEF CInv
<1> QED
  BY CredInvariantHolds, <1>1, PTL DEF CredSpec, NoRenewalLost

\* No two instances are ever under way for one credential, through restarts, revocations
\* and registrations that are made again; so from the read of the blob to the write of the
\* new one nobody else replaces it.
THEOREM RefreshesApart == CredSpec => [](OneEach /\ Fresh)
<1>1. CInv => OneEach /\ Fresh
  BY DEF CInv
<1> QED
  BY CredInvariantHolds, <1>1, PTL

\* An unfinished keepalive job has its instance, or an exception left it behind.
THEOREM JobsAreWatched == CredSpec => []JobHasInstance
<1>1. CInv => JobHasInstance
  BY DEF CInv, JobIsWatched, JobHasInstance
<1> QED
  BY CredInvariantHolds, <1>1, PTL

\* An active credential is kept alive, unless its creation raised after the commit or a
\* test made it active with no job to stay.
THEOREM ActiveAreKept == CredSpec => []ActiveIsKept
<1>1. CInv => ActiveIsKept
  BY DEF CInv, Attended, Settled, ActiveIsKept
<1> QED
  BY CredInvariantHolds, <1>1, PTL

-----------------------------------------------------------------------------
\* Where an instance is while its job is unfinished.
Stages == {"opening", "importing", "renewing", "storing", "failing"}

Recorded(i) == job[i] \in JobFinished \/ i \in unrecorded
Stage(i, k) == job[i] \in JobUnfinished /\ at[i] = k
Abandoned(i) == job[i] \in JobUnfinished /\ server = "down"

\* Where its own steps can take it.
LeadsTo(k) ==
  CASE k = "opening"   -> {"importing"}
    [] k = "importing" -> {"renewing", "failing"}
    [] k = "renewing"  -> {"storing", "failing"}
    [] k = "storing"   -> {"failing"}
    [] k = "failing"   -> {}

\* An unfinished job stays where it is, or its own instance takes it on or records its
\* end, or the server goes down under it.
LEMMA JobMoves ==
  ASSUME Shape, [CredNext]_credVars, NEW i \in Keepalives, NEW k \in Stages, Stage(i, k)
  PROVE  \/ Stage(i, k)' \/ (\E n \in LeadsTo(k) : Stage(i, n)')
         \/ Abandoned(i)' \/ Recorded(i)'
<1>0. /\ DOMAIN at = Keepalives /\ DOMAIN job = Keepalives /\ at[i] = k
      /\ job[i] \in JobUnfinished
  BY DEF Shape, CredTypeOK, Stage
<1>1. CASE UNCHANGED <<keepVars, jobVars>>
  BY <1>1 DEF Stage, keepVars, jobVars
<1>2. ASSUME NEW j \in Keepalives, j # i, Fire(j) \/ Keeps(j) \/ RaisesEarly(j) \/ MarkSwallowed(j)
      PROVE  Stage(i, k)'
  <2>1. at'[i] = at[i] /\ job'[i] = job[i]
    BY <1>0, <1>2 DEF Fire, Keeps, CheckCredential, ReadBlob,
       CommitJob, OpenLog, MarkJobRunning, Renewed, Store, RefreshFails, MarkJobFailed,
       RaisesEarly, MarkSwallowed, jobVars, InstanceEnds
  <2> QED
    BY <1>0, <2>1 DEF Stage
<1>3. CASE Fire(i)
  BY <1>0, <1>3 DEF Fire, Stages
<1>4. CASE CheckCredential(i) \/ ReadBlob(i) \/ CommitJob(i)
  BY <1>0, <1>4 DEF CheckCredential, ReadBlob, CommitJob, Stages
<1>5. CASE OpenLog(i) \/ MarkJobRunning(i) \/ Renewed(i) \/ RefreshFails(i)
  <2>1. at'[i] \in LeadsTo(k)
    BY <1>0, <1>5 DEF OpenLog, MarkJobRunning, Renewed, RefreshFails, LeadsTo
  <2>2. job'[i] \in JobUnfinished
    BY <1>0, <1>5 DEF OpenLog, MarkJobRunning, Renewed, RefreshFails, jobVars, JobUnfinished
  <2> QED
    BY <2>1, <2>2 DEF Stage
<1>6. CASE Store(i) \/ MarkJobFailed(i)
  BY <1>0, <1>6 DEF Store, MarkJobFailed, Recorded, JobFinished
<1>7. CASE RaisesEarly(i)
  BY <1>0, <1>7 DEF RaisesEarly, Recorded, Stages
<1>8. CASE MarkSwallowed(i)
  BY <1>8 DEF MarkSwallowed, Recorded
<1>9. CASE Down
  BY <1>0, <1>9 DEF Down, Abandoned, jobVars
<1>10. CASE Start
  <2>1. job'[i] = "failed"
    BY <1>0, <1>10 DEF Start
  <2> QED
    BY <2>1 DEF Recorded, JobFinished
<1> QED
  BY <1>1, <1>2, <1>3, <1>4, <1>5, <1>6, <1>7, <1>8, <1>9, <1>10, RequestFrame
     DEF CredNext, Keeps, credVars

\* The instance's own step does not leave the job where it is.
LEMMA JobWork ==
  ASSUME Shape, NEW i \in Keepalives, NEW k \in Stages, Stage(i, k), Keeps(i)
  PROVE  ~ Stage(i, k)'
BY DEF Shape, CredTypeOK, Stage, Stages, Keeps, CheckCredential, ReadBlob, CommitJob, OpenLog,
       MarkJobRunning, Renewed, Store, RefreshFails, MarkJobFailed, InstanceEnds

\* A job that the server left behind waits for the sweep of the next start.
LEMMA SweepEnds ==
  ASSUME Shape, [CredNext]_credVars, NEW i \in Keepalives, Abandoned(i)
  PROVE  /\ Abandoned(i)' \/ Recorded(i)'
         /\ Start => Recorded(i)'
<1>0. job[i] \in JobUnfinished /\ server = "down" /\ DOMAIN job = Keepalives
  BY DEF Shape, CredTypeOK, Abandoned
<1>1. CASE UNCHANGED <<server, keepVars, jobVars>>
  BY <1>0, <1>1 DEF Start, Abandoned, jobVars
<1>2. ASSUME NEW j \in Keepalives, Fire(j) \/ Keeps(j) \/ RaisesEarly(j) \/ MarkSwallowed(j)
      PROVE  server' = "down" /\ (job'[i] \in JobUnfinished \/ Recorded(i)')
  <2>1. server' = "down"
    BY <1>0, <1>2, InstanceFrame
  <2>2. job'[i] \in {job[i], "pending", "running"} \/ job'[i] \in {"succeeded", "failed"}
    BY <1>0, <1>2 DEF Fire, Keeps, CheckCredential, ReadBlob,
       CommitJob, OpenLog, MarkJobRunning, Renewed, Store, RefreshFails, MarkJobFailed,
       RaisesEarly, MarkSwallowed, jobVars
  <2> QED
    BY <1>0, <2>1, <2>2 DEF Recorded, JobUnfinished, JobFinished
<1>3. CASE Down
  BY <1>0, <1>3 DEF Down
<1>4. CASE Start
  <2>1. job'[i] = "failed"
    BY <1>0, <1>4 DEF Start
  <2> QED
    BY <2>1 DEF Recorded, JobFinished
<1>5. Start => server' = "up"
  BY DEF Start
<1> QED
  BY <1>1, <1>2, <1>3, <1>4, <1>5, RequestFrame DEF CredNext, credVars, Abandoned

\* ENABLED of the fair actions is their guard, which is there by their definitions: an
\* instance under way can go on, and a server that is down can start.
KeepsEnabled ==
  /\ \A i \in Keepalives : at[i] # "idle" => ENABLED <<Keeps(i)>>_credVars
  /\ server = "down" => ENABLED <<Start>>_credVars

\* A keepalive job ends or its outcome cannot be written, whatever dws does, for any
\* number of instances, if the server comes back.
THEOREM EveryJobEnds == CredFairSpec /\ []KeepsEnabled => JobsEnd
<1> SUFFICES ASSUME NEW i \in Keepalives
             PROVE  CredFairSpec /\ []KeepsEnabled /\ ServerReturns => JobEnds(i)
  BY DEF JobsEnd
<1>1. CInv /\ job[i] \in JobUnfinished =>
        \/ Stage(i, "opening") \/ Stage(i, "importing") \/ Stage(i, "renewing")
        \/ Stage(i, "storing") \/ Stage(i, "failing") \/ Abandoned(i) \/ Recorded(i)
  BY DEF CInv, Shape, CredTypeOK, JobIsWatched, Refreshing, Stage, Abandoned, Recorded
\* What every step does, stage by stage.
<1>2. CInv /\ [CredNext]_credVars /\ Stage(i, "opening") =>
        Stage(i, "opening")' \/ Stage(i, "importing")' \/ Abandoned(i)' \/ Recorded(i)'
  BY JobMoves DEF CInv, Stages, LeadsTo
<1>3. CInv /\ [CredNext]_credVars /\ Stage(i, "importing") =>
        \/ Stage(i, "importing")' \/ Stage(i, "renewing")' \/ Stage(i, "failing")'
        \/ Abandoned(i)' \/ Recorded(i)'
  BY JobMoves DEF CInv, Stages, LeadsTo
<1>4. CInv /\ [CredNext]_credVars /\ Stage(i, "renewing") =>
        \/ Stage(i, "renewing")' \/ Stage(i, "storing")' \/ Stage(i, "failing")'
        \/ Abandoned(i)' \/ Recorded(i)'
  BY JobMoves DEF CInv, Stages, LeadsTo
<1>5. CInv /\ [CredNext]_credVars /\ Stage(i, "storing") =>
        Stage(i, "storing")' \/ Stage(i, "failing")' \/ Abandoned(i)' \/ Recorded(i)'
  BY JobMoves DEF CInv, Stages, LeadsTo
<1>6. CInv /\ [CredNext]_credVars /\ Stage(i, "failing") =>
        Stage(i, "failing")' \/ Abandoned(i)' \/ Recorded(i)'
  BY JobMoves DEF CInv, Stages, LeadsTo
<1>7. CInv /\ [CredNext]_credVars /\ Abandoned(i) => Abandoned(i)' \/ Recorded(i)'
  BY SweepEnds DEF CInv
\* What the steps that must come do, and where they can be taken.
<1>8. CInv /\ <<Keeps(i)>>_credVars =>
        /\ Stage(i, "opening") => ~(Stage(i, "opening")')
        /\ Stage(i, "importing") => ~(Stage(i, "importing")')
        /\ Stage(i, "renewing") => ~(Stage(i, "renewing")')
        /\ Stage(i, "storing") => ~(Stage(i, "storing")')
        /\ Stage(i, "failing") => ~(Stage(i, "failing")')
  BY JobWork DEF CInv, Stages
<1>9. CInv /\ <<Start>>_credVars /\ Abandoned(i) => Recorded(i)'
  BY SweepEnds DEF CInv, CredNext
<1>10. KeepsEnabled =>
         /\ Stage(i, "opening") => ENABLED <<Keeps(i)>>_credVars
         /\ Stage(i, "importing") => ENABLED <<Keeps(i)>>_credVars
         /\ Stage(i, "renewing") => ENABLED <<Keeps(i)>>_credVars
         /\ Stage(i, "storing") => ENABLED <<Keeps(i)>>_credVars
         /\ Stage(i, "failing") => ENABLED <<Keeps(i)>>_credVars
         /\ Abandoned(i) => ENABLED <<Start>>_credVars
  BY DEF KeepsEnabled, Stage, Abandoned
<1>11. CredFairness => InstanceGoesOn(i)
  BY DEF CredFairness
<1> QED
  BY <1>1, <1>2, <1>3, <1>4, <1>5, <1>6, <1>7, <1>8, <1>9, <1>10, <1>11, CredInvariantHolds, PTL
     DEF CredFairSpec, CredSpec, InstanceGoesOn, ServerReturns, JobEnds, Recorded
=============================================================================
