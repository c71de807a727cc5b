----------------------------- MODULE Credential -----------------------------
(***************************************************************************)
(* CredentialService: the rows of dws_credentials, the handlers that       *)
(* create, test and revoke a credential, and the keepalive instances that  *)
(* renew its auth blob and keep a job row of what became of it, as the     *)
(* scheduler and the credential API drive them.                            *)
(*                                                                         *)
(* An action is what happens between two awaits of one coroutine, or a     *)
(* stretch of awaits between which nothing shared is read or written.      *)
(***************************************************************************)
EXTENDS Naturals

CONSTANTS
  Creds,       \* credential ids; each is created at most once
  Tests,       \* requests to test a credential that may be under way at one time
  Keepalives,  \* instances of _scheduled_keepalive that may be under way at one time
  Imported,    \* the blob a credential is created with
  NoCred       \* the subject of an idle handler

ASSUME ImportedAssumption == Imported \notin Keepalives
ASSUME NoCredAssumption == NoCred \notin Creds

VARIABLES
  server,     \* "up" or "down"
  status,     \* dws_credentials.status; "absent": no row yet
  blob,       \* auth_blob: imported, or the instance that exported it
  kept,       \* credentials with a keepalive job in APScheduler
  creating,   \* credentials whose row is committed and whose handler is not done
  revoking,   \* where the revoke handler is suspended: "idle", "unscheduling", or
              \* the status it has read
  testing,    \* where a test is suspended: "idle", "probing", "writing"
  tested,     \* the credential it tests
  seen,       \* the status it has read back, for the write
  verdict,    \* the status it is about to set
  at,         \* where a keepalive instance is suspended
  subject,    \* the credential it is for
  base,       \* the blob it has read
  job,        \* jobs.status of the instance's latest job; "absent": none yet
  unrecorded, \* history: instances whose latest job an exception left unfinished
  stray       \* history: credentials whose creation raised between the commit and the
              \* registration, or that a test made active without a keepalive job or
              \* while a revocation was about to take the job away

rowVars == <<status, blob, kept, creating, revoking>>
testVars == <<testing, tested, seen, verdict>>
keepVars == <<at, subject, base>>
jobVars == <<job, unrecorded>>
credVars == <<server, rowVars, testVars, keepVars, jobVars, stray>>

Statuses == {"active", "expired", "revoked"}
JobUnfinished == {"pending", "running"}
JobFinished == {"succeeded", "failed"}

\* From the read of the blob to the write of the job's outcome.
Refreshing == {"committing", "opening", "importing", "renewing", "storing", "failing"}

\* Instances of one credential's keepalive job.
Instances(c) == {i \in Keepalives : at[i] # "idle" /\ subject[i] = c}

InstanceEnds(i) ==
  /\ at' = [at EXCEPT ![i] = "idle"]
  /\ subject' = [subject EXCEPT ![i] = NoCred]
  /\ base' = [base EXCEPT ![i] = Imported]

-----------------------------------------------------------------------------
\* Variants: bugs a careless edit could make.  The specification uses none of them.

\* add_job with max_instances above one.
FireBeside(i) ==
  /\ server = "up"
  /\ at[i] = "idle"
  /\ \E c \in kept : subject' = [subject EXCEPT ![i] = c]
  /\ at' = [at EXCEPT ![i] = "sleeping"]
  /\ UNCHANGED <<server, rowVars, testVars, base, jobVars, stray>>

\* The exception is logged and not recorded in the job.
MarkJobFailedNot(i) ==
  /\ at[i] = "failing"
  /\ InstanceEnds(i)
  /\ UNCHANGED <<server, rowVars, testVars, jobVars, stray>>

\* The sweep at start-up fails runs and forgets keepalive jobs.
StartWithoutSweep ==
  /\ server = "down"
  /\ server' = "up"
  /\ kept' = {c \in Creds : status[c] = "active"}
  /\ unrecorded' = {}
  /\ UNCHANGED <<status, blob, creating, revoking, testVars, keepVars, job, stray>>

\* The keepalive job is taken away before the row is written.
RevokeReadUnscheduling(c) ==
  /\ server = "up"
  /\ status[c] # "absent"
  /\ revoking[c] = "idle"
  /\ revoking' = [revoking EXCEPT ![c] = status[c]]
  /\ kept' = kept \ {c}
  /\ UNCHANGED <<server, status, blob, creating, testVars, keepVars, jobVars, stray>>

-----------------------------------------------------------------------------
CredInit ==
  /\ server = "up"
  /\ status = [c \in Creds |-> "absent"]
  /\ blob = [c \in Creds |-> Imported]
  /\ kept = {}
  /\ creating = {}
  /\ revoking = [c \in Creds |-> "idle"]
  /\ testing = [q \in Tests |-> "idle"]
  /\ tested = [q \in Tests |-> NoCred]
  /\ seen = [q \in Tests |-> "absent"]
  /\ verdict = [q \in Tests |-> "absent"]
  /\ at = [i \in Keepalives |-> "idle"]
  /\ subject = [i \in Keepalives |-> NoCred]
  /\ base = [i \in Keepalives |-> Imported]
  /\ job = [i \in Keepalives |-> "absent"]
  /\ unrecorded = {}
  /\ stray = {}

\* create_from_import or finalize_login has committed the row.
Create(c) ==
  /\ server = "up"
  /\ status[c] = "absent"
  /\ status' = [status EXCEPT ![c] = "active"]
  /\ creating' = creating \cup {c}
  /\ UNCHANGED <<server, blob, kept, revoking, testVars, keepVars, jobVars, stray>>

\* The row has been read back and the handler goes on to schedule_keepalive, whatever has
\* become of the row.
ScheduleKeepalive(c) ==
  /\ c \in creating
  /\ kept' = kept \cup {c}
  /\ creating' = creating \ {c}
  /\ UNCHANGED <<server, status, blob, revoking, testVars, keepVars, jobVars, stray>>

\* The read of the row after its commit raises, or the registration does and the handler
\* swallows it: the credential is active, and no start but the next registers it.
CreateRaises(c) ==
  /\ c \in creating
  /\ creating' = creating \ {c}
  /\ stray' = stray \cup {c}
  /\ UNCHANGED <<server, status, blob, kept, revoking, testVars, keepVars, jobVars>>

-----------------------------------------------------------------------------
\* revoke, and the handler's call of unschedule_keepalive after it; one revocation of
\* a credential at a time.

RevokeRead(c) ==
  /\ server = "up"
  /\ status[c] # "absent"
  /\ revoking[c] = "idle"
  /\ revoking' = [revoking EXCEPT ![c] = status[c]]
  /\ UNCHANGED <<server, status, blob, kept, creating, testVars, keepVars, jobVars, stray>>

\* The ORM writes a column when its value is not the one it loaded.
RevokeCommit(c) ==
  /\ revoking[c] \in Statuses
  /\ status' = IF revoking[c] = "revoked" THEN status ELSE [status EXCEPT ![c] = "revoked"]
  /\ revoking' = [revoking EXCEPT ![c] = "unscheduling"]
  /\ UNCHANGED <<server, blob, kept, creating, testVars, keepVars, jobVars, stray>>

\* The commit raises, and the keepalive job is not touched.
RevokeRaises(c) ==
  /\ revoking[c] \in Statuses
  /\ revoking' = [revoking EXCEPT ![c] = "idle"]
  /\ UNCHANGED <<server, status, blob, kept, creating, testVars, keepVars, jobVars, stray>>

UnscheduleKeepalive(c) ==
  /\ revoking[c] = "unscheduling"
  /\ kept' = kept \ {c}
  /\ revoking' = [revoking EXCEPT ![c] = "idle"]
  /\ UNCHANGED <<server, status, blob, creating, testVars, keepVars, jobVars, stray>>

-----------------------------------------------------------------------------
\* check_status, of a credential in any status.

TestBegin(q) ==
  /\ server = "up"
  /\ testing[q] = "idle"
  /\ \E c \in Creds : status[c] # "absent" /\ tested' = [tested EXCEPT ![q] = c]
  /\ testing' = [testing EXCEPT ![q] = "probing"]
  /\ UNCHANGED <<server, rowVars, seen, verdict, keepVars, jobVars, stray>>

\* The probe says what dws thinks of the blob; the row is read again to be written.
TestRead(q) ==
  /\ testing[q] = "probing"
  /\ \E v \in {"active", "expired"} : verdict' = [verdict EXCEPT ![q] = v]
  /\ seen' = [seen EXCEPT ![q] = status[tested[q]]]
  /\ testing' = [testing EXCEPT ![q] = "writing"]
  /\ UNCHANGED <<server, rowVars, tested, keepVars, jobVars, stray>>

TestEnds(q) ==
  /\ testing' = [testing EXCEPT ![q] = "idle"]
  /\ tested' = [tested EXCEPT ![q] = NoCred]
  /\ seen' = [seen EXCEPT ![q] = "absent"]
  /\ verdict' = [verdict EXCEPT ![q] = "absent"]

\* The job of a credential that a test makes active may be missing, or going.
NotToStay(c) == c \notin kept \cup creating \/ revoking[c] # "idle"

TestCommit(q) ==
  LET c == tested[q]
      writes == verdict[q] # seen[q]
  IN
  /\ testing[q] = "writing"
  /\ status' = IF writes THEN [status EXCEPT ![c] = verdict[q]] ELSE status
  /\ stray' = IF writes /\ verdict[q] = "active" /\ NotToStay(c)
              THEN stray \cup {c} ELSE stray
  /\ TestEnds(q)
  /\ UNCHANGED <<server, blob, kept, creating, revoking, keepVars, jobVars>>

\* dws cannot be started, or the name of a revoked credential is taken by now.
TestRaises(q) ==
  /\ testing[q] # "idle"
  /\ TestEnds(q)
  /\ UNCHANGED <<server, rowVars, keepVars, jobVars, stray>>

-----------------------------------------------------------------------------
\* A keepalive instance: _scheduled_keepalive and refresh_credential.

\* APScheduler starts a second instance of a job only when the first is done.
Fire(i) ==
  /\ server = "up"
  /\ at[i] = "idle"
  /\ \E c \in kept : Instances(c) = {} /\ subject' = [subject EXCEPT ![i] = c]
  /\ at' = [at EXCEPT ![i] = "sleeping"]
  /\ UNCHANGED <<server, rowVars, testVars, base, jobVars, stray>>

\* The jitter is over and the row is read; refresh_credential reads it once more.
CheckCredential(i) ==
  /\ at[i] = "sleeping"
  /\ IF status[subject[i]] = "active"
     THEN at' = [at EXCEPT ![i] = "reading"] /\ UNCHANGED <<subject, base>>
     ELSE InstanceEnds(i)
  /\ UNCHANGED <<server, rowVars, testVars, jobVars, stray>>

ReadBlob(i) ==
  /\ at[i] = "reading"
  /\ IF status[subject[i]] = "active"
     THEN /\ at' = [at EXCEPT ![i] = "committing"]
          /\ base' = [base EXCEPT ![i] = blob[subject[i]]]
          /\ UNCHANGED subject
     ELSE InstanceEnds(i)
  /\ UNCHANGED <<server, rowVars, testVars, jobVars, stray>>

CommitJob(i) ==
  /\ at[i] = "committing"
  /\ job' = [job EXCEPT ![i] = "pending"]
  /\ unrecorded' = unrecorded \ {i}
  /\ at' = [at EXCEPT ![i] = "opening"]
  /\ UNCHANGED <<server, rowVars, testVars, subject, base, stray>>

\* The job is refreshed and its directory made, and the try block entered.
OpenLog(i) ==
  /\ at[i] = "opening"
  /\ at' = [at EXCEPT ![i] = "importing"]
  /\ UNCHANGED <<server, rowVars, testVars, subject, base, jobVars, stray>>

\* Before the try block: the decryption or the INSERT raises and there is no job, or
\* the refresh or makedirs does and the job stays pending.
RaisesEarly(i) ==
  /\ at[i] \in {"sleeping", "reading", "committing", "opening"}
  /\ unrecorded' = IF at[i] = "opening" THEN unrecorded \cup {i} ELSE unrecorded
  /\ InstanceEnds(i)
  /\ UNCHANGED <<server, rowVars, testVars, job, stray>>

\* dws has imported the blob.
MarkJobRunning(i) ==
  /\ at[i] = "importing"
  /\ job' = [job EXCEPT ![i] = "running"]
  /\ at' = [at EXCEPT ![i] = "renewing"]
  /\ UNCHANGED <<server, rowVars, testVars, subject, base, unrecorded, stray>>

\* The call that makes dws renew its tokens, its status and the export are through.
Renewed(i) ==
  /\ at[i] = "renewing"
  /\ at' = [at EXCEPT ![i] = "storing"]
  /\ UNCHANGED <<server, rowVars, testVars, subject, base, jobVars, stray>>

\* Blob and job in one transaction.  Nothing looks at the status or at the blob that is
\* replaced.
Store(i) ==
  /\ at[i] = "storing"
  /\ blob' = [blob EXCEPT ![subject[i]] = i]
  /\ job' = [job EXCEPT ![i] = "succeeded"]
  /\ InstanceEnds(i)
  /\ UNCHANGED <<server, status, kept, creating, revoking, testVars, unrecorded, stray>>

\* dws fails, times out (every call has a limit), or the database does.
RefreshFails(i) ==
  /\ at[i] \in {"importing", "renewing", "storing"}
  /\ at' = [at EXCEPT ![i] = "failing"]
  /\ UNCHANGED <<server, rowVars, testVars, subject, base, jobVars, stray>>

MarkJobFailed(i) ==
  /\ at[i] = "failing"
  /\ job' = [job EXCEPT ![i] = "failed"]
  /\ InstanceEnds(i)
  /\ UNCHANGED <<server, rowVars, testVars, unrecorded, stray>>

\* An exception of that UPDATE is swallowed.
MarkSwallowed(i) ==
  /\ at[i] = "failing"
  /\ unrecorded' = unrecorded \cup {i}
  /\ InstanceEnds(i)
  /\ UNCHANGED <<server, rowVars, testVars, job, stray>>

-----------------------------------------------------------------------------
\* The process stops or is killed.
Down ==
  /\ server = "up"
  /\ server' = "down"
  /\ kept' = {}
  /\ creating' = {}
  /\ revoking' = [c \in Creds |-> "idle"]
  /\ testing' = [q \in Tests |-> "idle"]
  /\ tested' = [q \in Tests |-> NoCred]
  /\ seen' = [q \in Tests |-> "absent"]
  /\ verdict' = [q \in Tests |-> "absent"]
  /\ at' = [i \in Keepalives |-> "idle"]
  /\ subject' = [i \in Keepalives |-> NoCred]
  /\ base' = [i \in Keepalives |-> Imported]
  /\ stray' = {}
  /\ UNCHANGED <<status, blob, jobVars>>

\* The sweep of unfinished jobs of every kind, then _reload_all.
Start ==
  /\ server = "down"
  /\ server' = "up"
  /\ job' = [i \in Keepalives |-> IF job[i] \in JobUnfinished THEN "failed" ELSE job[i]]
  /\ unrecorded' = {}
  /\ kept' = {c \in Creds : status[c] = "active"}
  /\ UNCHANGED <<status, blob, creating, revoking, testVars, keepVars, stray>>

-----------------------------------------------------------------------------
Keeps(i) ==
  \/ CheckCredential(i) \/ ReadBlob(i) \/ CommitJob(i) \/ OpenLog(i) \/ MarkJobRunning(i)
  \/ Renewed(i) \/ Store(i) \/ RefreshFails(i) \/ MarkJobFailed(i)

Manages(c) ==
  \/ Create(c) \/ ScheduleKeepalive(c) \/ CreateRaises(c)
  \/ RevokeRead(c) \/ RevokeCommit(c) \/ RevokeRaises(c) \/ UnscheduleKeepalive(c)

Examines(q) == TestBegin(q) \/ TestRead(q) \/ TestCommit(q) \/ TestRaises(q)

CredNext ==
  \/ \E c \in Creds : Manages(c)
  \/ \E q \in Tests : Examines(q)
  \/ \E i \in Keepalives : Fire(i) \/ Keeps(i) \/ RaisesEarly(i) \/ MarkSwallowed(i)
  \/ Down \/ Start

CredSpec == CredInit /\ [][CredNext]_credVars

\* The loop resumes every instance that can go on; each call of dws has a timeout.
InstanceGoesOn(i) == WF_credVars(Keeps(i))
CredFairness == \A i \in Keepalives : InstanceGoesOn(i)

CredFairSpec == CredSpec /\ CredFairness

-----------------------------------------------------------------------------
\* Where each variable takes its values.
CredTypeOK ==
  /\ server \in {"up", "down"}
  /\ status \in [Creds -> Statuses \cup {"absent"}]
  /\ blob \in [Creds -> Keepalives \cup {Imported}]
  /\ kept \subseteq Creds
  /\ creating \subseteq Creds
  /\ revoking \in [Creds -> Statuses \cup {"idle", "unscheduling"}]
  /\ testing \in [Tests -> {"idle", "probing", "writing"}]
  /\ tested \in [Tests -> Creds \cup {NoCred}]
  /\ seen \in [Tests -> Statuses \cup {"absent"}]
  /\ verdict \in [Tests -> Statuses \cup {"absent"}]
  /\ at \in [Keepalives -> Refreshing \cup {"idle", "sleeping", "reading"}]
  /\ subject \in [Keepalives -> Creds \cup {NoCred}]
  /\ base \in [Keepalives -> Keepalives \cup {Imported}]
  /\ job \in [Keepalives -> JobUnfinished \cup JobFinished \cup {"absent"}]
  /\ unrecorded \subseteq Keepalives
  /\ stray \subseteq Creds

\* No renewal is lost: the blob that a refresh stores was renewed from the one it
\* replaces, although the row is read minutes before it is written and the write has no
\* condition.  Renewed from an older one, it could put older tokens and expiry times
\* back in the row.
NoRenewalLost ==
  [][\A c \in Creds, i \in Keepalives :
       blob'[c] = i /\ blob[c] # i => base[i] = blob[c] /\ subject[i] = c]_credVars

\* While the server is up, a keepalive job that is not finished has an instance that
\* will finish it, unless the write of its outcome raised or nothing was to write one.
JobHasInstance ==
  server = "up" =>
    \A i \in Keepalives : job[i] \in JobUnfinished => at[i] \in Refreshing \/ i \in unrecorded

\* An active credential that no handler is busy with is kept alive, but for what the
\* handlers do not mend before the next start: a creation that raised after its commit, and
\* a test that made the credential active without a keepalive job to stay.  Revocations,
\* tests that find nothing new, keepalive instances and restarts, in any order, leave no
\* other active credential without its job.
ActiveIsKept ==
  server = "up" =>
    \A c \in Creds : status[c] = "active" /\ c \notin creating /\ revoking[c] = "idle" =>
      c \in kept \cup stray

\* A keepalive job ends, whatever dws does, or its outcome cannot be written, if the
\* server is started again when it is down.
ServerReturns == WF_credVars(Start)
JobEnds(i) == job[i] \in JobUnfinished ~> job[i] \in JobFinished \/ i \in unrecorded

JobsEnd == ServerReturns => \A i \in Keepalives : JobEnds(i)

\* Revoking a credential is a deletion: a revoked credential stays revoked.
RevokedStays ==
  [][\A c \in Creds : status[c] = "revoked" => status'[c] = "revoked"]_credVars
=============================================================================
