------------------------- MODULE DeviceLoginProofs --------------------------
(***************************************************************************)
(* That directories and processes of device logins have an owner, and that *)
(* a finalize request made in time stores the account with the blob, for   *)
(* any number of logins, polls and finalize requests; and that logins and  *)
(* polls end under fairness.                                               *)
(***************************************************************************)
EXTENDS DeviceLogin, TLAPS

\* A process exits with 0 only when the token is written, and the token stays until the
\* session is cleaned up; success is told only of such a process.
TokenInv(l) ==
  /\ l \in token => phase[l] \in {"open", "lost"}
  /\ proc[l] = "ok" => phase[l] \in {"open", "ended", "lost"}
  /\ proc[l] = "ok" /\ phase[l] = "open" => l \in token
  /\ l \in told => proc[l] = "ok"

\* A request made after success is of such a login: if dws knew no account when it was
\* asked, the session was gone already, and with it what could be exported.
RequestInv(f) ==
  /\ fin[f] # "idle" => of[f] \in Logins
  /\ fin[f] # "idle" => phase[of[f]] \in {"open", "ended", "lost"}
  /\ fin[f] # "idle" /\ f \notin early => of[f] \in told
  /\ fin[f] = "exporting" /\ meta[f] = "logged out" /\ f \notin early => phase[of[f]] # "open"
  /\ fin[f] \in Finalizing => phase[of[f]] # "lost"
  /\ fin[f] \in {"storing", "rereading", "stored", "unread"} /\ meta[f] = "logged out"
       => f \in early

LoginInv(l) ==
  /\ l \in dir => phase[l] \in Owned \cup {"lost"} \/ l \in stranded
  /\ phase[l] \in Owned => l \in dir
  /\ proc[l] = "running" => phase[l] \in {"reading", "open", "lost"}
  /\ TokenInv(l)

DInv ==
  /\ DeviceTypeOK
  /\ \A l \in Logins : LoginInv(l)
  /\ \A f \in Finals : RequestInv(f)

-----------------------------------------------------------------------------
\* What _cleanup_session does, one login at a time.
LEMMA CleanUpEach ==
  ASSUME DeviceTypeOK, NEW S \in SUBSET Logins, CleanUp(S), NEW l \in Logins
  PROVE  \/ /\ phase[l] = "open" /\ phase'[l] = "ended"
            /\ proc'[l] = IF proc[l] = "running" THEN "failed" ELSE proc[l]
            /\ l \notin dir' /\ l \notin token'
         \/ /\ phase'[l] = phase[l] /\ proc'[l] = proc[l]
            /\ l \in dir' <=> l \in dir
            /\ l \in token' <=> l \in token
BY DEF CleanUp, DeviceTypeOK

\* Removing sessions keeps the types, and leaves no session without a drain task.
LEMMA CleanUpTypes ==
  ASSUME DeviceTypeOK, NEW S \in SUBSET Logins, CleanUp(S)
  PROVE  /\ phase' \in [Logins -> Owned \cup {"new", "ended", "lost"}]
         /\ proc' \in [Logins -> {"none", "running", "ok", "failed"}]
         /\ drain' \in [Logins -> {"none", "reading", "done", "cancelled"}]
         /\ \A l \in Logins : phase'[l] = "open" => drain'[l] \in {"reading", "done"}
         /\ dir' \subseteq Logins
         /\ token' \subseteq Logins
         /\ aged' \subseteq Logins
BY DEF CleanUp, DeviceTypeOK

\* A login that has been cleaned up keeps LoginInv.
LEMMA CleanUpKeeps ==
  ASSUME DeviceTypeOK, NEW S \in SUBSET Logins, CleanUp(S), UNCHANGED stranded,
         NEW l \in Logins, LoginInv(l), l \in told' => l \in told \/ proc[l] = "ok"
  PROVE  LoginInv(l)'
BY CleanUpEach DEF LoginInv, TokenInv, Owned, DeviceTypeOK

-----------------------------------------------------------------------------
\* The steps of a login that is started, of dws, its user and the clock.
Advance(l) ==
  \/ StartLogin(l) \/ StartEnds(l) \/ Agree(l) \/ ProcessExit(l) \/ DrainEnds(l) \/ Age(l)

\* The steps of a login's own coroutine, process and clock keep the types.
LEMMA AdvanceTypes ==
  ASSUME DeviceTypeOK, NEW l \in Logins, Advance(l)
  PROVE  DeviceTypeOK'
<1> USE DEF DeviceTypeOK, pollVars, finVars, Owned
<1>1. CASE StartLogin(l)
  BY <1>1 DEF StartLogin
<1>2. CASE Spawn(l)
  BY <1>2 DEF Spawn
<1>3. CASE SpawnRaises(l)
  BY <1>3 DEF SpawnRaises
<1>4. CASE GotCode(l)
  BY <1>4 DEF GotCode
<1>8. CASE NoCode(l)
  BY <1>8 DEF NoCode
<1>9. CASE KillRaises(l)
  BY <1>9 DEF KillRaises
<1>5. CASE Agree(l)
  BY <1>5 DEF Agree
<1>6. CASE ProcessExit(l)
  <2>1. PICK code \in {"ok", "failed"} : proc' = [proc EXCEPT ![l] = code]
    BY <1>6 DEF ProcessExit
  <2> QED
    BY <1>6, <2>1 DEF ProcessExit
<1>7. CASE DrainEnds(l)
  BY <1>7 DEF DrainEnds
<1>10. CASE Age(l)
  BY <1>10 DEF Age
<1> QED
  BY <1>1, <1>2, <1>3, <1>4, <1>5, <1>6, <1>7, <1>8, <1>9, <1>10 DEF Advance, StartEnds

\* They keep what is said of that login.
LEMMA AdvanceKeeps ==
  ASSUME DeviceTypeOK, NEW l \in Logins, LoginInv(l), Advance(l)
  PROVE  LoginInv(l)'
<1> USE DEF DeviceTypeOK, LoginInv, TokenInv, pollVars, Owned
<1>1. CASE StartLogin(l)
  BY <1>1 DEF StartLogin
<1>2. CASE Spawn(l)
  BY <1>2 DEF Spawn
<1>3. CASE SpawnRaises(l)
  BY <1>3 DEF SpawnRaises
<1>4. CASE GotCode(l)
  BY <1>4 DEF GotCode
<1>5. CASE NoCode(l)
  BY <1>5 DEF NoCode
<1>6. CASE KillRaises(l)
  BY <1>6 DEF KillRaises
<1>7. CASE Agree(l)
  BY <1>7 DEF Agree
<1>8. CASE ProcessExit(l)
  BY <1>8 DEF ProcessExit
<1>9. CASE DrainEnds(l) \/ Age(l)
  BY <1>9 DEF DrainEnds, Age
<1> QED
  BY <1>1, <1>2, <1>3, <1>4, <1>5, <1>6, <1>7, <1>8, <1>9 DEF Advance, StartEnds

\* The other logins do not notice, and no session comes from one that has been used.
LEMMA AdvanceApart ==
  ASSUME DeviceTypeOK, NEW l \in Logins, Advance(l)
  PROVE  /\ \A k \in Logins \ {l} :
              /\ phase'[k] = phase[k] /\ proc'[k] = proc[k]
              /\ k \in dir' <=> k \in dir
              /\ k \in token' <=> k \in token
              /\ k \in stranded' <=> k \in stranded
         /\ UNCHANGED <<told, finVars>>
         /\ phase[l] \in {"open", "ended", "lost"} => phase'[l] = phase[l]
<1> USE DEF DeviceTypeOK, pollVars
<1>1. CASE StartLogin(l) \/ Spawn(l)
  BY <1>1 DEF StartLogin, Spawn
<1>2. CASE SpawnRaises(l) \/ KillRaises(l)
  BY <1>2 DEF SpawnRaises, KillRaises
<1>3. CASE GotCode(l) \/ NoCode(l)
  BY <1>3 DEF GotCode, NoCode
<1>4. CASE Agree(l) \/ ProcessExit(l)
  BY <1>4 DEF Agree, ProcessExit
<1>5. CASE DrainEnds(l) \/ Age(l)
  BY <1>5 DEF DrainEnds, Age
<1> QED
  BY <1>1, <1>2, <1>3, <1>4, <1>5 DEF Advance, StartEnds

\* They keep the invariant: no other login and no request is touched.
LEMMA AdvanceStep ==
  ASSUME DInv, NEW l \in Logins, Advance(l)
  PROVE  DInv'
<1> USE DEF DInv
<1>1. DeviceTypeOK'
  BY AdvanceTypes
<1>2. ASSUME NEW k \in Logins
      PROVE  LoginInv(k)'
  <2>1. CASE k = l
    BY <2>1, AdvanceKeeps
  <2>2. CASE k # l
    BY <2>2, AdvanceApart DEF LoginInv, TokenInv
  <2> QED
    BY <2>1, <2>2
<1>3. ASSUME NEW f \in Finals
      PROVE  RequestInv(f)'
  <2>1. UNCHANGED <<fin, of, meta, early, told>>
    BY AdvanceApart DEF finVars
  <2>2. ASSUME NEW k \in Logins, phase[k] \in {"open", "ended", "lost"}
        PROVE  phase'[k] = phase[k]
    BY <2>2, AdvanceApart
  <2>3. fin[f] # "idle" => phase'[of[f]] = phase[of[f]]
    BY <2>2 DEF RequestInv
  <2> QED
    BY <2>1, <2>3 DEF RequestInv, Finalizing, Asking
<1> QED
  BY <1>1, <1>2, <1>3

-----------------------------------------------------------------------------
\* Polls and the loop: they may clean sessions up, and tell of success.
Attend ==
  \/ \E l \in Logins : PollNow(l)
  \/ \E p \in Polls : PollWaits(p) \/ PollEnds(p)
  \/ CleanUpExpired

\* Polls and the cleanup loop do one of two things to the logins: nothing, or CleanUp.
LEMMA AttendEffect ==
  ASSUME DInv, Attend
  PROVE  /\ UNCHANGED <<finVars, stranded>>
         /\ polled' \in [Polls -> Logins \cup {NoLogin}]
         /\ told \subseteq told' /\ told' \subseteq Logins
         /\ \A l \in told' : l \in told \/ proc[l] = "ok"
         /\ UNCHANGED loginVars \/ \E S \in SUBSET Logins : CleanUp(S)
<1> USE DEF DInv, DeviceTypeOK, Answer, pollVars
<1>1. CASE \E l \in Logins : PollNow(l)
  <2>1. PICK l \in Logins : PollNow(l)
    BY <1>1
  <2>2. Answer(l) /\ UNCHANGED <<polled, finVars, stranded>>
    BY <2>1 DEF PollNow
  <2>3. CASE proc[l] = "ok"
    <3>1. told' = told \cup {l} /\ UNCHANGED loginVars
      BY <2>2, <2>3
    <3> QED
      BY <2>2, <2>3, <3>1
  <2>4. CASE proc[l] # "ok"
    <3>1. CleanUp({l}) /\ told' = told /\ {l} \in SUBSET Logins
      BY <2>2, <2>4
    <3> QED
      BY <2>2, <3>1
  <2> QED
    BY <2>3, <2>4
<1>2. CASE \E p \in Polls : PollWaits(p)
  BY <1>2 DEF PollWaits
<1>3. CASE \E p \in Polls : PollResumes(p)
  <2>1. PICK p \in Polls : PollResumes(p)
    BY <1>3
  <2>2. polled[p] \in Logins
    BY <2>1 DEF PollResumes
  <2>3. Answer(polled[p]) /\ polled' = [polled EXCEPT ![p] = NoLogin]
    BY <2>1 DEF PollResumes
  <2>4. UNCHANGED <<finVars, stranded>>
    BY <2>1 DEF PollResumes
  <2>5. {polled[p]} \in SUBSET Logins
    BY <2>2
  <2>6. CASE proc[polled[p]] = "ok"
    <3>1. told' = told \cup {polled[p]} /\ UNCHANGED loginVars
      BY <2>3, <2>6
    <3>2. /\ told \subseteq told' /\ told' \subseteq Logins
          /\ \A l \in told' : l \in told \/ proc[l] = "ok"
      BY <2>2, <2>6, <3>1
    <3> QED
      BY <2>3, <2>4, <3>1, <3>2
  <2>7. CASE proc[polled[p]] # "ok"
    BY <2>3, <2>4, <2>5, <2>7
  <2> QED
    BY <2>6, <2>7
<1>4. CASE \E p \in Polls : PollCancelled(p)
  BY <1>4 DEF PollCancelled
<1>5. CASE CleanUpExpired
  BY <1>5 DEF CleanUpExpired
<1> QED
  BY <1>1, <1>2, <1>3, <1>4, <1>5 DEF Attend, PollEnds

\* Polls and the cleanup loop keep the invariant.
LEMMA AttendStep ==
  ASSUME DInv, Attend
  PROVE  DInv'
<1> USE DEF DInv
<1>1. CASE UNCHANGED loginVars
  <2>1. DeviceTypeOK'
    BY <1>1, AttendEffect DEF DeviceTypeOK, loginVars, finVars
  <2>2. \A l \in Logins : LoginInv(l)'
    BY <1>1, AttendEffect DEF LoginInv, TokenInv, loginVars
  <2>3. \A f \in Finals : RequestInv(f)'
    BY <1>1, AttendEffect DEF RequestInv, loginVars, finVars
  <2> QED
    BY <2>1, <2>2, <2>3
<1>2. ASSUME NEW S \in SUBSET Logins, CleanUp(S)
      PROVE  DInv'
  <2>1. DeviceTypeOK'
    BY <1>2, CleanUpTypes, AttendEffect DEF DeviceTypeOK, finVars
  <2>2. \A l \in Logins : LoginInv(l)'
    BY <1>2, CleanUpKeeps, AttendEffect
  <2>3. ASSUME NEW f \in Finals
        PROVE  RequestInv(f)'
    <3>1. UNCHANGED <<fin, of, meta, early>> /\ told \subseteq told'
      BY AttendEffect DEF finVars
    <3>2. fin[f] # "idle" => /\ of[f] \in Logins
                             /\ phase'[of[f]] = phase[of[f]] \/ phase'[of[f]] = "ended"
      BY <1>2, CleanUpEach DEF RequestInv
    <3>3. fin[f] \in Finalizing \cup {"exporting", "storing", "rereading", "stored", "unread"}
            => fin[f] # "idle"
      BY DEF Finalizing, Asking
    <3> QED
      BY <3>1, <3>2, <3>3 DEF RequestInv
  <2> QED
    BY <2>1, <2>2, <2>3
<1> QED
  BY <1>1, <1>2, AttendEffect

-----------------------------------------------------------------------------
\* Finalize requests.
LEMMA FinalizeOthers ==
  ASSUME DeviceTypeOK, NEW f \in Finals, Finalizes(f)
  PROVE  /\ \A g \in Finals \ {f} :
              /\ fin'[g] = fin[g] /\ of'[g] = of[g] /\ meta'[g] = meta[g]
              /\ g \in early' <=> g \in early
         /\ UNCHANGED pollVars
<1> USE DEF DeviceTypeOK, finVars
<1>1. CASE FinalizeBegin(f)
  BY <1>1 DEF FinalizeBegin
<1>2. CASE AskStatus(f) \/ Export(f)
  <2>1. CASE AskStatus(f)
    <3>1. PICK answer \in {"silent", "account", "logged out"} :
            meta' = [meta EXCEPT ![f] = answer]
      BY <2>1 DEF AskStatus
    <3> QED
      BY <2>1, <3>1 DEF AskStatus
  <2>2. CASE Export(f)
    BY <2>2 DEF Export
  <2> QED
    BY <1>2, <2>1, <2>2
<1>3. CASE FinalizeRaises(f) \/ Remake(f)
  BY <1>3 DEF FinalizeRaises, Remake
<1>4. CASE Store(f) \/ StoreRaises(f)
  BY <1>4 DEF Store, StoreRaises
<1>5. CASE Complete(f) \/ RereadRaises(f)
  BY <1>5 DEF Complete, RereadRaises
<1> QED
  BY <1>1, <1>2, <1>3, <1>4, <1>5 DEF Finalizes

\* The steps that leave the login alone.
LEMMA FinalizeQuietly ==
  ASSUME DInv, NEW f \in Finals,
         \/ FinalizeBegin(f) \/ AskStatus(f) \/ Export(f) \/ Store(f)
         \/ StoreRaises(f) \/ RereadRaises(f)
  PROVE  DInv'
<1> USE DEF DInv
<1>1. UNCHANGED <<loginVars, pollVars, stranded>>
  BY DEF FinalizeBegin, AskStatus, Export, Store, StoreRaises, RereadRaises
<1>2. \A l \in Logins : LoginInv(l)'
  BY <1>1 DEF LoginInv, TokenInv, loginVars, pollVars
<1>3. /\ fin' \in [Finals -> Finalizing \cup {"idle", "stored", "unread", "failed"}]
      /\ of' \in [Finals -> Logins \cup {NoLogin}]
      /\ meta' \in [Finals -> {"unknown", "silent", "logged out", "account"}]
      /\ early' \subseteq Finals
  <2> USE DEF DeviceTypeOK, Finalizing, Asking
  <2>1. CASE FinalizeBegin(f)
    BY <2>1 DEF FinalizeBegin
  <2>2. CASE AskStatus(f)
    <3>1. PICK answer \in {"silent", "account", "logged out"} :
            meta' = [meta EXCEPT ![f] = answer]
      BY <2>2 DEF AskStatus
    <3> QED
      BY <2>2, <3>1 DEF AskStatus
  <2>3. CASE Export(f) \/ Store(f)
    BY <2>3 DEF Export, Store
  <2>4. CASE StoreRaises(f) \/ RereadRaises(f)
    BY <2>4 DEF StoreRaises, RereadRaises
  <2> QED
    BY <2>1, <2>2, <2>3, <2>4
<1>4. RequestInv(f)'
  <2> USE <1>1 DEF RequestInv, DeviceTypeOK, loginVars, pollVars, Finalizing, Asking
  <2>1. CASE FinalizeBegin(f)
    <3>1. PICK l \in Logins :
            /\ phase[l] = "open" /\ of' = [of EXCEPT ![f] = l]
            /\ early' = IF l \in told THEN early ELSE early \cup {f}
      BY ONLY <2>1 DEF FinalizeBegin
    <3>2. of'[f] = l /\ fin'[f] = "asking" /\ (f \notin early' => l \in told)
      <4>1. DOMAIN of = Finals /\ DOMAIN fin = Finals
        OBVIOUS
      <4>2. fin' = [fin EXCEPT ![f] = "asking"]
        BY ONLY <2>1 DEF FinalizeBegin
      <4> QED
        BY ONLY <3>1, <4>1, <4>2
    <3>3. phase' = phase /\ told' = told
      BY <1>1
    <3> QED
      BY ONLY <3>1, <3>2, <3>3 DEF RequestInv, Finalizing, Asking
  <2>2. CASE AskStatus(f)
    <3>1. /\ fin[f] = "asking" /\ fin' = [fin EXCEPT ![f] = "exporting"]
          /\ UNCHANGED <<of, early>>
          /\ meta'[f] = "logged out" => of[f] \notin token
      BY <2>2 DEF AskStatus
    <3>2. f \notin early => of[f] \in told /\ of[f] \in Logins
      BY <3>1
    <3>3. of[f] \in told /\ of[f] \in Logins /\ of[f] \notin token => phase[of[f]] # "open"
      BY DEF LoginInv, TokenInv
    <3> QED
      BY <3>1, <3>2, <3>3
  <2>3. CASE Export(f)
    <3>1. of[f] \in Logins /\ of[f] \in token /\ fin[f] = "exporting"
      BY <2>3 DEF Export
    <3>2. phase[of[f]] = "open"
      BY <3>1 DEF LoginInv, TokenInv
    <3> QED
      BY <2>3, <3>1, <3>2 DEF Export
  <2>4. CASE Store(f) \/ StoreRaises(f) \/ RereadRaises(f)
    BY <2>4 DEF Store, StoreRaises, RereadRaises
  <2> QED
    BY <2>1, <2>2, <2>3, <2>4
<1>5. ASSUME NEW g \in Finals \ {f}
      PROVE  RequestInv(g)'
  BY <1>1, <1>5, FinalizeOthers DEF Finalizes, RequestInv, loginVars, pollVars
<1> QED
  BY <1>1, <1>2, <1>3, <1>4, <1>5 DEF DeviceTypeOK, loginVars, pollVars

\* The steps that end with _cleanup_session.
LEMMA FinalizeCleaning ==
  ASSUME DInv, NEW f \in Finals, FinalizeRaises(f) \/ Complete(f)
  PROVE  DInv'
<1> USE DEF DInv
<1>1. /\ CleanUp({of[f]})
      /\ UNCHANGED <<pollVars, of, meta, early, stranded>>
  BY DEF FinalizeRaises, Complete
<1>2. PICK r \in {"failed", "stored"} :
        /\ fin' = [fin EXCEPT ![f] = r]
        /\ r = "stored" => fin[f] = "rereading"
        /\ fin[f] \in Finalizing
  BY DEF FinalizeRaises, Complete, Finalizing
<1>3. fin' \in [Finals -> Finalizing \cup {"idle", "stored", "unread", "failed"}]
  BY <1>2 DEF DeviceTypeOK
<1>4. fin[f] # "idle" /\ fin'[f] = r
  BY <1>2 DEF DeviceTypeOK, Finalizing, Asking
<1>5. {of[f]} \in SUBSET Logins
  BY <1>4 DEF RequestInv
<1>6. DeviceTypeOK'
  BY <1>1, <1>3, <1>5, CleanUpTypes DEF DeviceTypeOK, pollVars
<1>7. \A l \in Logins : LoginInv(l)'
  BY <1>1, <1>5, CleanUpKeeps DEF pollVars
<1>8. phase'[of[f]] # "open"
  BY <1>1, <1>5 DEF CleanUp
<1>9. ASSUME NEW g \in Finals
      PROVE  RequestInv(g)'
  <2>1. fin[g] # "idle" => /\ of[g] \in Logins
                           /\ phase'[of[g]] = phase[of[g]] \/ phase'[of[g]] = "ended"
    BY <1>1, <1>5, CleanUpEach DEF RequestInv
  <2>2. CASE g # f
    <3>1. fin'[g] = fin[g]
      BY <1>2, <2>2 DEF DeviceTypeOK
    <3>2. fin[g] \in Finalizing \cup {"exporting", "storing", "rereading", "stored", "unread"}
            => fin[g] # "idle"
      BY DEF Finalizing, Asking
    <3>3. UNCHANGED <<of, meta, early, told>>
      BY <1>1 DEF pollVars
    <3> QED
      BY <2>1, <3>1, <3>2, <3>3 DEF RequestInv
  <2>3. CASE g = f
    BY <1>1, <1>2, <1>4, <1>8, <2>1, <2>3 DEF RequestInv, pollVars, Finalizing, Asking
  <2> QED
    BY <2>2, <2>3
<1> QED
  BY <1>6, <1>7, <1>9

\* A directory that dws makes again is recorded as stranded.
LEMMA RemakeStep ==
  ASSUME DInv, NEW f \in Finals, Remake(f)
  PROVE  DInv'
<1> USE DEF DInv
<1>1. of[f] \in Logins
  BY DEF Remake, RequestInv, Asking, DeviceTypeOK
<1>2. DeviceTypeOK'
  BY <1>1 DEF Remake, DeviceTypeOK, pollVars, finVars
<1>3. \A l \in Logins : LoginInv(l)'
  BY <1>1 DEF Remake, LoginInv, TokenInv, pollVars
<1>4. \A g \in Finals : RequestInv(g)'
  BY DEF Remake, RequestInv, pollVars, finVars
<1> QED
  BY <1>2, <1>3, <1>4

-----------------------------------------------------------------------------
\* A restart loses every login at once, with its requests.
LEMMA RestartStep ==
  ASSUME DInv, Restart
  PROVE  DInv'
<1> USE DEF DInv
<1>1. DeviceTypeOK'
  <2>1. /\ phase' \in [Logins -> Owned \cup {"new", "ended", "lost"}]
        /\ \A l \in Logins : phase'[l] # "open"
    BY DEF Restart, DeviceTypeOK, Owned
  <2>2. drain' \in [Logins -> {"none", "reading", "done", "cancelled"}]
    BY DEF Restart, DeviceTypeOK
  <2>3. fin' \in [Finals -> Finalizing \cup {"idle", "stored", "unread", "failed"}]
    BY DEF Restart, DeviceTypeOK, Finalizing, Asking
  <2> QED
    BY <2>1, <2>2, <2>3 DEF Restart, DeviceTypeOK
<1>2. \A l \in Logins : LoginInv(l)'
  BY DEF Restart, LoginInv, TokenInv, Owned, DeviceTypeOK
<1>3. ASSUME NEW f \in Finals
      PROVE  RequestInv(f)'
  <2>1. /\ fin'[f] \in {"idle", "stored", "unread", "failed"}
        /\ fin'[f] = "idle" <=> fin[f] = "idle"
        /\ fin'[f] = "stored" => fin[f] = "stored"
        /\ fin'[f] = "unread" => fin[f] \in {"rereading", "unread"}
    BY DEF Restart, DeviceTypeOK, Finalizing, Asking
  <2>2. fin[f] # "idle" => phase'[of[f]] \in {"ended", "lost"}
    BY DEF Restart, RequestInv, Owned
  <2> QED
    BY <2>1, <2>2 DEF Restart, RequestInv, Finalizing, Asking
<1> QED
  BY <1>1, <1>2, <1>3

\* The invariant holds initially.
LEMMA DInvInit == DeviceInit => DInv
BY NoLoginAssumption DEF DeviceInit, DInv, DeviceTypeOK, LoginInv, TokenInv, RequestInv, Owned,
   Finalizing, Asking

\* Every step keeps it.
LEMMA DInvStep == DInv /\ [DeviceNext]_deviceVars => DInv'
<1> SUFFICES ASSUME DInv, [DeviceNext]_deviceVars
             PROVE  DInv'
  OBVIOUS
<1>1. CASE UNCHANGED deviceVars
  BY <1>1 DEF DInv, DeviceTypeOK, LoginInv, TokenInv, RequestInv, deviceVars, loginVars, pollVars,
     finVars
<1>2. CASE \E l \in Logins : Advance(l)
  BY <1>2, AdvanceStep
<1>3. CASE Attend
  BY <1>3, AttendStep
<1>4. CASE \E f \in Finals : Finalizes(f)
  BY <1>4, FinalizeQuietly, FinalizeCleaning, RemakeStep DEF Finalizes
<1>5. CASE Restart
  BY <1>5, RestartStep
<1> QED
  BY <1>1, <1>2, <1>3, <1>4, <1>5 DEF DeviceNext, Advance, Attend

\* The inductive invariant: who owns directories and processes, what a token means, and
\* what a finalize request has seen.
THEOREM DeviceInvariantHolds == DeviceSpec => []DInv
BY DInvInit, DInvStep, PTL DEF DeviceSpec

\* Every variable of a device login keeps its type, and a session has a drain task.
THEOREM DeviceTypeCorrect == DeviceSpec => []DeviceTypeOK
<1>1. DInv => DeviceTypeOK
  BY DEF DInv
<1> QED
  BY DeviceInvariantHolds, <1>1, PTL

\* Directories have an owner and sessions their directory, in spite of every overlap, and
\* a process of dws login that runs belongs to a login that will end it.
THEOREM ResourcesAreOwned == DeviceSpec => []ResourcesOwned
<1>1. DInv => ResourcesOwned
  BY DEF DInv, LoginInv, ResourcesOwned, DirectoriesOwned, ProcessesOwned
<1> QED
  BY DeviceInvariantHolds, <1>1, PTL

\* Who finalizes after success never stores a blob with the answer of a dws that was not
\* logged in.
THEOREM AccountsAreStored == DeviceSpec => []StoredWithAccount
<1>1. DInv => StoredWithAccount
  BY DEF DInv, RequestInv, StoredWithAccount
<1> QED
  BY DeviceInvariantHolds, <1>1, PTL

-----------------------------------------------------------------------------
\* What a step may do to a login: leave it where it is and perhaps end its drain task,
\* take its start further, or end it.
Rests(l) ==
  /\ phase'[l] = phase[l]
  /\ drain'[l] # drain[l] => drain[l] = "reading" /\ drain'[l] \in {"done", "cancelled"}
  /\ phase[l] = "open" /\ l \in aged => l \in aged'

Advances(l) ==
  \/ phase[l] = "new" /\ phase'[l] = "starting" /\ drain'[l] = drain[l]
  \/ phase[l] = "starting" /\ phase'[l] = "reading" /\ drain'[l] = drain[l]
  \/ phase[l] = "reading" /\ phase'[l] = "open" /\ drain'[l] = "reading"

Ends(l) ==
  /\ phase[l] \in Owned /\ phase'[l] \in {"ended", "lost"}
  /\ drain'[l] \in {drain[l], "cancelled"}
  /\ phase[l] = "open" => drain'[l] \in {"done", "cancelled"}

\* A clean-up ends the sessions it is given and lets the other logins rest.
LEMMA CleanUpEnds ==
  ASSUME DeviceTypeOK, NEW S \in SUBSET Logins, CleanUp(S), NEW l \in Logins
  PROVE  /\ Rests(l) \/ Ends(l)
         /\ phase[l] = "open" /\ l \in S => Ends(l)
BY DEF CleanUp, DeviceTypeOK, Rests, Ends, Owned

\* Every step does one of these to every login.
LEMMA LoginMoves ==
  ASSUME DInv, [DeviceNext]_deviceVars, NEW l \in Logins
  PROVE  Rests(l) \/ Advances(l) \/ Ends(l)
<1>0. DeviceTypeOK
  BY DEF DInv
<1>1. CASE UNCHANGED <<phase, drain, aged>>
  BY <1>1 DEF Rests
<1>2. ASSUME NEW k \in Logins, Advance(k)
      PROVE  Rests(l) \/ Advances(l) \/ Ends(l)
  <2> USE <1>0 DEF DeviceTypeOK, Rests, Advances, Ends, Owned
  <2>1. CASE StartLogin(k) \/ Spawn(k) \/ SpawnRaises(k)
    BY <2>1 DEF StartLogin, Spawn, SpawnRaises
  <2>2. CASE GotCode(k) \/ NoCode(k) \/ KillRaises(k)
    BY <2>2 DEF GotCode, NoCode, KillRaises
  <2>3. CASE Agree(k) \/ ProcessExit(k)
    BY <2>3 DEF Agree, ProcessExit
  <2>4. CASE DrainEnds(k) \/ Age(k)
    BY <2>4 DEF DrainEnds, Age
  <2> QED
    BY <1>2, <2>1, <2>2, <2>3, <2>4 DEF Advance, StartEnds
<1>3. CASE Attend
  BY <1>0, <1>1, <1>3, AttendEffect, CleanUpEnds DEF loginVars
<1>4. ASSUME NEW f \in Finals, Finalizes(f)
      PROVE  Rests(l) \/ Ends(l)
  <2>1. CASE FinalizeRaises(f) \/ Complete(f)
    <3>1. CleanUp({of[f]}) /\ fin[f] # "idle"
      BY <2>1 DEF FinalizeRaises, Complete, Asking
    <3>2. {of[f]} \in SUBSET Logins
      BY <3>1 DEF DInv, RequestInv
    <3> QED
      BY <1>0, <3>1, <3>2, CleanUpEnds
  <2>2. CASE FinalizeBegin(f) \/ AskStatus(f) \/ Export(f) \/ Remake(f)
    BY <2>2 DEF FinalizeBegin, AskStatus, Export, Remake, loginVars, Rests
  <2>3. CASE Store(f) \/ StoreRaises(f) \/ RereadRaises(f)
    BY <2>3 DEF Store, StoreRaises, RereadRaises, loginVars, Rests
  <2> QED
    BY <1>4, <2>1, <2>2, <2>3 DEF Finalizes
<1>5. CASE Restart
  BY <1>0, <1>5 DEF Restart, DeviceTypeOK, Rests, Ends, Owned
<1> QED
  BY <1>1, <1>2, <1>3, <1>4, <1>5 DEF DeviceNext, Advance, Attend, deviceVars, loginVars

\* ENABLED of the fair actions is their guard, which is there by their definitions: the
\* start of a login can go on whatever dws has printed, a session can grow old, a round of
\* the loop has something to do when one has, and a poll can go on once the drain task is
\* over.
StepsEnabled ==
  /\ \A l \in Logins :
       /\ phase[l] \in {"starting", "reading"} => ENABLED <<StartEnds(l)>>_deviceVars
       /\ phase[l] = "open" /\ l \notin aged => ENABLED <<Age(l)>>_deviceVars
  /\ (\E l \in aged : phase[l] = "open") => ENABLED <<CleanUpExpired>>_deviceVars
  /\ \A p \in Polls :
       polled[p] # NoLogin /\ drain[polled[p]] \in {"done", "cancelled"} =>
         ENABLED <<PollEnds(p)>>_deviceVars

\* Every login comes to an end, whatever dws, its user and other requests do, for any
\* number of logins.
THEOREM EveryLoginEnds == DeviceFairSpec /\ []StepsEnabled => LoginsEnd
<1> SUFFICES ASSUME NEW l \in Logins
             PROVE  DeviceFairSpec /\ []StepsEnabled => LoginEnds(l)
  BY DEF LoginsEnd
<1> DEFINE At(p) == phase[l] = p
           Fresh == phase[l] = "open" /\ l \notin aged
           Old == phase[l] = "open" /\ l \in aged
           Gone == phase[l] \notin Owned
<1>1. phase[l] \in Owned => At("starting") \/ At("reading") \/ Fresh \/ Old
  BY DEF Owned
<1>2. DInv /\ [DeviceNext]_deviceVars =>
        /\ At("starting") => At("starting")' \/ At("reading")' \/ Gone'
        /\ At("reading") => At("reading")' \/ Fresh' \/ Old' \/ Gone'
        /\ Fresh => Fresh' \/ Old' \/ Gone'
        /\ Old => Old' \/ Gone'
  BY LoginMoves DEF Rests, Advances, Ends, Owned
<1>3. DInv /\ <<StartEnds(l)>>_deviceVars =>
        /\ At("starting") => ~(At("starting")')
        /\ At("reading") => ~(At("reading")')
  BY DEF DInv, DeviceTypeOK, StartEnds, Spawn, SpawnRaises, GotCode, NoCode, KillRaises
<1>4. DInv /\ <<Age(l)>>_deviceVars /\ Fresh => ~(Fresh')
  BY DEF Age
<1>5. DInv /\ <<CleanUpExpired>>_deviceVars /\ Old => ~(Old')
  BY DEF DInv, DeviceTypeOK, CleanUpExpired, CleanUp
<1>6. StepsEnabled =>
        /\ At("starting") => ENABLED <<StartEnds(l)>>_deviceVars
        /\ At("reading") => ENABLED <<StartEnds(l)>>_deviceVars
        /\ Fresh => ENABLED <<Age(l)>>_deviceVars
        /\ Old => ENABLED <<CleanUpExpired>>_deviceVars
  BY DEF StepsEnabled
<1>7. DeviceFairness => StartGoesOn(l) /\ TimePasses(l) /\ LoopGoesOn
  BY DEF DeviceFairness
<1> HIDE DEF At, Fresh, Old
<1> QED
  BY <1>1, <1>2, <1>3, <1>4, <1>5, <1>6, <1>7, DeviceInvariantHolds, PTL
     DEF DeviceFairSpec, DeviceSpec, StartGoesOn, TimePasses, LoopGoesOn, LoginEnds

-----------------------------------------------------------------------------
\* A drain task is created with the session and reads no longer than it lives, and what
\* a poll awaits has been created.
DrainInv ==
  /\ \A l \in Logins :
       /\ drain[l] = "reading" => phase[l] = "open"
       /\ phase[l] \in {"new", "starting", "reading"} => drain[l] = "none"
  /\ \A p \in Polls : polled[p] # NoLogin => drain[polled[p]] # "none"

\* A request that waits goes on waiting for the same login until it is resumed.
LEMMA PollMoves ==
  ASSUME DInv, [DeviceNext]_deviceVars, NEW p \in Polls
  PROVE  \/ polled'[p] = polled[p]
         \/ polled'[p] = NoLogin
         \/ /\ polled[p] = NoLogin /\ polled'[p] \in Logins
            /\ drain[polled'[p]] = "reading" /\ UNCHANGED drain
<1>0. polled \in [Polls -> Logins \cup {NoLogin}]
  BY DEF DInv, DeviceTypeOK
<1>1. CASE UNCHANGED polled
  BY <1>1
<1>2. ASSUME NEW k \in Logins, Advance(k) \/ PollNow(k)
      PROVE  UNCHANGED polled
  BY <1>2 DEF Advance, StartLogin, StartEnds, Spawn, SpawnRaises, GotCode, NoCode, KillRaises, Agree,
     ProcessExit, DrainEnds, Age, PollNow, pollVars
<1>3. ASSUME NEW q \in Polls, PollWaits(q)
      PROVE  \/ polled'[p] = polled[p]
             \/ /\ polled[p] = NoLogin /\ polled'[p] \in Logins
                /\ drain[polled'[p]] = "reading" /\ UNCHANGED drain
  <2>1. PICK l \in Logins : drain[l] = "reading" /\ polled' = [polled EXCEPT ![q] = l]
    BY <1>3 DEF PollWaits
  <2> QED
    BY <1>0, <1>3, <2>1 DEF PollWaits, loginVars
<1>4. ASSUME NEW q \in Polls, PollEnds(q)
      PROVE  polled'[p] = polled[p] \/ polled'[p] = NoLogin
  BY <1>0, <1>4 DEF PollEnds, PollResumes, PollCancelled
<1>5. CASE CleanUpExpired
  BY <1>5 DEF CleanUpExpired, pollVars
<1>6. ASSUME NEW f \in Finals, Finalizes(f)
      PROVE  UNCHANGED polled
  BY <1>6, FinalizeOthers DEF DInv, pollVars
<1>7. CASE Restart
  BY <1>7 DEF Restart
<1> QED
  BY <1>1, <1>2, <1>3, <1>4, <1>5, <1>6, <1>7 DEF DeviceNext, Advance, deviceVars, pollVars

\* DrainInv holds throughout.
LEMMA DrainsFollow == DeviceSpec => []DrainInv
<1>1. DeviceInit => DrainInv
  BY DEF DeviceInit, DrainInv
<1>2. DInv /\ DrainInv /\ [DeviceNext]_deviceVars => DrainInv'
  <2> SUFFICES ASSUME DInv, DrainInv, [DeviceNext]_deviceVars
               PROVE  DrainInv'
    OBVIOUS
  <2>1. ASSUME NEW l \in Logins
        PROVE  /\ drain'[l] = "reading" => phase'[l] = "open"
               /\ phase'[l] \in {"new", "starting", "reading"} => drain'[l] = "none"
               /\ drain[l] # "none" => drain'[l] # "none"
    BY LoginMoves DEF DrainInv, Rests, Advances, Ends, Owned
  <2>2. ASSUME NEW p \in Polls, polled'[p] # NoLogin
        PROVE  drain'[polled'[p]] # "none"
    <3>1. polled[p] # NoLogin => polled[p] \in Logins
      BY DEF DInv, DeviceTypeOK
    <3> QED
      BY <2>1, <2>2, <3>1, PollMoves DEF DrainInv
  <2> QED
    BY <2>1, <2>2 DEF DrainInv
<1> QED
  BY <1>1, <1>2, DeviceInvariantHolds, PTL DEF DeviceSpec

\* A poll that waits for a login's stderr is answered or cancelled: the drain task ends,
\* or the session does and takes the task with it.
LEMMA PollOfLoginEnds ==
  ASSUME NEW p \in Polls, NEW l \in Logins
  PROVE  DeviceFairSpec /\ []StepsEnabled => [](polled[p] = l => <>(polled[p] = NoLogin))
<1> DEFINE Waits == polled[p] = l
           Reads == polled[p] = l /\ drain[l] = "reading"
           Ready == polled[p] = l /\ drain[l] \in {"done", "cancelled"}
           Free == polled[p] = NoLogin
           There == phase[l] \in Owned
<1>1. DInv /\ DrainInv /\ Waits => Reads \/ Ready
  <2> SUFFICES ASSUME DInv, DrainInv, polled[p] = l
               PROVE  drain[l] \in {"reading", "done", "cancelled"}
    OBVIOUS
  <2>1. drain[l] \in {"none", "reading", "done", "cancelled"}
    BY DEF DInv, DeviceTypeOK
  <2>2. polled[p] # NoLogin
    BY NoLoginAssumption
  <2>3. drain[l] # "none"
    BY <2>2 DEF DrainInv
  <2> QED
    BY <2>1, <2>3
<1>2. DrainInv /\ Reads => There
  BY DEF DrainInv, Owned
<1>3. DInv /\ DrainInv /\ [DeviceNext]_deviceVars =>
        /\ Reads => Reads' \/ Ready' \/ Free'
        /\ Ready => Ready' \/ Free'
  <2> SUFFICES ASSUME DInv, DrainInv, [DeviceNext]_deviceVars, polled[p] = l
               PROVE  /\ Reads => Reads' \/ Ready' \/ Free'
                      /\ Ready => Ready' \/ Free'
    OBVIOUS
  <2>1. polled'[p] = l \/ polled'[p] = NoLogin
    BY PollMoves, NoLoginAssumption
  <2>2. /\ drain[l] = "reading" => drain'[l] \in {"reading", "done", "cancelled"}
        /\ drain[l] \in {"done", "cancelled"} => drain'[l] \in {"done", "cancelled"}
    BY LoginMoves DEF Rests, Advances, Ends, Owned, DrainInv
  <2> QED
    BY <2>1, <2>2
<1>4. DInv /\ <<PollEnds(p)>>_deviceVars /\ Ready => ~(Ready')
  <2> SUFFICES ASSUME DInv, PollEnds(p)
               PROVE  ~(Ready')
    OBVIOUS
  <2>1. DOMAIN polled = Polls
    BY DEF DInv, DeviceTypeOK
  <2>2. polled' = [polled EXCEPT ![p] = NoLogin]
    BY DEF PollEnds, PollResumes, PollCancelled
  <2> QED
    BY <2>1, <2>2, NoLoginAssumption
<1>5. StepsEnabled /\ Ready => ENABLED <<PollEnds(p)>>_deviceVars
  BY NoLoginAssumption DEF StepsEnabled
<1>6. DeviceFairness => PollGoesOn(p)
  BY DEF DeviceFairness
<1>7. LoginsEnd => LoginEnds(l)
  BY DEF LoginsEnd
<1>8. phase[l] \notin Owned => ~There
  OBVIOUS
<1> HIDE DEF Reads, Ready
<1> QED
  BY <1>1, <1>2, <1>3, <1>4, <1>5, <1>6, <1>7, <1>8, EveryLoginEnds, DeviceInvariantHolds,
     DrainsFollow, PTL
     DEF DeviceFairSpec, DeviceSpec, PollGoesOn, LoginEnds

\* No poll hangs, although dws may leave stderr open and nothing limits the wait, for any
\* number of polls and logins.
THEOREM EveryPollEnds == DeviceFairSpec /\ []StepsEnabled => PollsEnd
<1> SUFFICES ASSUME NEW p \in Polls
             PROVE  DeviceFairSpec /\ []StepsEnabled => (polled[p] # NoLogin ~> polled[p] = NoLogin)
  BY DEF PollsEnd
<1>1. DeviceFairSpec /\ []StepsEnabled =>
        [](\A l \in Logins : polled[p] = l => <>(polled[p] = NoLogin))
  <2>1. DeviceFairSpec /\ []StepsEnabled =>
          \A l \in Logins : [](polled[p] = l => <>(polled[p] = NoLogin))
    BY PollOfLoginEnds
  <2>2. (\A l \in Logins : [](polled[p] = l => <>(polled[p] = NoLogin))) =>
          [](\A l \in Logins : polled[p] = l => <>(polled[p] = NoLogin))
    OBVIOUS
  <2> QED
    BY <2>1, <2>2
<1>2. DInv /\ polled[p] # NoLogin => \E l \in Logins : polled[p] = l
  BY DEF DInv, DeviceTypeOK
<1>3. (\A l \in Logins : polled[p] = l => <>(polled[p] = NoLogin)) =>
        ((\E l \in Logins : polled[p] = l) => <>(polled[p] = NoLogin))
  OBVIOUS
<1> QED
  BY <1>1, <1>2, <1>3, DeviceInvariantHolds, PTL DEF DeviceFairSpec

=============================================================================
