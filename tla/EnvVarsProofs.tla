--------------------------- MODULE EnvVarsProofs ---------------------------
(***************************************************************************)
(* Proofs about the members and the environment variables of a project.    *)
(* The invariant has one part per user, UserInv and EditInv, and one for   *)
(* the table of variables, RowsInv.  A step of one user leaves the parts   *)
(* of the others as they are (OthersKeepUserInv), also when it changes the *)
(* roles: what the others' requests met only grows.                        *)
(***************************************************************************)
EXTENDS EnvVars, FiniteSetTheorems, TLAPS

-----------------------------------------------------------------------------
(* The inductive invariant.                                                *)

Asks(u, kind) == at[u] \in InHandler /\ req[u].kind = kind
Owned(u) == req[u].kind \in OwnerKinds

(* Some role that u had during the request lets it through, or refuses it. *)
Allowed(u) == \E r \in own[u] : r = "owner" \/ (~Owned(u) /\ r # "none")
Denied(u) == \E r \in own[u] : r = "none" \/ (Owned(u) /\ r # "owner")

WatchInv(u) ==
  /\ at[u] # "idle" => role[u] \in own[u] /\ role[req[u].of] \in met[u]
  /\ at[u] # "answered" => answer[u] = "none"

AdmissionInv(u) ==
  /\ at[u] = "stranger" => ~Owned(u)
  /\ u \notin Admins =>
       /\ at[u] \in {"admitted", "seen"} => Allowed(u)
       /\ answer[u] \in {"ok", "conflict", "absent"} => Allowed(u)
       /\ answer[u] = "refused" => Denied(u)

AnswerInv(u) == Owned(u) =>
  /\ answer[u] = "conflict" => \E r \in met[u] : r # "none"
  /\ answer[u] = "absent" => "none" \in met[u]
  /\ answer[u] = "ok" =>
       \/ req[u].kind = "add" /\ "member" \in met[u]
       \/ req[u].kind = "remove" /\ "none" \in met[u]
       \/ req[u].kind = "change" /\ (req[u].to \in met[u] \/ "none" \in met[u])

(* The page's rule, as long as the request it let through is under way.    *)
PageInv(u) ==
  /\ Asks(u, "change") /\ req[u].of = u => ~LastOwner(u)
  /\ Asks(u, "remove") => req[u].of # u

UserInv(u) == WatchInv(u) /\ AdmissionInv(u) /\ AnswerInv(u) /\ PageInv(u)

(* What the handlers of the variables go by: a row that was read keeps its *)
(* kind until it is deleted, and its number is not given again.            *)
EditInv(u) ==
  /\ Asks(u, "create") => edit[u].key \in Keys /\ edit[u].text \in Texts
  /\ Asks(u, "update") \/ Asks(u, "delete") => edit[u].id \in 1..made
  /\ at[u] = "seen" /\ req[u].kind = "update" /\ There(edit[u].id) =>
       current[u].secret = rows[edit[u].id].secret

RowsInv ==
  \A i \in Ids : There(i) =>
    /\ i <= made
    /\ rows[i].secret = rows[i].sealed
    /\ rows[i].key = saved[i].key
    /\ rows[i].text = saved[i].text
    /\ \A j \in Ids \ {i} : There(j) => rows[j].key # rows[i].key

IInv ==
  /\ EnvTypeOK
  /\ \A u \in Users : UserInv(u) /\ EditInv(u)
  /\ RowsInv
  /\ OwnerUnlessOutdated

MemberStep(u) ==
  \/ LoadMembers(u)
  \/ \E t \in Users : \/ AddMember(u, t) \/ RemoveMember(u, t)
                      \/ \E to \in {"member", "owner"} : ChangeMemberRole(u, t, to)
  \/ IsProjectOwner(u) \/ IsProjectMember(u)
  \/ GetProject(u) \/ ListMembers(u) \/ SelectMember(u)
  \/ Insert(u) \/ Delete(u) \/ Update(u) \/ Fails(u)
  \/ GotProject(u) \/ Reloads(u) \/ Rests(u)

EnvStep(u) ==
  \/ AskCreate(u) \/ AskUpdate(u) \/ AskDelete(u)
  \/ SelectKey(u) \/ InsertEnvVar(u)
  \/ SelectCurrent(u) \/ SelectDuplicate(u) \/ UpdateEnvVar(u)
  \/ SelectDeleted(u) \/ DeleteEnvVar(u)

-----------------------------------------------------------------------------
(* Types.                                                                  *)

(* A step of the members keeps the types of the members' variables.            *)
LEMMA MemberActionsKeepTypes ==
  ASSUME EnvTypeOK, NEW u \in Users, MemberStep(u)
  PROVE  RoleTypes'
<1> USE DEF EnvTypeOK, RoleTypes, Roles, InHandler, OwnerKinds, PageKinds, EnvKinds
<1>1. CASE LoadMembers(u)
  BY <1>1 DEF LoadMembers, Send
<1>2. ASSUME NEW t \in Users, NEW kind \in OwnerKinds, NEW to \in Roles, SendWrite(u, kind, t, to)
      PROVE  RoleTypes'
  <2>1. writes' \in 0..MaxWrites
    BY <1>2, MaxWritesAssumption DEF SendWrite
  <2>2. Send(u, kind, t, to) /\ UNCHANGED <<role, manages, listed, outdated>>
    BY <1>2 DEF SendWrite
  <2>3. /\ at' \in [Users -> InHandler \cup {"idle", "answered"}]
        /\ answer' \in [Users -> {"none", "ok", "refused", "conflict", "absent", "failed"}]
    BY <2>2 DEF Send
  <2>4. req' \in [Users -> [kind : OwnerKinds \cup PageKinds \cup EnvKinds \cup {"none"},
                           of : Users, to : Roles]]
    BY <1>2, <2>2 DEF Send
  <2>5. own' \in [Users -> SUBSET Roles] /\ met' \in [Users -> SUBSET Roles]
    BY <1>2, <2>2 DEF Send
  <2> QED BY <2>1, <2>2, <2>3, <2>4, <2>5
<1>3. CASE \E t \in Users : \/ AddMember(u, t) \/ RemoveMember(u, t)
                            \/ \E to \in {"member", "owner"} : ChangeMemberRole(u, t, to)
  <2>1. PICK t \in Users, kind \in OwnerKinds, to \in Roles : SendWrite(u, kind, t, to)
    BY <1>3 DEF AddMember, RemoveMember, ChangeMemberRole
  <2> QED BY <1>2, <2>1
<1>4. CASE IsProjectOwner(u) \/ IsProjectMember(u)
  <2>1. UNCHANGED <<role, req, manages, listed, writes, own, met, outdated>>
    BY <1>4 DEF IsProjectOwner, IsProjectMember
  <2>2. Goes(u, "admitted") \/ Goes(u, "stranger") \/ Reply(u, "refused")
    BY <1>4, Zenon DEF IsProjectOwner, IsProjectMember
  <2>3. CASE Goes(u, "admitted") \/ Goes(u, "stranger")
    BY <2>1, <2>3 DEF Goes
  <2>4. CASE Reply(u, "refused")
    BY <2>1, <2>4 DEF Reply
  <2> QED BY <2>2, <2>3, <2>4
<1>6. CASE GetProject(u)
  BY <1>6 DEF GetProject, Reply
<1>7. CASE ListMembers(u)
  BY <1>7 DEF ListMembers, Reply
<1>8. CASE SelectMember(u)
  <2>1. UNCHANGED <<role, req, manages, listed, writes, own, met, outdated>>
    BY <1>8 DEF SelectMember
  <2>2. Goes(u, "seen") \/ Reply(u, "conflict") \/ Reply(u, "absent")
    BY <1>8 DEF SelectMember
  <2>3. CASE Goes(u, "seen")
    BY <2>1, <2>3 DEF Goes
  <2>4. CASE Reply(u, "conflict") \/ Reply(u, "absent")
    BY <2>1, <2>4 DEF Reply
  <2> QED BY <2>2, <2>3, <2>4
<1>9. CASE Insert(u) \/ Delete(u) \/ Update(u)
  <2>1. role' \in [Users -> Roles]
    <3>1. role \in [Users -> Roles] /\ req[u].of \in Users /\ req[u].to \in Roles
      OBVIOUS
    <3>2. PICK to \in Roles : role' = [role EXCEPT ![req[u].of] = to] \/ role' = role
      BY <1>9, <3>1 DEF Insert, Delete, Update, Removed
    <3> QED BY ONLY <3>1, <3>2
  <2>2. /\ at' \in [Users -> InHandler \cup {"idle", "answered"}]
        /\ answer' \in [Users -> {"none", "ok", "refused", "conflict", "absent", "failed"}]
    BY <1>9 DEF Insert, Delete, Update, Reply
  <2>3. Remember(u)
    BY <1>9 DEF Insert, Delete, Update
  <2>4. /\ own' \in [Users -> SUBSET Roles] /\ met' \in [Users -> SUBSET Roles]
        /\ UNCHANGED <<req, manages, listed, writes>>
    BY <2>1, <2>3 DEF Remember
  <2>5. outdated' \in BOOLEAN
    BY <2>3, Zenon DEF Remember
  <2> QED BY <2>1, <2>2, <2>4, <2>5
<1>10. CASE Fails(u)
  BY <1>10 DEF Fails, Reply
<1>11. CASE GotProject(u)
  BY <1>11 DEF GotProject, Send
<1>12. CASE Reloads(u)
  BY <1>12 DEF Reloads, Send
<1>13. CASE Rests(u)
  BY <1>13 DEF Rests, NoRequest, NoMembers
<1> QED BY <1>1, <1>2, <1>3, <1>4, <1>6, <1>7, <1>8, <1>9, <1>10, <1>11, <1>12, <1>13
   DEF MemberStep

(* The three shapes of a step of the variables: it sends a request, goes   *)
(* on with the one in the handler, or answers it.                          *)

Bodies == [key : Keys \cup {"kept", "null"}, text : Texts \cup {"kept"},
           secret : BOOLEAN, id : 0..made]
Readings == [key : Keys \cup {"none"}, secret : BOOLEAN, checked : BOOLEAN]
Answers == {"none", "ok", "refused", "conflict", "absent", "failed"}

AskShape(u) ==
  \E kind \in EnvKinds, body \in Bodies :
    /\ AskEnv(u, kind, body)
    /\ kind = "create" => body.key \in Keys /\ body.text \in Texts
    /\ kind # "create" => body.id \in Existing

HandlerShape(u) ==
  /\ at[u] \in {"admitted", "seen"}
  /\ req[u].kind \in EnvKinds
  /\ UNCHANGED <<role, req, manages, listed, writes, own, met, outdated>>

GoShape(u) == HandlerShape(u) /\ \E read \in Readings : GoesOn(u, read)

EndShape(u) == HandlerShape(u) /\ \E what \in Answers \ {"none", "refused"} : Ends(u, what)

(* Variables are numbered in the order in which they are made.             *)
LEMMA NumbersInUse ==
  ASSUME EnvTypeOK, RowsInv
  PROVE  made \in Nat /\ Existing \subseteq 1..made /\ 1..made \subseteq Ids
BY MaxWritesAssumption DEF EnvTypeOK, RowsInv, Existing, Ids

(* A step of an environment handler sends, goes on or ends a request.      *)
LEMMA EnvStepShapes ==
  ASSUME EnvTypeOK, RowsInv, NEW u \in Users, EditInv(u), EnvStep(u)
  PROVE  \/ AskShape(u)
         \/ GoShape(u)
         \/ EndShape(u)
<1> USE DEF EnvTypeOK
<1>1. CASE AskCreate(u)
  BY <1>1, NumbersInUse DEF AskCreate, AskShape, Bodies, EnvKinds
<1>2. CASE AskUpdate(u)
  <2>1. PICK i \in Existing, k \in Keys \cup {"kept", "null"}, t \in Texts \cup {"kept"} :
          AskEnv(u, "update", [key |-> k, text |-> t, secret |-> FALSE, id |-> i])
    BY <1>2 DEF AskUpdate
  <2>2. i \in 0..made
    BY NumbersInUse
  <2>3. [key |-> k, text |-> t, secret |-> FALSE, id |-> i] \in Bodies
    BY <2>2 DEF Bodies
  <2> QED BY <2>1, <2>3 DEF AskShape, EnvKinds
<1>3. CASE AskDelete(u)
  <2>1. PICK i \in Existing : AskEnv(u, "delete", [NoEdit EXCEPT !.id = i])
    BY <1>3 DEF AskDelete
  <2>2. i \in 0..made
    BY NumbersInUse
  <2>3. [NoEdit EXCEPT !.id = i] \in Bodies /\ [NoEdit EXCEPT !.id = i].id = i
    BY <2>2 DEF Bodies, NoEdit
  <2> QED BY <2>1, <2>3 DEF AskShape, EnvKinds
<1>4. CASE SelectKey(u)
  BY <1>4 DEF SelectKey, Handles, HandlerShape, GoShape, EndShape, EndsUndone, EnvKinds,
              Answers, Readings, NotRead
<1>5. CASE InsertEnvVar(u)
  BY <1>5 DEF InsertEnvVar, Handles, HandlerShape, EndShape, EndsUndone, EnvKinds, Answers
<1>6. CASE SelectCurrent(u)
  <2>1. edit[u].id \in Ids
    BY <1>6, NumbersInUse DEF EditInv, SelectCurrent, Handles, Asks, InHandler
  <2>2. rows[edit[u].id] \in Rows
    BY <2>1
  <2> DEFINE read == [key |-> rows[edit[u].id].key, secret |-> rows[edit[u].id].secret,
                      checked |-> edit[u].key \in {"kept", "null", rows[edit[u].id].key}]
  <2>3. read \in Readings
    BY <2>2 DEF Readings, Rows
  <2>4. GoesOn(u, read) \/ EndsUndone(u, "absent")
    BY <1>6 DEF SelectCurrent
  <2>5. HandlerShape(u)
    BY <1>6 DEF SelectCurrent, Handles, HandlerShape, EnvKinds
  <2> HIDE DEF read
  <2> QED
    BY <2>3, <2>4, <2>5 DEF GoShape, EndShape, EndsUndone, Answers
<1>7. CASE SelectDuplicate(u)
  <2>1. HandlerShape(u)
    BY <1>7 DEF SelectDuplicate, Handles, HandlerShape, EnvKinds
  <2>2. [current[u] EXCEPT !.checked = TRUE] \in Readings
    <3>1. current[u] \in Readings
      BY Zenon DEF Readings
    <3> QED BY ONLY <3>1 DEF Readings
  <2>3. GoesOn(u, [current[u] EXCEPT !.checked = TRUE]) \/ EndsUndone(u, "conflict")
    BY <1>7 DEF SelectDuplicate
  <2>4. CASE GoesOn(u, [current[u] EXCEPT !.checked = TRUE])
    BY <2>1, <2>2, <2>4, Zenon DEF GoShape
  <2>5. CASE EndsUndone(u, "conflict")
    BY <2>1, <2>5, Zenon DEF EndShape, EndsUndone, Answers
  <2> QED
    BY <2>3, <2>4, <2>5
<1>8. CASE UpdateEnvVar(u)
  BY <1>8 DEF UpdateEnvVar, Handles, HandlerShape, EndShape, EnvKinds, Answers
<1>9. CASE SelectDeleted(u)
  BY <1>9 DEF SelectDeleted, Handles, HandlerShape, GoShape, EndShape, EndsUndone, EnvKinds,
              Answers, Readings, NotRead
<1>10. CASE DeleteEnvVar(u)
  BY <1>10 DEF DeleteEnvVar, Handles, HandlerShape, EndShape, EnvKinds, Answers
<1> QED BY <1>1, <1>2, <1>3, <1>4, <1>5, <1>6, <1>7, <1>8, <1>9, <1>10 DEF EnvStep

(* What the steps of the variables do to the table of the variables.       *)
LEMMA RowTypes ==
  ASSUME EnvTypeOK, RowsInv, NEW u \in Users, EditInv(u), EnvStep(u)
  PROVE  /\ rows' \in [Ids -> Rows]
         /\ saved' \in [Ids -> [key : Keys \cup {"none"}, text : Texts]]
         /\ made' \in made..MaxWrites
<1> USE DEF EnvTypeOK, Rows
<1>0. made \in 0..MaxWrites /\ made \in made..MaxWrites
  BY MaxWritesAssumption
<1>1. CASE UNCHANGED <<rows, made, saved>>
  BY <1>0, <1>1
<1>2. CASE InsertEnvVar(u) /\ ~Taken(edit[u].key)
  <2>1. made' = made + 1 /\ made' \in Ids /\ made' \in made..MaxWrites
    BY <1>2, <1>0, MaxWritesAssumption DEF InsertEnvVar, Ids
  <2>2. edit[u].key \in Keys /\ edit[u].text \in Texts
    BY <1>2 DEF EditInv, InsertEnvVar, Handles, Asks, InHandler
  <2>3. /\ Written(edit[u]) \in Rows
        /\ [key |-> edit[u].key, text |-> edit[u].text]
             \in [key : Keys \cup {"none"}, text : Texts]
    BY <2>2 DEF Written
  <2>4. /\ rows' = [rows EXCEPT ![made'] = Written(edit[u])]
        /\ saved' = [saved EXCEPT ![made'] = [key |-> edit[u].key, text |-> edit[u].text]]
    BY <1>2 DEF InsertEnvVar
  <2> HIDE DEF Rows
  <2> QED BY <2>1, <2>3, <2>4
<1>3. CASE UpdateEnvVar(u) /\ There(edit[u].id) /\ ~Refused(u, rows[edit[u].id])
  <2> DEFINE i == edit[u].id
  <2>1. i \in Ids
    BY <1>3, NumbersInUse DEF EditInv, UpdateEnvVar, Handles, Asks, InHandler
  <2>2. ~LeavesKey(u) => edit[u].key \in Keys
    BY <1>3, <2>1, KeysAssumption DEF Refused, LeavesKey, There
  <2>3. ~LeavesText(u) => edit[u].text \in Texts
    BY DEF LeavesText
  <2>4. Updated(u, rows[i]) \in Rows
    <3>1. rows[i] \in [key : Keys \cup {"none"}, text : Texts, secret : BOOLEAN, sealed : BOOLEAN]
      BY <2>1
    <3>2. current[u].secret \in BOOLEAN
      OBVIOUS
    <3> QED BY ONLY <3>1, <3>2, <2>2, <2>3 DEF Updated, Rows
  <2>5. Saves(u, saved[i]) \in [key : Keys \cup {"none"}, text : Texts]
    <3>1. saved[i] \in [key : Keys \cup {"none"}, text : Texts]
      BY <2>1
    <3> QED BY ONLY <3>1, <2>2, <2>3 DEF Saves
  <2>6. /\ rows' = [rows EXCEPT ![i] = Updated(u, rows[i])]
        /\ saved' = [saved EXCEPT ![i] = Saves(u, saved[i])]
        /\ made' = made
    BY <1>3, <2>1 DEF UpdateEnvVar
  <2> HIDE DEF i, Rows
  <2> QED BY <1>0, <2>1, <2>4, <2>5, <2>6
<1>4. CASE DeleteEnvVar(u)
  <2>1. NoRow \in Rows /\ NotSaved \in [key : Keys \cup {"none"}, text : Texts]
    BY TextsAssumption DEF NoRow, NotSaved
  <2> HIDE DEF Rows
  <2> QED BY <1>0, <1>4, <2>1 DEF DeleteEnvVar
<1>5. CASE AskCreate(u) \/ AskUpdate(u) \/ AskDelete(u)
  BY <1>1, <1>5 DEF AskCreate, AskUpdate, AskDelete, AskEnv
<1>6. CASE SelectKey(u) \/ SelectCurrent(u) \/ SelectDuplicate(u) \/ SelectDeleted(u)
  BY <1>1, <1>6 DEF SelectKey, SelectCurrent, SelectDuplicate, SelectDeleted, GoesOn, EndsUndone
<1> QED BY <1>1, <1>2, <1>3, <1>4, <1>5, <1>6 DEF EnvStep, InsertEnvVar, UpdateEnvVar, EndsUndone

(* The environment handlers keep the types.                                *)
LEMMA EnvActionsKeepTypes ==
  ASSUME EnvTypeOK, RowsInv, NEW u \in Users, EditInv(u), EnvStep(u)
  PROVE  EnvTypeOK'
<1>1. CASE AskShape(u)
  <2>1. PICK kind \in EnvKinds, body \in Bodies : AskEnv(u, kind, body)
    BY <1>1 DEF AskShape
  <2>2. RoleTypes'
    BY <2>1, MaxWritesAssumption
       DEF EnvTypeOK, RoleTypes, Roles, InHandler, EnvKinds, AskEnv, SendWrite, Send
  <2>3. edit' \in [Users -> Bodies] /\ current' = current /\ made' = made
    BY <2>1 DEF EnvTypeOK, AskEnv, Bodies
  <2> QED BY <2>2, <2>3, RowTypes DEF EnvTypeOK, Bodies
<1>2. CASE GoShape(u)
  <2>1. RoleTypes' /\ edit' = edit /\ made' = made
    BY <1>2 DEF EnvTypeOK, RoleTypes, InHandler, GoShape, HandlerShape, GoesOn, Goes
  <2>2. current' \in [Users -> Readings]
    BY <1>2 DEF EnvTypeOK, GoShape, GoesOn, Readings
  <2> QED BY <2>1, <2>2, RowTypes DEF EnvTypeOK, Readings
<1>3. CASE EndShape(u)
  <2>1. RoleTypes'
    BY <1>3 DEF EnvTypeOK, RoleTypes, Answers, EndShape, HandlerShape, Ends, Reply
  <2>2. /\ edit' = [edit EXCEPT ![u] = NoEdit] /\ NoEdit \in Bodies
        /\ current' = [current EXCEPT ![u] = NotRead] /\ NotRead \in Readings
    BY <1>3 DEF EnvTypeOK, EndShape, Ends, Bodies, Readings, NoEdit, NotRead
  <2>3. edit' \in [Users -> Bodies] /\ current' \in [Users -> Readings]
    BY <2>2 DEF EnvTypeOK, Bodies, Readings
  <2>4. made \in Nat /\ made' \in Nat /\ made <= made' /\ Bodies \subseteq Bodies'
    BY RowTypes, MaxWritesAssumption DEF EnvTypeOK, Bodies
  <2> QED BY <2>1, <2>3, <2>4, RowTypes, MaxWritesAssumption DEF EnvTypeOK, Bodies, Readings
<1> QED BY <1>1, <1>2, <1>3, EnvStepShapes

(* The members' steps keep the types of both halves.                       *)
LEMMA BesideKeepsTypes ==
  ASSUME EnvTypeOK, NEW u \in Users, MemberStep(u), Beside
  PROVE  EnvTypeOK'
<1>1. RoleTypes'
  BY MemberActionsKeepTypes
<1>2. UNCHANGED <<rows, made, saved>>
  BY DEF Beside
<1>3. NoEdit \in Bodies /\ NotRead \in Readings
  BY MaxWritesAssumption DEF EnvTypeOK, Bodies, Readings, NoEdit, NotRead
<1>4. edit' \in [Users -> Bodies] /\ current' \in [Users -> Readings]
  BY <1>3 DEF EnvTypeOK, Beside, Bodies, Readings
<1> QED BY <1>1, <1>2, <1>4 DEF EnvTypeOK, Bodies, Readings

-----------------------------------------------------------------------------
(* The requests of the members' pages.                                     *)

(* A step of another user, seen from v: nothing of v's request changes,    *)
(* but what it meets may grow.                                             *)
Keeps(v) ==
  /\ at'[v] = at[v] /\ req'[v] = req[v] /\ answer'[v] = answer[v] /\ listed'[v] = listed[v]
  /\ at[v] # "idle" => /\ own'[v] = own[v] \cup {role'[v]}
                       /\ met'[v] = met[v] \cup {role'[req[v].of]}

(* What is said of a user's request survives a step that Keeps it.         *)
LEMMA OthersKeepUserInv ==
  ASSUME EnvTypeOK, NEW v \in Users, UserInv(v), Keeps(v)
  PROVE  UserInv(v)'
<1> USE DEF UserInv, Keeps
<1>1. WatchInv(v)'
  BY DEF WatchInv
<1>2. answer[v] # "none" => at[v] = "answered"
  BY DEF WatchInv
<1>3. AdmissionInv(v)'
  BY <1>2 DEF AdmissionInv, Allowed, Denied, Owned
<1>4. AnswerInv(v)'
  BY <1>2 DEF AnswerInv, Owned
<1>5. LastOwner(v)' <=> LastOwner(v)
  BY DEF LastOwner, Owners
<1>6. PageInv(v)'
  BY <1>5 DEF PageInv, Asks
<1> QED BY <1>1, <1>3, <1>4, <1>6

(* A step that changes no role and only u's own request.                   *)
LEMMA QuietStepsKeep ==
  ASSUME EnvTypeOK, NEW u \in Users, NEW v \in Users \ {u}, WatchInv(v), role' = role,
         at'[v] = at[v], req'[v] = req[v], answer'[v] = answer[v], listed'[v] = listed[v],
         own'[v] = own[v], met'[v] = met[v]
  PROVE  Keeps(v)
BY DEF Keeps, WatchInv

(* A members' step of one user keeps the requests of the others.           *)
LEMMA MemberStepsKeepOthers ==
  ASSUME EnvTypeOK, NEW u \in Users, NEW v \in Users \ {u}, WatchInv(v), MemberStep(u)
  PROVE  Keeps(v)
<1> USE DEF EnvTypeOK, RoleTypes
<1>1. CASE Insert(u) \/ Delete(u) \/ Update(u)
  <2>1. Remember(u)
    BY <1>1 DEF Insert, Delete, Update
  <2>2. at'[v] = at[v] /\ answer'[v] = answer[v]
    BY <1>1 DEF Insert, Delete, Update, Reply
  <2> QED BY <2>1, <2>2 DEF Keeps, Remember
<1>2. CASE \/ IsProjectOwner(u) \/ IsProjectMember(u) \/ GetProject(u) \/ SelectMember(u)
           \/ Fails(u) \/ ListMembers(u)
  BY <1>2, QuietStepsKeep
     DEF IsProjectOwner, IsProjectMember, GetProject, ListMembers, SelectMember, Fails, Goes, Reply
<1>3. CASE LoadMembers(u) \/ GotProject(u) \/ Reloads(u)
  BY <1>3, QuietStepsKeep DEF LoadMembers, GotProject, Reloads, Send
<1>4. CASE \E t \in Users : \/ AddMember(u, t) \/ RemoveMember(u, t)
                            \/ \E to \in {"member", "owner"} : ChangeMemberRole(u, t, to)
  <2>1. PICK kind, of, to : SendWrite(u, kind, of, to)
    BY <1>4 DEF AddMember, RemoveMember, ChangeMemberRole
  <2> QED BY <2>1, QuietStepsKeep DEF SendWrite, Send
<1>5. CASE Rests(u)
  <2>1. listed'[v] = listed[v]
    BY <1>5 DEF Rests
  <2> QED BY <1>5, <2>1, QuietStepsKeep DEF Rests
<1> QED BY <1>1, <1>2, <1>3, <1>4, <1>5 DEF MemberStep

(* So does a step of an environment handler.                               *)
LEMMA EnvStepsKeepOthers ==
  ASSUME EnvTypeOK, RowsInv, NEW u \in Users, EditInv(u), EnvStep(u),
         NEW v \in Users \ {u}, WatchInv(v)
  PROVE  Keeps(v)
<1> USE DEF EnvTypeOK, RoleTypes
<1>1. CASE AskShape(u)
  BY <1>1, QuietStepsKeep DEF AskShape, AskEnv, SendWrite, Send
<1>2. CASE GoShape(u)
  BY <1>2, QuietStepsKeep DEF GoShape, HandlerShape, GoesOn, Goes
<1>3. CASE EndShape(u)
  BY <1>3, QuietStepsKeep DEF EndShape, HandlerShape, Ends, Reply
<1> QED BY <1>1, <1>2, <1>3, EnvStepShapes

(* Sending a request starts its histories.                                 *)
LEMMA SendingKeepsUserInv ==
  ASSUME EnvTypeOK, NEW u \in Users, NEW kind, NEW of \in Users, NEW to,
         Send(u, kind, of, to), role' = role, listed' = listed,
         kind = "change" /\ of = u => ~LastOwner(u),
         kind = "remove" => of # u
  PROVE  UserInv(u)'
<1> USE DEF EnvTypeOK, RoleTypes
<1>1. /\ at'[u] = "asked" /\ answer'[u] = "none" /\ own'[u] = {role[u]} /\ met'[u] = {role[of]}
      /\ req'[u].kind = kind /\ req'[u].of = of
  BY DEF Send
<1>2. LastOwner(u)' <=> LastOwner(u)
  BY DEF LastOwner, Owners
<1> QED BY <1>1, <1>2 DEF UserInv, WatchInv, AdmissionInv, AnswerInv, PageInv, Asks

(* A step of the handler or of an access check that changes no role.       *)
LEMMA HandlingKeepsUserInv ==
  ASSUME EnvTypeOK, NEW u \in Users, UserInv(u), at[u] \in InHandler,
         role' = role, req' = req, own' = own, met' = met,
         at'[u] \in InHandler \cup {"answered"},
         at'[u] \in InHandler => answer'[u] = answer[u] /\ listed' = listed,
         AdmissionInv(u)', AnswerInv(u)'
  PROVE  UserInv(u)'
<1> USE DEF EnvTypeOK, RoleTypes, InHandler
<1>1. WatchInv(u)'
  BY DEF UserInv, WatchInv
<1>2. CASE at'[u] = "answered"
  BY <1>1, <1>2 DEF UserInv, PageInv, Asks
<1>3. CASE at'[u] \in InHandler
  <2>0. listed' = listed
    BY <1>3
  <2>1. LastOwner(u)' <=> LastOwner(u)
    BY ONLY <2>0 DEF LastOwner, Owners
  <2> QED BY <1>1, <1>3, <2>1 DEF UserInv, PageInv, Asks
<1> QED BY <1>2, <1>3

(* A members' step keeps what is said of the request that takes it.        *)
LEMMA MemberStepKeepsUserInv ==
  ASSUME EnvTypeOK, NEW u \in Users, UserInv(u), MemberStep(u)
  PROVE  UserInv(u)'
<1> USE DEF EnvTypeOK, RoleTypes
<1>0. /\ at[u] # "idle" => role[u] \in own[u] /\ role[req[u].of] \in met[u]
      /\ at[u] # "answered" => answer[u] = "none"
  BY DEF UserInv, WatchInv
<1>1. CASE LoadMembers(u) \/ GotProject(u) \/ Reloads(u)
  <2>1. PICK kind \in PageKinds : Send(u, kind, u, "none") /\ role' = role /\ listed' = listed
    BY <1>1 DEF LoadMembers, GotProject, Reloads, PageKinds
  <2> QED BY <2>1, SendingKeepsUserInv DEF PageKinds
<1>2. CASE \E t \in Users : \/ AddMember(u, t) \/ RemoveMember(u, t)
                            \/ \E to \in {"member", "owner"} : ChangeMemberRole(u, t, to)
  <2>1. PICK t \in Users, to \in {"member", "owner"} :
          AddMember(u, t) \/ RemoveMember(u, t) \/ ChangeMemberRole(u, t, to)
    BY <1>2
  <2>2. CASE AddMember(u, t)
    BY <2>2, SendingKeepsUserInv DEF AddMember, SendWrite
  <2>3. CASE RemoveMember(u, t)
    BY <2>3, SendingKeepsUserInv DEF RemoveMember, SendWrite
  <2>4. CASE ChangeMemberRole(u, t, to)
    BY <2>4, SendingKeepsUserInv DEF ChangeMemberRole, SendWrite
  <2> QED BY <2>1, <2>2, <2>3, <2>4
<1>3. CASE IsProjectOwner(u)
  <2> USE <1>3 DEF IsProjectOwner, Goes, Reply
  <2>1. AdmissionInv(u)'
    BY <1>0 DEF AdmissionInv, Allowed, Denied, Owned
  <2>2. AnswerInv(u)'
    BY <1>0 DEF AnswerInv
  <2>3. /\ at[u] \in InHandler /\ at'[u] \in InHandler \cup {"answered"}
        /\ at'[u] \in InHandler => answer'[u] = answer[u] /\ listed' = listed
    BY DEF InHandler
  <2> QED BY <2>1, <2>2, <2>3, HandlingKeepsUserInv
<1>4. CASE IsProjectMember(u)
  <2> USE <1>4 DEF IsProjectMember, Goes, Reply
  <2>1. ~Owned(u)
    BY DEF UserInv, AdmissionInv
  <2>2. AdmissionInv(u)'
    BY <1>0, <2>1 DEF AdmissionInv, Allowed, Denied, Owned, HasRow
  <2>3. AnswerInv(u)'
    BY <1>0, <2>1 DEF AnswerInv, Owned
  <2>4. /\ at[u] \in InHandler /\ at'[u] \in InHandler \cup {"answered"}
        /\ at'[u] \in InHandler => answer'[u] = answer[u] /\ listed' = listed
    BY DEF InHandler
  <2> QED BY <2>2, <2>3, <2>4, HandlingKeepsUserInv
<1>5. CASE GetProject(u) \/ ListMembers(u)
  <2> USE <1>5 DEF GetProject, ListMembers, Reply
  <2>1. AdmissionInv(u)'
    BY DEF UserInv, AdmissionInv, Allowed, Owned
  <2>2. AnswerInv(u)'
    BY DEF AnswerInv, Owned, OwnerKinds
  <2>3. at[u] \in InHandler /\ at'[u] = "answered"
    BY DEF InHandler
  <2> QED BY <2>1, <2>2, <2>3, HandlingKeepsUserInv DEF InHandler
<1>6. CASE SelectMember(u)
  <2> USE <1>6 DEF SelectMember, Goes, Reply
  <2>1. AdmissionInv(u)'
    BY <1>0 DEF UserInv, AdmissionInv, Allowed, Owned
  <2>2. AnswerInv(u)'
    BY <1>0 DEF AnswerInv, Owned, OwnerKinds
  <2>3. /\ at[u] \in InHandler /\ at'[u] \in InHandler \cup {"answered"}
        /\ at'[u] \in InHandler => answer'[u] = answer[u] /\ listed' = listed
    BY DEF InHandler
  <2> QED BY <2>1, <2>2, <2>3, HandlingKeepsUserInv
<1>7. CASE Insert(u) \/ Delete(u) \/ Update(u)
  <2>1. Remember(u) /\ at[u] = "seen" /\ Owned(u)
    BY <1>7 DEF Insert, Delete, Update, Writes, Owned, OwnerKinds
  <2>2. /\ own'[u] = own[u] \cup {role'[u]} /\ met'[u] = met[u] \cup {role'[req[u].of]}
        /\ req' = req
    BY <2>1 DEF Remember
  <2>3. at'[u] = "answered" /\ answer'[u] \in {"ok", "failed"}
    BY <1>7 DEF Insert, Delete, Update, Reply
  <2>4. WatchInv(u)'
    BY <2>2, <2>3 DEF WatchInv
  <2>5. AdmissionInv(u)'
    BY <2>1, <2>2, <2>3 DEF UserInv, AdmissionInv, Allowed, Owned
  <2>6. AnswerInv(u)'
    <3>1. req[u].of \in Users /\ role[req[u].of] \in Roles
      OBVIOUS
    <3>2. answer'[u] = "ok" =>
            \/ req[u].kind = "add" /\ role'[req[u].of] = "member"
            \/ req[u].kind = "remove" /\ role'[req[u].of] = "none"
            \/ req[u].kind = "change" /\ role'[req[u].of] \in {req[u].to, "none"}
      BY <1>7, <3>1 DEF Insert, Delete, Update, Writes, Removed, Reply
    <3> QED BY <2>2, <2>3, <3>2 DEF AnswerInv, Owned
  <2>7. PageInv(u)'
    BY <2>3 DEF PageInv, Asks, InHandler
  <2> QED BY <2>4, <2>5, <2>6, <2>7 DEF UserInv
<1>8. CASE Fails(u)
  <2> USE <1>8 DEF Fails, Reply
  <2>1. AdmissionInv(u)' /\ AnswerInv(u)'
    BY DEF UserInv, AdmissionInv, AnswerInv
  <2> QED BY <2>1, HandlingKeepsUserInv DEF InHandler
<1>9. CASE Rests(u)
  BY <1>9 DEF Rests, UserInv, WatchInv, AdmissionInv, AnswerInv, PageInv, Asks, InHandler
<1> QED BY <1>1, <1>2, <1>3, <1>4, <1>5, <1>6, <1>7, <1>8, <1>9 DEF MemberStep

(* So does a step of an environment handler.                               *)
LEMMA EnvStepKeepsUserInv ==
  ASSUME EnvTypeOK, RowsInv, NEW u \in Users, UserInv(u), EditInv(u), EnvStep(u)
  PROVE  UserInv(u)'
<1> USE DEF EnvTypeOK, RoleTypes
<1>1. CASE AskShape(u)
  BY <1>1, SendingKeepsUserInv DEF AskShape, AskEnv, SendWrite, EnvKinds
<1>2. CASE GoShape(u) \/ EndShape(u)
  <2>1. HandlerShape(u) /\ ~Owned(u)
    BY <1>2 DEF GoShape, EndShape, HandlerShape, Owned, OwnerKinds, EnvKinds
  <2>2. /\ at'[u] \in {"seen", "answered"}
        /\ at'[u] = "seen" => answer'[u] = answer[u]
        /\ answer'[u] \in (Answers \ {"none", "refused"}) \cup {answer[u]}
    BY <1>2 DEF GoShape, EndShape, GoesOn, Ends, Goes, Reply
  <2>3. AdmissionInv(u)'
    BY <2>1, <2>2 DEF UserInv, AdmissionInv, Allowed, Denied, Owned, HandlerShape, Answers
  <2>4. AnswerInv(u)'
    BY <2>1 DEF AnswerInv, Owned, HandlerShape
  <2> QED BY <2>1, <2>2, <2>3, <2>4, HandlingKeepsUserInv DEF HandlerShape, InHandler
<1> QED BY <1>1, <1>2, EnvStepShapes

-----------------------------------------------------------------------------
(* The table of the variables.                                             *)

(* The three writes to the table.                                          *)
Inserted(u) ==
  /\ InsertEnvVar(u) /\ ~Taken(edit[u].key)
  /\ made' = made + 1
  /\ rows' = [rows EXCEPT ![made + 1] = Written(edit[u])]
  /\ saved' = [saved EXCEPT ![made + 1] = [key |-> edit[u].key, text |-> edit[u].text]]

Overwritten(u) ==
  /\ UpdateEnvVar(u) /\ There(edit[u].id) /\ ~Refused(u, rows[edit[u].id])
  /\ made' = made
  /\ rows' = [rows EXCEPT ![edit[u].id] = Updated(u, rows[edit[u].id])]
  /\ saved' = [saved EXCEPT ![edit[u].id] = Saves(u, saved[edit[u].id])]

Erased(u) ==
  /\ DeleteEnvVar(u)
  /\ made' = made
  /\ rows' = [rows EXCEPT ![edit[u].id] = NoRow]
  /\ saved' = [saved EXCEPT ![edit[u].id] = NotSaved]

(* The table of variables changes in three ways: a row is made, overwritten or erased. *)
LEMMA TableSteps ==
  ASSUME EnvTypeOK, RowsInv, NEW u \in Users, EditInv(u), EnvStep(u)
  PROVE  UNCHANGED <<rows, made, saved>> \/ Inserted(u) \/ Overwritten(u) \/ Erased(u)
<1>1. CASE InsertEnvVar(u)
  BY <1>1 DEF InsertEnvVar, EndsUndone, Inserted
<1>2. CASE UpdateEnvVar(u)
  <2>1. edit[u].id \in Ids
    BY <1>2, NumbersInUse DEF EditInv, UpdateEnvVar, Handles, Asks, InHandler
  <2> QED BY <1>2, <2>1 DEF UpdateEnvVar, Overwritten, EnvTypeOK
<1>3. CASE DeleteEnvVar(u)
  BY <1>3 DEF DeleteEnvVar, Erased
<1>4. CASE AskCreate(u) \/ AskUpdate(u) \/ AskDelete(u)
  BY <1>4 DEF AskCreate, AskUpdate, AskDelete, AskEnv
<1>5. CASE SelectKey(u) \/ SelectCurrent(u) \/ SelectDuplicate(u) \/ SelectDeleted(u)
  BY <1>5 DEF SelectKey, SelectCurrent, SelectDuplicate, SelectDeleted, GoesOn, EndsUndone
<1> QED BY <1>1, <1>2, <1>3, <1>4, <1>5 DEF EnvStep

(* The variable of a write.                                                *)
LEMMA WrittenNumber ==
  ASSUME EnvTypeOK, RowsInv, NEW u \in Users, EditInv(u)
  PROVE  /\ Overwritten(u) \/ Erased(u) => edit[u].id \in Ids /\ edit[u].id \in 1..made
         /\ Inserted(u) => made + 1 \in Ids /\ edit[u].key \in Keys
<1>1. ASSUME Overwritten(u) \/ Erased(u)
      PROVE  edit[u].id \in Ids /\ edit[u].id \in 1..made
  BY <1>1, NumbersInUse
     DEF EditInv, Overwritten, Erased, UpdateEnvVar, DeleteEnvVar, Handles, Asks, InHandler
<1>2. ASSUME Inserted(u)
      PROVE  made + 1 \in Ids /\ edit[u].key \in Keys
  <2>1. made < MaxWrites /\ made \in Nat
    BY <1>2, NumbersInUse DEF Inserted, InsertEnvVar
  <2>2. edit[u].key \in Keys
    BY <1>2 DEF EditInv, Inserted, InsertEnvVar, Handles, Asks, InHandler
  <2> QED BY <2>1, <2>2, MaxWritesAssumption DEF Ids
<1> QED BY <1>1, <1>2

(* A row keeps its kind until it is deleted.                               *)
LEMMA RowsKeepKind ==
  ASSUME EnvTypeOK, RowsInv, NEW u \in Users, EditInv(u), EnvStep(u)
  PROVE  /\ made' \in Nat /\ made <= made'
         /\ \A i \in 1..made : There(i)' => There(i) /\ rows'[i].secret = rows[i].secret
<1>1. made' \in Nat /\ made <= made' /\ made \in Nat /\ rows \in [Ids -> Rows] /\ 1..made \subseteq Ids
  BY RowTypes, NumbersInUse, MaxWritesAssumption DEF EnvTypeOK
<1>2. ASSUME NEW i \in 1..made, There(i)'
      PROVE  There(i) /\ rows'[i].secret = rows[i].secret
  <2>1. CASE UNCHANGED <<rows, made, saved>>
    BY <1>2, <2>1 DEF There
  <2>2. CASE Inserted(u)
    BY <1>1, <1>2, <2>2 DEF Inserted, There
  <2>3. CASE Overwritten(u)
    BY <1>1, <1>2, <2>3, WrittenNumber DEF Overwritten, There, Updated, Rows
  <2>4. CASE Erased(u)
    BY <1>1, <1>2, <2>4, WrittenNumber DEF Erased, There, NoRow
  <2> QED BY <2>1, <2>2, <2>3, <2>4, TableSteps
<1> QED BY <1>1, <1>2

(* Each of the three keeps the table and what users have saved in agreement. *)
LEMMA EnvStepKeepsRowsInv ==
  ASSUME EnvTypeOK, RowsInv, NEW u \in Users, EditInv(u), EnvStep(u)
  PROVE  RowsInv'
<1>0. made \in Nat /\ rows \in [Ids -> Rows] /\ Ids' = Ids
      /\ saved \in [Ids -> [key : Keys \cup {"none"}, text : Texts]]
  BY NumbersInUse DEF EnvTypeOK, Ids
<1>1. CASE UNCHANGED <<rows, made, saved>>
  BY <1>1, <1>0 DEF RowsInv, There
<1>2. CASE Inserted(u)
  <2> DEFINE n == made + 1
  <2>1. n \in Ids /\ edit[u].key \in Keys
    BY <1>2, WrittenNumber
  <2>2. /\ rows'[n].key = edit[u].key /\ rows'[n].secret = rows'[n].sealed
        /\ rows'[n].text = edit[u].text
        /\ saved'[n] = [key |-> edit[u].key, text |-> edit[u].text]
    BY <1>0, <1>2, <2>1 DEF Inserted, Written
  <2>3. \A i \in Ids \ {n} : rows'[i] = rows[i] /\ saved'[i] = saved[i]
    BY <1>0, <1>2, <2>1 DEF Inserted
  <2>4. \A i \in Ids : rows[i].key # edit[u].key
    BY <1>2 DEF Inserted, Taken
  <2>5. made' = n /\ n \in Nat /\ made <= n
    BY <1>0, <1>2 DEF Inserted
  <2> HIDE DEF n
  <2>6. ASSUME NEW i \in Ids, There(i)'
        PROVE  /\ i <= made'
               /\ rows'[i].secret = rows'[i].sealed
               /\ rows'[i].key = saved'[i].key
               /\ rows'[i].text = saved'[i].text
    <3>1. CASE i = n
      BY <1>0, <2>2, <2>5, <3>1
    <3>2. CASE i # n
      <4>1. i \in Ids \ {n} /\ There(i)
        BY <2>3, <2>6, <3>2 DEF There
      <4>2. i <= made
        BY <4>1 DEF RowsInv
      <4>3. i <= made'
        BY <4>1, <4>2, <1>0, <2>5, MaxWritesAssumption DEF Ids
      <4> QED BY <2>3, <4>1, <4>3 DEF RowsInv
    <3> QED BY <3>1, <3>2
  <2>7. ASSUME NEW i \in Ids, There(i)', NEW j \in Ids \ {i}, There(j)'
        PROVE  rows'[j].key # rows'[i].key
    <3>1. CASE i # n /\ j # n
      BY <2>3, <2>7, <3>1 DEF RowsInv, There
    <3>2. CASE i = n \/ j = n
      BY <2>2, <2>3, <2>4, <2>7, <3>2
    <3> QED BY <3>1, <3>2
  <2> QED BY <1>0, <2>6, <2>7 DEF RowsInv
<1>3. CASE Overwritten(u)
  <2> DEFINE n == edit[u].id
  <2>1. n \in Ids /\ n \in 1..made /\ There(n)
    BY <1>3, WrittenNumber DEF Overwritten
  <2>2. rows'[n] = Updated(u, rows[n]) /\ saved'[n] = Saves(u, saved[n]) /\ made' = made
    BY <1>0, <1>3, <2>1 DEF Overwritten
  <2>3. \A i \in Ids \ {n} : rows'[i] = rows[i] /\ saved'[i] = saved[i]
    BY <1>0, <1>3, <2>1 DEF Overwritten
  <2>4. current[u].secret = rows[n].secret
    BY <1>3, <2>1 DEF Overwritten, UpdateEnvVar, Handles, EditInv
  <2>5. rows[n].secret = rows[n].sealed /\ rows[n].key = saved[n].key /\ rows[n].text = saved[n].text
    BY <2>1 DEF RowsInv
  <2>6. /\ rows'[n].secret = rows[n].secret
        /\ rows'[n].sealed = IF LeavesText(u) THEN rows[n].sealed ELSE current[u].secret
        /\ rows'[n].text = IF LeavesText(u) THEN rows[n].text ELSE edit[u].text
        /\ rows'[n].key = IF LeavesKey(u) THEN rows[n].key ELSE edit[u].key
    BY <1>0, <2>1, <2>2 DEF Updated, Rows
  <2>7. /\ saved'[n].text = IF LeavesText(u) THEN saved[n].text ELSE edit[u].text
        /\ saved'[n].key = IF LeavesKey(u) THEN saved[n].key ELSE edit[u].key
    BY <1>0, <2>1, <2>2 DEF Saves
  <2>8. rows'[n].key = rows[n].key \/ \A i \in Ids : rows[i].key # rows'[n].key
    BY <1>3, <2>6 DEF Overwritten, Refused, LeavesKey, Taken
  <2>9. n <= made'
    BY <1>0, <2>1, <2>2
  <2> HIDE DEF n
  <2>10. \A i \in Ids \ {n} : There(i)' => There(i)
    BY <2>3 DEF There
  <2> QED
    BY <1>0, <2>1, <2>2, <2>3, <2>4, <2>5, <2>6, <2>7, <2>8, <2>9, <2>10 DEF RowsInv, There
<1>4. CASE Erased(u)
  <2>1. edit[u].id \in Ids
    BY <1>4, WrittenNumber
  <2>2. PICK n \in Ids : n = edit[u].id
    BY <2>1
  <2>3. rows'[n].key = "none" /\ made' = made
    BY <1>0, <1>4, <2>2 DEF Erased, NoRow
  <2>4. \A i \in Ids \ {n} : rows'[i] = rows[i] /\ saved'[i] = saved[i]
    BY <1>0, <1>4, <2>2 DEF Erased
  <2> QED BY <1>0, <2>3, <2>4 DEF RowsInv, There
<1> QED BY <1>1, <1>2, <1>3, <1>4, TableSteps

-----------------------------------------------------------------------------
(* What the handlers of the variables go by.                               *)

(* A step of the members leaves what is known of a request for a variable. *)
LEMMA BesideKeepsEditInv ==
  ASSUME EnvTypeOK, NEW u \in Users, MemberStep(u), Beside,
         NEW v \in Users, EditInv(v), WatchInv(v)
  PROVE  EditInv(v)'
<1> USE DEF EnvTypeOK, RoleTypes
<1>1. UNCHANGED <<rows, made>>
  BY DEF Beside
<1>2. at'[v] \in InHandler => edit'[v] = edit[v] /\ current'[v] = current[v]
  BY DEF Beside
<1>3. ASSUME at'[v] \in InHandler, req'[v].kind \in EnvKinds
      PROVE  at[v] \in InHandler /\ req'[v] = req[v] /\ (at'[v] = "seen" => at[v] = "seen")
  <2>1. CASE v # u
    BY <1>3, <2>1, MemberStepsKeepOthers DEF Keeps
  <2>2. CASE v = u
    <3> USE <1>3, <2>2 DEF EnvKinds
    <3>1. CASE LoadMembers(u) \/ GotProject(u) \/ Reloads(u)
      BY <3>1 DEF LoadMembers, GotProject, Reloads, Send
    <3>2. CASE \E t \in Users : \/ AddMember(u, t) \/ RemoveMember(u, t)
                                \/ \E to \in {"member", "owner"} : ChangeMemberRole(u, t, to)
      <4>1. PICK kind \in OwnerKinds, of \in Users, to \in Roles : SendWrite(u, kind, of, to)
        BY <3>2 DEF AddMember, RemoveMember, ChangeMemberRole, OwnerKinds, Roles
      <4> QED BY <4>1 DEF SendWrite, Send, OwnerKinds
    <3>3. CASE IsProjectOwner(u) \/ IsProjectMember(u)
      BY <3>3 DEF IsProjectOwner, IsProjectMember, Goes, Reply, InHandler
    <3>4. CASE SelectMember(u)
      BY <3>4 DEF SelectMember, OwnerKinds
    <3>5. CASE GetProject(u) \/ ListMembers(u) \/ Fails(u)
      BY <3>5 DEF GetProject, ListMembers, Fails, Reply, InHandler
    <3>6. CASE Insert(u) \/ Delete(u) \/ Update(u)
      BY <3>6 DEF Insert, Delete, Update, Reply, InHandler
    <3>7. CASE Rests(u)
      BY <3>7 DEF Rests, InHandler
    <3> QED BY <3>1, <3>2, <3>3, <3>4, <3>5, <3>6, <3>7 DEF MemberStep
  <2> QED BY <2>1, <2>2
<1> QED BY <1>1, <1>2, <1>3 DEF EditInv, Asks, There, EnvKinds, InHandler

(* No step of one user spoils what another's request has read of a row.    *)
LEMMA EnvStepKeepsEditInv ==
  ASSUME EnvTypeOK, RowsInv, NEW u \in Users, EditInv(u), EnvStep(u),
         NEW v \in Users, EditInv(v), WatchInv(v)
  PROVE  EditInv(v)'
<1> USE DEF EnvTypeOK, RoleTypes
<1>0. /\ made \in Nat /\ made' \in Nat /\ made <= made' /\ Existing \subseteq 1..made
      /\ \A i \in 1..made : There(i)' => There(i) /\ rows'[i].secret = rows[i].secret
  BY RowsKeepKind, NumbersInUse
<1>1. CASE v # u
  <2>1. Keeps(v)
    BY <1>1, EnvStepsKeepOthers
  <2>2. edit'[v] = edit[v] /\ current'[v] = current[v]
    <3>1. CASE AskShape(u)
      BY <1>1, <3>1 DEF AskShape, AskEnv
    <3>2. CASE GoShape(u)
      BY <1>1, <3>2 DEF GoShape, GoesOn
    <3>3. CASE EndShape(u)
      BY <1>1, <3>3 DEF EndShape, Ends
    <3> QED BY <3>1, <3>2, <3>3, EnvStepShapes
  <2> QED BY <1>0, <2>1, <2>2 DEF EditInv, Asks, Keeps, There, InHandler
<1>2. CASE v = u
  <2>1. CASE AskShape(u)
    <3>1. PICK kind \in EnvKinds, body \in Bodies :
            /\ AskEnv(u, kind, body)
            /\ kind = "create" => body.key \in Keys /\ body.text \in Texts
            /\ kind # "create" => body.id \in Existing
      BY <2>1 DEF AskShape
    <3>2. /\ at'[u] = "asked" /\ req'[u].kind = kind /\ edit'[u] = body /\ made' = made
      BY <3>1 DEF AskEnv, SendWrite, Send
    <3> QED BY <1>0, <1>2, <3>1, <3>2 DEF EditInv, Asks, EnvKinds, InHandler
  <2>2. CASE EndShape(u)
    BY <1>2, <2>2 DEF EndShape, Ends, Reply, EditInv, Asks, InHandler
  <2>3. CASE GoShape(u)
    <3>1. /\ at[u] \in {"admitted", "seen"} /\ at'[u] = "seen" /\ req' = req
          /\ edit' = edit /\ rows' = rows /\ made' = made
      BY <2>3 DEF GoShape, HandlerShape, GoesOn, Goes
    <3>2. /\ Asks(u, "create")' <=> Asks(u, "create")
          /\ Asks(u, "update")' <=> Asks(u, "update")
          /\ Asks(u, "delete")' <=> Asks(u, "delete")
      BY <3>1 DEF Asks, InHandler
    <3>3. req[u].kind = "update" /\ There(edit[u].id)
             => current'[u].secret = rows[edit[u].id].secret
      <4>1. CASE SelectCurrent(u) /\ There(edit[u].id)
        BY <4>1 DEF SelectCurrent, GoesOn
      <4>2. CASE SelectDuplicate(u)
        <5>1. current'[u].secret = current[u].secret
          BY <2>3, <3>1, <4>2 DEF SelectDuplicate, GoesOn, EndsUndone, Ends, Reply
        <5> QED BY <4>2, <5>1 DEF SelectDuplicate, Handles, EditInv
      <4>3. CASE SelectKey(u) \/ SelectDeleted(u)
        BY <4>3 DEF SelectKey, SelectDeleted, Handles
      <4>4. CASE InsertEnvVar(u) \/ UpdateEnvVar(u) \/ DeleteEnvVar(u)
        BY <3>1, <4>4 DEF InsertEnvVar, UpdateEnvVar, DeleteEnvVar, EndsUndone, Ends, Reply
      <4>5. CASE AskCreate(u) \/ AskUpdate(u) \/ AskDelete(u)
        BY <3>1, <4>5 DEF AskCreate, AskUpdate, AskDelete, AskEnv, SendWrite
      <4> QED BY <4>1, <4>2, <4>3, <4>4, <4>5 DEF EnvStep
    <3> QED BY <1>2, <3>1, <3>2, <3>3 DEF EditInv, There
  <2> QED BY <2>1, <2>2, <2>3, EnvStepShapes
<1> QED BY <1>1, <1>2

-----------------------------------------------------------------------------
(* The owners.                                                             *)

(* A user who is not the last owner of a page's list is not the only one.  *)
LEMMA AnotherOwner ==
  ASSUME NEW r, NEW u \in Owners(r), ~(Cardinality(Owners(r)) <= 1)
  PROVE  \E v \in Owners(r) : v # u
<1>1. CASE Owners(r) = {u}
  <2>1. Cardinality({u}) = 1
    BY FS_Singleton
  <2> QED BY <1>1, <2>1
<1>2. CASE Owners(r) # {u}
  BY <1>2
<1> QED BY <1>1, <1>2

(* The last owner goes only in a way the history records.                  *)
LEMMA MemberStepKeepsOwners ==
  ASSUME EnvTypeOK, NEW u \in Users, UserInv(u), OwnerUnlessOutdated, MemberStep(u)
  PROVE  OwnerUnlessOutdated'
<1> USE DEF EnvTypeOK, RoleTypes
<1>1. CASE role' = role /\ outdated' = outdated
  BY <1>1 DEF OwnerUnlessOutdated, OwnerRemains, Owners
<1>2. CASE Insert(u) \/ Delete(u) \/ Update(u)
  <2> DEFINE t == req[u].of
  <2>1. t \in Users /\ Remember(u)
    BY <1>2 DEF Insert, Delete, Update
  <2>2. \A v \in Users \ {t} : role'[v] = role[v]
    BY <1>2, <2>1 DEF Insert, Delete, Update, Removed
  <2>3. CASE outdated'
    BY <2>3 DEF OwnerUnlessOutdated
  <2>4. CASE ~outdated'
    <3>1. /\ ~outdated
          /\ role[t] = "owner" /\ role'[t] # "owner" =>
               role[u] = "owner" /\ Owners(listed[u]) = Owners(role)
      BY <2>1, <2>4, Zenon DEF Remember
    <3>2. PICK w \in Users : role[w] = "owner"
      BY <3>1 DEF OwnerUnlessOutdated, OwnerRemains, Owners
    <3> SUFFICES \E v \in Users : role'[v] = "owner"
      BY DEF OwnerUnlessOutdated, OwnerRemains, Owners
    <3>3. CASE role'[t] = "owner"
      BY <2>1, <3>3
    <3>4. CASE role[t] # "owner"
      BY <2>2, <3>2, <3>4
    <3>5. CASE role[t] = "owner" /\ role'[t] # "owner" /\ t # u
      BY <2>2, <3>1, <3>5
    <3>6. CASE role[t] = "owner" /\ role'[t] # "owner" /\ t = u
      <4>1. Asks(u, "change") \/ Asks(u, "remove")
        BY <1>2, <3>6 DEF Insert, Delete, Update, Writes, Asks, InHandler, Reply
      <4>2. ~LastOwner(u)
        BY <3>6, <4>1 DEF UserInv, PageInv
      <4>3. u \in Owners(listed[u])
        BY <3>1, <3>6 DEF Owners
      <4>4. PICK v \in Owners(listed[u]) : v # u
        <5>1. listed[u][u] = "owner"
          BY <4>3 DEF Owners
        <5> QED BY ONLY <4>2, <4>3, <5>1, AnotherOwner DEF LastOwner
      <4>5. v \in Users /\ role[v] = "owner"
        BY <3>1, <3>6, <4>4 DEF Owners
      <4> QED BY <2>2, <3>6, <4>4, <4>5
    <3> QED BY <3>3, <3>4, <3>5, <3>6
  <2> QED BY <2>3, <2>4
<1>3. \/ role' = role /\ outdated' = outdated
      \/ Insert(u) \/ Delete(u) \/ Update(u)
  BY DEF MemberStep, LoadMembers, AddMember, RemoveMember, ChangeMemberRole, SendWrite,
         IsProjectOwner, IsProjectMember, GetProject, ListMembers, SelectMember, Fails,
         GotProject, Reloads, Rests
<1> QED BY <1>1, <1>2, <1>3

-----------------------------------------------------------------------------
(* The theorems.                                                           *)

(* The invariant holds initially.                                          *)
LEMMA InitInv == EnvInit => IInv
<1> SUFFICES ASSUME EnvInit PROVE IInv
  OBVIOUS
<1> USE DEF EnvInit, Init
<1>0. 0 \in 0..MaxWrites
  BY MaxWritesAssumption
<1>1. RoleTypes
  BY <1>0 DEF RoleTypes, NoRequest, NoMembers, Roles
<1>2. EnvTypeOK
  BY <1>0, <1>1, TextsAssumption DEF EnvTypeOK, NoEdit, NotRead, NotSaved, NoRow, Rows
<1>3. ASSUME NEW u \in Users
      PROVE  UserInv(u) /\ EditInv(u)
  BY DEF UserInv, WatchInv, AdmissionInv, AnswerInv, PageInv, EditInv, Asks, InHandler, Owned,
         NoRequest, OwnerKinds
<1>4. RowsInv
  BY DEF RowsInv, There, NoRow
<1>5. OwnerUnlessOutdated
  BY DEF OwnerUnlessOutdated, OwnerRemains
<1> QED BY <1>2, <1>3, <1>4, <1>5 DEF IInv

(* Every step keeps it.                                                    *)
LEMMA NextInv == IInv /\ [Next]_vars => IInv'
<1> SUFFICES ASSUME IInv, [Next]_vars PROVE IInv'
  OBVIOUS
<1>0. EnvTypeOK /\ RowsInv /\ OwnerUnlessOutdated /\ \A u \in Users : UserInv(u) /\ EditInv(u)
  BY DEF IInv
<1>1. CASE EnvNext
  <2>1. PICK u \in Users : EnvStep(u)
    BY <1>1 DEF EnvNext, EnvStep
  <2>2. EnvTypeOK' /\ RowsInv'
    BY <1>0, <2>1, EnvActionsKeepTypes, EnvStepKeepsRowsInv
  <2>3. ASSUME NEW v \in Users
        PROVE  UserInv(v)' /\ EditInv(v)'
    <3>1. WatchInv(v)
      BY <1>0 DEF UserInv
    <3>2. EditInv(v)'
      BY <1>0, <2>1, <3>1, EnvStepKeepsEditInv
    <3>3. CASE v = u
      BY <1>0, <2>1, <3>2, <3>3, EnvStepKeepsUserInv
    <3>4. CASE v # u
      BY <1>0, <2>1, <3>1, <3>2, <3>4, EnvStepsKeepOthers, OthersKeepUserInv
    <3> QED BY <3>3, <3>4
  <2>4. role' = role /\ outdated' = outdated
    <3>1. CASE AskShape(u)
      BY <3>1 DEF AskShape, AskEnv, SendWrite
    <3>2. CASE GoShape(u) \/ EndShape(u)
      BY <3>2 DEF GoShape, EndShape, HandlerShape
    <3> QED BY <1>0, <2>1, <3>1, <3>2, EnvStepShapes
  <2>5. OwnerUnlessOutdated'
    BY <1>0, <2>4 DEF OwnerUnlessOutdated, OwnerRemains, Owners
  <2> QED BY <2>2, <2>3, <2>5 DEF IInv
<1>2. CASE Beside
  <2>1. PICK u \in Users : MemberStep(u)
    BY <1>2 DEF Beside, MemberNext, MemberStep
  <2>2. EnvTypeOK' /\ OwnerUnlessOutdated'
    BY <1>0, <1>2, <2>1, BesideKeepsTypes, MemberStepKeepsOwners
  <2>3. ASSUME NEW v \in Users
        PROVE  UserInv(v)' /\ EditInv(v)'
    <3>1. WatchInv(v)
      BY <1>0 DEF UserInv
    <3>2. EditInv(v)'
      BY <1>0, <1>2, <2>1, <3>1, BesideKeepsEditInv
    <3>3. CASE v = u
      BY <1>0, <2>1, <3>2, <3>3, MemberStepKeepsUserInv
    <3>4. CASE v # u
      BY <1>0, <2>1, <3>1, <3>2, <3>4, MemberStepsKeepOthers, OthersKeepUserInv
    <3> QED BY <3>3, <3>4
  <2>4. UNCHANGED <<rows, made, saved>>
    BY <1>2 DEF Beside
  <2>5. RowsInv'
    BY <1>0, <2>4 DEF RowsInv, There
  <2> QED BY <2>2, <2>3, <2>5 DEF IInv
<1>3. CASE UNCHANGED vars
  <2> USE <1>3 DEF vars, memberVars, envVars
  <2>1. EnvTypeOK'
    BY <1>0 DEF EnvTypeOK, RoleTypes
  <2>2. RowsInv' /\ OwnerUnlessOutdated'
    BY <1>0 DEF RowsInv, There, OwnerUnlessOutdated, OwnerRemains, Owners
  <2>3. ASSUME NEW v \in Users
        PROVE  UserInv(v)' /\ EditInv(v)'
    <3>1. LastOwner(v)' <=> LastOwner(v)
      BY DEF LastOwner, Owners
    <3>2. UserInv(v)'
      BY <1>0, <3>1 DEF UserInv, WatchInv, AdmissionInv, AnswerInv, PageInv, Asks, Allowed,
                        Denied, Owned
    <3>3. EditInv(v)'
      BY <1>0 DEF EditInv, Asks, There
    <3> QED BY <3>2, <3>3
  <2> QED BY <2>1, <2>2, <2>3 DEF IInv
<1> QED BY <1>1, <1>2, <1>3 DEF Next

(* The invariant holds in every state, whoever the users and the admins    *)
(* are and however many requests they send.                                *)
THEOREM EnvInvariantHolds == Spec => []IInv
<1> QED BY InitInv, NextInv, PTL DEF Spec

(* The tables, the requests and the pages have their types: no variable    *)
(* ever has a null for a name.                                             *)
THEOREM EnvTypeCorrect == Spec => []EnvTypeOK
<1>1. IInv => EnvTypeOK
  BY DEF IInv
<1> QED BY <1>1, EnvInvariantHolds, PTL

(* A project keeps an owner unless one was taken away by someone who was   *)
(* no owner any more, or whose page did not show the owners of that moment *)
(* (project_detail.js, members.py).                                        *)
THEOREM OwnersRemainUnlessOutdated == Spec => []OwnerUnlessOutdated
<1>1. IInv => OwnerUnlessOutdated
  BY DEF IInv
<1> QED BY <1>1, EnvInvariantHolds, PTL

(* Who was let through or refused by the access checks (projects.py) had,  *)
(* at some moment of the request, a role that says so.                     *)
THEOREM AdmissionsAreJust == Spec => []AdmissionJust
<1>1. ASSUME IInv, NEW u \in Users \ Admins
      PROVE  /\ answer[u] = "refused" =>
                  IF req[u].kind \in OwnerKinds THEN own[u] # {"owner"} ELSE "none" \in own[u]
             /\ answer[u] \in {"ok", "conflict", "absent"} =>
                  IF req[u].kind \in OwnerKinds THEN "owner" \in own[u] ELSE own[u] # {"none"}
  BY <1>1 DEF IInv, UserInv, AdmissionInv, Allowed, Denied, Owned
<1>2. IInv => AdmissionJust
  BY <1>1 DEF AdmissionJust
<1> QED BY <1>2, EnvInvariantHolds, PTL

(* An answer about a member (members.py) was true at some moment of its    *)
(* request.                                                                *)
THEOREM AnswersAreTrue == Spec => []AnswersTrue
<1>1. ASSUME IInv, NEW u \in Users, req[u].kind \in OwnerKinds
      PROVE  /\ answer[u] = "conflict" => met[u] # {"none"}
             /\ answer[u] = "absent" => "none" \in met[u]
             /\ answer[u] = "ok" =>
                  CASE req[u].kind = "add" -> "member" \in met[u]
                    [] req[u].kind = "remove" -> "none" \in met[u]
                    [] req[u].kind = "change" -> met[u] \cap {req[u].to, "none"} # {}
  <2>1. AnswerInv(u) /\ Owned(u)
    BY <1>1 DEF IInv, UserInv, Owned
  <2>2. /\ answer[u] = "conflict" => met[u] # {"none"}
        /\ answer[u] = "absent" => "none" \in met[u]
    BY <2>1 DEF AnswerInv
  <2>3. CASE req[u].kind = "add"
    BY <2>1, <2>2, <2>3 DEF AnswerInv
  <2>4. CASE req[u].kind = "remove"
    BY <2>1, <2>2, <2>4 DEF AnswerInv
  <2>5. CASE req[u].kind = "change"
    BY <2>1, <2>2, <2>5 DEF AnswerInv
  <2> QED BY <1>1, <2>3, <2>4, <2>5 DEF OwnerKinds
<1>2. IInv => AnswersTrue
  BY <1>1 DEF AnswersTrue
<1> QED BY <1>2, EnvInvariantHolds, PTL

(* A run is given what users last saved of each variable (env_vars.py,     *)
(* RunnerService._load_run_context).                                       *)
THEOREM EditsReachEveryRun == Spec => []EditsReachRuns
<1>1. IInv => EditsReachRuns
  BY DEF IInv, RowsInv, EditsReachRuns, Given
<1> QED BY <1>1, EnvInvariantHolds, PTL
=============================================================================
