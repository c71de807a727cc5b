------------------------------ MODULE Members ------------------------------
(***************************************************************************)
(* The members of one project: the access checks in front of the handlers  *)
(* (api/projects.py, auth/project_access.py), the handlers of              *)
(* api/members.py and the members tab of the project page                  *)
(* (static/js/project_detail.js), which each user has open once and uses   *)
(* for one request at a time.                                              *)
(*                                                                         *)
(* A request runs several transactions: one for each access check, then    *)
(* one that reads and writes.  Each SELECT is a step, since other requests *)
(* commit between any two of them (READ COMMITTED); a handler's write is   *)
(* its last statement, so the write and its commit are one step.           *)
(***************************************************************************)
EXTENDS Integers, FiniteSets

CONSTANTS
  Users,      \* platform users, each with one page of the project
  Admins,     \* the users whose token has the role admin
  MaxWrites   \* bound on the requests that may write

ASSUME AdminsAssumption == Admins \subseteq Users
ASSUME MaxWritesAssumption == MaxWrites \in Nat

VARIABLES
  role,      \* project_members: role[u], "none" if there is no row
  at,        \* at[u]: where the request of u's page is
  req,       \* req[u]: that request
  answer,    \* answer[u]: what it was answered
  manages,   \* manages[u]: is_owner, as u's page last read it
  listed,    \* listed[u]: _membersCache of u's page
  writes,    \* requests sent so far that may write
  own,       \* history: the roles u had during the request
  met,       \* history: the roles its target had during the request
  outdated   \* history: an owner was taken away by someone who was not an owner
             \* at that moment, or whose page did not show the owners of that moment

memberVars == <<role, at, req, answer, manages, listed, writes, own, met, outdated>>

Roles == {"none", "member", "owner"}
Owners(r) == {u \in Users : r[u] = "owner"}
NoMembers == [u \in Users |-> "none"]
NoRequest(u) == [kind |-> "none", of |-> u, to |-> "none"]
OwnerKinds == {"add", "remove", "change"}   \* behind _require_owner_async
PageKinds == {"project", "members"}         \* behind _require_access_async
InHandler == {"asked", "stranger", "admitted", "seen"}

-----------------------------------------------------------------------------
(* Variants of definitions below, for checking that the properties bite.   *)

NeverLast(u) == FALSE
MemberRow(u) == role[u] = "member"
RemovedUnlessOwner(t) ==
  role' = [role EXCEPT ![t] = IF @ = "owner" THEN @ ELSE "none"]

-----------------------------------------------------------------------------
(* create_project inserts the project and its owner in one transaction;    *)
(* some owner has added the others, and no page is open yet.               *)
Init ==
  /\ role \in {r \in [Users -> Roles] : Owners(r) # {}}
  /\ at = [u \in Users |-> "idle"]
  /\ req = [u \in Users |-> NoRequest(u)]
  /\ answer = [u \in Users |-> "none"]
  /\ manages = [u \in Users |-> FALSE]
  /\ listed = [u \in Users |-> NoMembers]
  /\ writes = 0
  /\ own = [u \in Users |-> {}]
  /\ met = [u \in Users |-> {}]
  /\ outdated = FALSE

(* The page of u sends a request.                                          *)
Send(u, kind, of, to) ==
  /\ at' = [at EXCEPT ![u] = "asked"]
  /\ req' = [req EXCEPT ![u] = [kind |-> kind, of |-> of, to |-> to]]
  /\ answer' = [answer EXCEPT ![u] = "none"]
  /\ own' = [own EXCEPT ![u] = {role[u]}]
  /\ met' = [met EXCEPT ![u] = {role[of]}]

(* loadMembers asks for the project and then for its members.              *)
LoadMembers(u) ==
  /\ at[u] = "idle"
  /\ Send(u, "project", u, "none")
  /\ UNCHANGED <<role, manages, listed, writes, outdated>>

SendWrite(u, kind, of, to) ==
  /\ at[u] = "idle"
  /\ writes < MaxWrites
  /\ writes' = writes + 1
  /\ Send(u, kind, of, to)
  /\ UNCHANGED <<role, manages, listed, outdated>>

(* selfLastOwner                                                           *)
LastOwner(u) == listed[u][u] = "owner" /\ Cardinality(Owners(listed[u])) <= 1

ChangeMemberRole(u, t, to) ==
  /\ manages[u]
  /\ listed[u][t] \notin {"none", to}
  /\ ~(t = u /\ LastOwner(u))
  /\ SendWrite(u, "change", t, to)

RemoveMember(u, t) ==
  /\ manages[u]
  /\ listed[u][t] # "none"
  /\ t # u
  /\ SendWrite(u, "remove", t, "none")

AddMember(u, t) ==
  /\ manages[u]
  /\ listed[u][t] = "none"
  /\ SendWrite(u, "add", t, "member")

-----------------------------------------------------------------------------
(* The access checks.                                                      *)

Reply(u, what) ==
  /\ at' = [at EXCEPT ![u] = "answered"]
  /\ answer' = [answer EXCEPT ![u] = what]

Goes(u, where) ==
  /\ at' = [at EXCEPT ![u] = where]
  /\ UNCHANGED answer

(* is_project_owner; without an owner's row, _require_owner_async refuses  *)
(* and _require_access_async asks on.                                      *)
IsProjectOwner(u) ==
  /\ at[u] = "asked"
  /\ \/ (u \in Admins \/ role[u] = "owner") /\ Goes(u, "admitted")
     \/ /\ u \notin Admins /\ role[u] # "owner"
        /\ IF req[u].kind \in OwnerKinds THEN Reply(u, "refused") ELSE Goes(u, "stranger")
  /\ UNCHANGED <<role, req, manages, listed, writes, own, met, outdated>>

HasRow(u) == role[u] # "none"

IsProjectMember(u) ==
  /\ at[u] = "stranger"
  /\ IF HasRow(u) THEN Goes(u, "admitted") ELSE Reply(u, "refused")
  /\ UNCHANGED <<role, req, manages, listed, writes, own, met, outdated>>

-----------------------------------------------------------------------------
(* The handlers.                                                           *)

GetProject(u) ==
  /\ at[u] = "admitted"
  /\ req[u].kind = "project"
  /\ manages' = [manages EXCEPT ![u] = role[u] = "owner" \/ u \in Admins]
  /\ Reply(u, "ok")
  /\ UNCHANGED <<role, req, listed, writes, own, met, outdated>>

ListMembers(u) ==
  /\ at[u] = "admitted"
  /\ req[u].kind = "members"
  /\ listed' = [listed EXCEPT ![u] = role]
  /\ Reply(u, "ok")
  /\ UNCHANGED <<role, req, manages, writes, own, met, outdated>>

(* The SELECT of the target's row, which decides on 409 and 404.           *)
SelectMember(u) ==
  LET there == role[req[u].of] # "none"
  IN  /\ at[u] = "admitted"
      /\ req[u].kind \in OwnerKinds
      /\ CASE req[u].kind = "add" /\ there -> Reply(u, "conflict")
           [] req[u].kind # "add" /\ ~there -> Reply(u, "absent")
           [] OTHER -> Goes(u, "seen")
      /\ UNCHANGED <<role, req, manages, listed, writes, own, met, outdated>>

(* A write to the rows: what the requests under way saw of it.             *)
Remember(u) ==
  /\ own' = [v \in Users |-> IF at[v] = "idle" THEN {} ELSE own[v] \cup {role'[v]}]
  /\ met' = [v \in Users |-> IF at[v] = "idle" THEN {} ELSE met[v] \cup {role'[req[v].of]}]
  /\ outdated' = \/ outdated
                 \/ /\ role[req[u].of] = "owner" /\ role'[req[u].of] # "owner"
                    /\ role[u] # "owner" \/ Owners(listed[u]) # Owners(role)
  /\ UNCHANGED <<req, manages, listed, writes>>

Writes(u, kind) == at[u] = "seen" /\ req[u].kind = kind

Insert(u) ==
  /\ Writes(u, "add")
  /\ IF role[req[u].of] = "none"
     THEN role' = [role EXCEPT ![req[u].of] = "member"] /\ Reply(u, "ok")
     ELSE UNCHANGED role /\ Reply(u, "failed")   \* the primary key is taken
  /\ Remember(u)

Removed(t) == role' = [role EXCEPT ![t] = "none"]

Delete(u) ==
  /\ Writes(u, "remove")
  /\ Removed(req[u].of)
  /\ Reply(u, "ok")
  /\ Remember(u)

(* The UPDATE finds no row if the member was removed after the SELECT.     *)
Update(u) ==
  /\ Writes(u, "change")
  /\ role' = [role EXCEPT ![req[u].of] = IF @ = "none" THEN @ ELSE req[u].to]
  /\ Reply(u, "ok")
  /\ Remember(u)

(* The database fails under a request: its transaction is rolled back.     *)
Fails(u) ==
  /\ at[u] \in InHandler
  /\ Reply(u, "failed")
  /\ UNCHANGED <<role, req, manages, listed, writes, own, met, outdated>>

-----------------------------------------------------------------------------
(* What the page does with an answer.                                      *)

(* After GET project: a refusal has no is_owner, a failure has no JSON.    *)
GotProject(u) ==
  /\ at[u] = "answered"
  /\ req[u].kind = "project"
  /\ answer[u] # "failed"
  /\ manages' = [manages EXCEPT ![u] = @ /\ answer[u] = "ok"]
  /\ Send(u, "members", u, "none")
  /\ UNCHANGED <<role, listed, writes, outdated>>

(* The tab is loaded again after a write, except that a removal or an      *)
(* addition that was not done is only reported.                            *)
Reloads(u) ==
  /\ at[u] = "answered"
  /\ \/ req[u].kind = "change"
     \/ req[u].kind \in {"add", "remove"} /\ answer[u] = "ok"
  /\ Send(u, "project", u, "none")
  /\ UNCHANGED <<role, manages, listed, writes, outdated>>

Rests(u) ==
  /\ at[u] = "answered"
  /\ \/ req[u].kind = "project" /\ answer[u] = "failed"
     \/ req[u].kind \in {"add", "remove"} /\ answer[u] # "ok"
     \/ req[u].kind \notin OwnerKinds \cup {"project"}
  /\ at' = [at EXCEPT ![u] = "idle"]
  /\ req' = [req EXCEPT ![u] = NoRequest(u)]
  /\ answer' = [answer EXCEPT ![u] = "none"]
  /\ listed' = IF req[u].kind = "members" /\ answer[u] = "refused"
               THEN [listed EXCEPT ![u] = NoMembers] ELSE listed
  /\ own' = [own EXCEPT ![u] = {}]
  /\ met' = [met EXCEPT ![u] = {}]
  /\ UNCHANGED <<role, manages, writes, outdated>>

MemberNext ==
  \E u \in Users :
    \/ LoadMembers(u)
    \/ \E t \in Users : \/ AddMember(u, t) \/ RemoveMember(u, t)
                        \/ \E to \in {"member", "owner"} : ChangeMemberRole(u, t, to)
    \/ IsProjectOwner(u) \/ IsProjectMember(u)
    \/ GetProject(u) \/ ListMembers(u) \/ SelectMember(u)
    \/ Insert(u) \/ Delete(u) \/ Update(u) \/ Fails(u)
    \/ GotProject(u) \/ Reloads(u) \/ Rests(u)

-----------------------------------------------------------------------------
(* The page says "at least one owner stays" (project_detail.js:356).       *)
OwnerRemains == Owners(role) # {}

(* The page's rule keeps an owner as long as those who take one away are   *)
(* owners at that moment and look at the owners of that moment: only a     *)
(* page overtaken by another's write, or an admin, leaves a project        *)
(* without owners.                                                         *)
OwnerUnlessOutdated == outdated \/ OwnerRemains

(* A refusal is just at some moment of the request, and so is a write that *)
(* was let through, although the checks are several transactions and the   *)
(* role may change between any two of them.                                *)
AdmissionJust ==
  \A u \in Users \ Admins :
    /\ answer[u] = "refused" =>
         IF req[u].kind \in OwnerKinds THEN own[u] # {"owner"} ELSE "none" \in own[u]
    /\ answer[u] \in {"ok", "conflict", "absent"} =>
         IF req[u].kind \in OwnerKinds THEN "owner" \in own[u] ELSE own[u] # {"none"}

(* What an answer says of the target was true at some moment of the        *)
(* request, although the row is read and written by two statements.        *)
AnswersTrue ==
  \A u \in Users : req[u].kind \in OwnerKinds =>
    /\ answer[u] = "conflict" => met[u] # {"none"}
    /\ answer[u] = "absent" => "none" \in met[u]
    /\ answer[u] = "ok" =>
         CASE req[u].kind = "add" -> "member" \in met[u]
           [] req[u].kind = "remove" -> "none" \in met[u]
           [] req[u].kind = "change" -> met[u] \cap {req[u].to, "none"} # {}
=============================================================================
