------------------------------ MODULE EnvVars ------------------------------
(***************************************************************************)
(* The environment variables of one project (api/env_vars.py) beside its   *)
(* members: their requests pass the same access checks, and what they      *)
(* store is what a run is given (RunnerService._load_run_context).         *)
(*                                                                         *)
(* A request carries one edit, from the page or from any client of the     *)
(* API.  The description of a variable is one more plain field and is left *)
(* out, as is the listing of the variables, which only reads.              *)
(***************************************************************************)
EXTENDS Members

CONSTANTS
  Keys,      \* names of variables
  Texts,     \* values as a user writes them
  Blank      \* the empty value

ASSUME KeysAssumption == Keys \cap {"kept", "null", "none"} = {}
ASSUME TextsAssumption == Blank \in Texts /\ "kept" \notin Texts

VARIABLES
  rows,      \* project_env_vars: rows[i], NoRow if there is none
  made,      \* variables made so far; each has its own number, for its uuid4
  edit,      \* edit[u]: the variable and the body of u's request
  current,   \* current[u]: what update_env_var read of the row, checked once the
             \* name asked for is known to be free or is not asked for
  saved      \* history: saved[i], what users last saved as variable i

envVars == <<rows, made, edit, current, saved>>

Ids == 1..MaxWrites
Rows == [key : Keys \cup {"none"}, text : Texts, secret : BOOLEAN, sealed : BOOLEAN]
NoRow == [key |-> "none", text |-> Blank, secret |-> FALSE, sealed |-> FALSE]
EnvKinds == {"create", "update", "delete"}   \* behind _require_access_async
There(i) == rows[i].key # "none"
Existing == {i \in Ids : There(i)}
Taken(k) == \E i \in Ids : rows[i].key = k

NotSaved == [key |-> "none", text |-> Blank]
NoEdit == [key |-> "kept", text |-> "kept", secret |-> FALSE, id |-> 0]
NotRead == [key |-> "none", secret |-> FALSE, checked |-> FALSE]

(* The value is left alone if it is not given, and that of a secret also   *)
(* if it is empty.                                                         *)
LeavesText(u) == edit[u].text \in {"kept"} \cup (IF current[u].secret THEN {Blank} ELSE {})
LeavesKey(u) == edit[u].key = "kept"

-----------------------------------------------------------------------------
(* Variants of definitions below, for checking that the properties bite.   *)

(* The row is written back whole, as it was read.                          *)
UpdatedWhole(u, row) ==
  [row EXCEPT !.key = IF LeavesKey(u) THEN current[u].key ELSE edit[u].key,
              !.text = IF LeavesText(u) THEN @ ELSE edit[u].text,
              !.sealed = IF LeavesText(u) THEN @ ELSE current[u].secret]

(* The column allows a null.                                               *)
RefusedIfTaken(u, row) == edit[u].key \notin {"kept", row.key} /\ Taken(edit[u].key)

-----------------------------------------------------------------------------
EnvInit ==
  /\ Init
  /\ made = 0
  /\ rows = [i \in Ids |-> NoRow]
  /\ edit = [u \in Users |-> NoEdit]
  /\ current = [u \in Users |-> NotRead]
  /\ saved = [i \in Ids |-> NotSaved]

AskEnv(u, kind, body) ==
  /\ SendWrite(u, kind, u, "none")
  /\ edit' = [edit EXCEPT ![u] = body]
  /\ UNCHANGED <<rows, made, current, saved>>

AskCreate(u) ==
  \E k \in Keys, t \in Texts, s \in BOOLEAN :
    AskEnv(u, "create", [key |-> k, text |-> t, secret |-> s, id |-> 0])

(* A key that is not in the body is "kept", one that is null is "null"; a  *)
(* value that is not in the body or null is "kept".  The variable may be   *)
(* deleted before the request is handled.                                  *)
AskUpdate(u) ==
  \E i \in Existing, k \in Keys \cup {"kept", "null"}, t \in Texts \cup {"kept"} :
    AskEnv(u, "update", [key |-> k, text |-> t, secret |-> FALSE, id |-> i])

AskDelete(u) ==
  \E i \in Existing : AskEnv(u, "delete", [NoEdit EXCEPT !.id = i])

-----------------------------------------------------------------------------
(* The handlers, once _require_access_async has let the request through.   *)

Handles(u, kind, where) ==
  /\ at[u] = where
  /\ req[u].kind = kind
  /\ UNCHANGED <<role, req, manages, listed, writes, own, met, outdated>>

(* The handler goes on with what it has read, or answers and is done.      *)
GoesOn(u, read) ==
  /\ Goes(u, "seen")
  /\ current' = [current EXCEPT ![u] = read]
  /\ UNCHANGED <<edit, rows, made, saved>>

Ends(u, what) ==
  /\ Reply(u, what)
  /\ edit' = [edit EXCEPT ![u] = NoEdit]
  /\ current' = [current EXCEPT ![u] = NotRead]

EndsUndone(u, what) == Ends(u, what) /\ UNCHANGED <<rows, made, saved>>

SelectKey(u) ==
  /\ Handles(u, "create", "admitted")
  /\ IF Taken(edit[u].key) THEN EndsUndone(u, "conflict") ELSE GoesOn(u, NotRead)

Written(e) == [key |-> e.key, text |-> e.text, secret |-> e.secret, sealed |-> e.secret]

(* uq_project_env_vars_project_key                                         *)
InsertEnvVar(u) ==
  /\ Handles(u, "create", "seen")
  /\ made < MaxWrites
  /\ IF Taken(edit[u].key)
     THEN EndsUndone(u, "failed")
     ELSE /\ made' = made + 1
          /\ rows' = [rows EXCEPT ![made'] = Written(edit[u])]
          /\ saved' = [saved EXCEPT ![made'] = [key |-> edit[u].key, text |-> edit[u].text]]
          /\ Ends(u, "ok")

SelectCurrent(u) ==
  LET row == rows[edit[u].id]
  IN  /\ Handles(u, "update", "admitted")
      /\ IF There(edit[u].id)
         THEN GoesOn(u, [key |-> row.key, secret |-> row.secret,
                         checked |-> edit[u].key \in {"kept", "null", row.key}])
         ELSE EndsUndone(u, "absent")

SelectDuplicate(u) ==
  /\ Handles(u, "update", "seen")
  /\ ~current[u].checked
  /\ IF \E i \in Ids \ {edit[u].id} : rows[i].key = edit[u].key
     THEN EndsUndone(u, "conflict")
     ELSE GoesOn(u, [current[u] EXCEPT !.checked = TRUE])

Saves(u, var) ==
  [var EXCEPT !.key = IF LeavesKey(u) THEN @ ELSE edit[u].key,
              !.text = IF LeavesText(u) THEN @ ELSE edit[u].text]

Updated(u, row) ==
  [row EXCEPT !.key = IF LeavesKey(u) THEN @ ELSE edit[u].key,
              !.text = IF LeavesText(u) THEN @ ELSE edit[u].text,
              !.sealed = IF LeavesText(u) THEN @ ELSE current[u].secret]

(* The UPDATE fails if the name is null or taken, and finds no row if the  *)
(* variable was deleted after the SELECT.                                  *)
Refused(u, row) ==
  /\ edit[u].key \notin {"kept", row.key}
  /\ edit[u].key = "null" \/ Taken(edit[u].key)

UpdateEnvVar(u) ==
  LET i == edit[u].id
  IN  /\ Handles(u, "update", "seen")
      /\ current[u].checked
      /\ UNCHANGED made
      /\ \/ /\ There(i) /\ ~Refused(u, rows[i])
            /\ rows' = [rows EXCEPT ![i] = Updated(u, @)]
            /\ saved' = [saved EXCEPT ![i] = Saves(u, @)]
            /\ Ends(u, "ok")
         \/ /\ ~There(i) \/ Refused(u, rows[i])
            /\ UNCHANGED <<rows, saved>>
            /\ Ends(u, IF There(i) THEN "failed" ELSE "ok")

SelectDeleted(u) ==
  /\ Handles(u, "delete", "admitted")
  /\ IF There(edit[u].id) THEN GoesOn(u, NotRead) ELSE EndsUndone(u, "absent")

DeleteEnvVar(u) ==
  /\ Handles(u, "delete", "seen")
  /\ rows' = [rows EXCEPT ![edit[u].id] = NoRow]
  /\ saved' = [saved EXCEPT ![edit[u].id] = NotSaved]
  /\ Ends(u, "ok")
  /\ UNCHANGED made

EnvNext ==
  \E u \in Users :
    \/ AskCreate(u) \/ AskUpdate(u) \/ AskDelete(u)
    \/ SelectKey(u) \/ InsertEnvVar(u)
    \/ SelectCurrent(u) \/ SelectDuplicate(u) \/ UpdateEnvVar(u)
    \/ SelectDeleted(u) \/ DeleteEnvVar(u)

(* A step of the members' side; a request it has answered keeps nothing.   *)
Beside ==
  LET open == {u \in Users : at'[u] \in InHandler}
  IN  /\ MemberNext
      /\ edit' = [u \in Users |-> IF u \in open THEN edit[u] ELSE NoEdit]
      /\ current' = [u \in Users |-> IF u \in open THEN current[u] ELSE NotRead]
      /\ UNCHANGED <<rows, made, saved>>

Next == EnvNext \/ Beside

vars == <<memberVars, envVars>>
Spec == EnvInit /\ [][Next]_vars

-----------------------------------------------------------------------------
RoleTypes ==
  /\ role \in [Users -> Roles]
  /\ at \in [Users -> InHandler \cup {"idle", "answered"}]
  /\ req \in [Users -> [kind : OwnerKinds \cup PageKinds \cup EnvKinds \cup {"none"},
                       of : Users, to : Roles]]
  /\ answer \in [Users -> {"none", "ok", "refused", "conflict", "absent", "failed"}]
  /\ manages \in [Users -> BOOLEAN]
  /\ listed \in [Users -> [Users -> Roles]]
  /\ writes \in 0..MaxWrites
  /\ own \in [Users -> SUBSET Roles] /\ met \in [Users -> SUBSET Roles]
  /\ outdated \in BOOLEAN

(* The rows have the types of their columns: a name is never null.         *)
EnvTypeOK ==
  /\ RoleTypes
  /\ rows \in [Ids -> Rows]
  /\ made \in 0..MaxWrites
  /\ edit \in [Users -> [key : Keys \cup {"kept", "null"},
                        text : Texts \cup {"kept"}, secret : BOOLEAN, id : 0..made]]
  /\ current \in [Users -> [key : Keys \cup {"none"}, secret : BOOLEAN, checked : BOOLEAN]]
  /\ saved \in [Ids -> [key : Keys \cup {"none"}, text : Texts]]

(* What a run is given for a variable: a secret is opened, which fails for *)
(* a text that is not sealed, and a plain value is taken as it is stored.  *)
Given(row) == IF row.secret = row.sealed THEN row.text ELSE "garbled"

(* A run started now is given, for each variable, what was last saved of   *)
(* it: no edit undoes a field it does not carry, even if it was decided on *)
(* a row that was changed or deleted since; no secret is left unsealed or  *)
(* sealed twice; and no variable hides another of the same name.           *)
EditsReachRuns ==
  \A i \in Ids : There(i) =>
    /\ rows[i].key = saved[i].key
    /\ Given(rows[i]) = saved[i].text
    /\ \A j \in Ids \ {i} : There(j) => rows[j].key # rows[i].key
=============================================================================
