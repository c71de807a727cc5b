----------------------------- MODULE UserCache -----------------------------
(***************************************************************************)
(* UserLRUCache (platform/cache.py), which keeps the profiles of platform  *)
(* users, and its only client _fetch_users (api/members.py), which fills   *)
(* it from the batch-get answers of XinyiPlatformClient.                   *)
(*                                                                         *)
(* A profile is abstracted to the time at which it was the platform's      *)
(* answer.  The loops of _fetch_users await nothing, so one request runs   *)
(* from the start to its batch-get, and from the reply to the end, without *)
(* another: `busy' is the request that has the event loop, and the clock   *)
(* stands while it does.  A batch-get may last any time: the timeout of    *)
(* the HTTP client is for each of its waits, not for the whole of it.      *)
(***************************************************************************)
EXTENDS Integers, Sequences

CONSTANTS
  Users,       \* platform users
  Requests,    \* requests that list the members of some project
  Capacity,    \* entries the cache may hold
  Ttl,         \* age at which an entry is still served
  MaxMembers,  \* bound on the members of a project
  MaxTime      \* bound on the clock

ASSUME UsersAssumption == Users # {}

ASSUME BoundsAssumption ==
  /\ Capacity \in Nat \ {0}
  /\ Ttl \in Nat
  /\ MaxMembers \in Nat
  /\ MaxTime \in Nat

Nobody == "nobody"

ASSUME NobodyAssumption == Nobody \notin Requests

VARIABLES
  now,      \* the monotonic clock
  data,     \* the OrderedDict: a sequence of entries, oldest use first
  newer,    \* history: <<u, v>> if u was used (set or served) after v
  busy,     \* the request that has the event loop, or Nobody
  at,       \* at[r]: where request r is
  todo,     \* todo[r]: the users its loop has still to treat
  missing,  \* missing[r]: miss_ids
  sentAt,   \* sentAt[r]: when the batch-get was sent
  slowest,  \* history: the longest that a batch-get lasted, from its start until the
            \* request went on with the reply
  toldAt,   \* toldAt[r]: when the platform read what it answers
  known,    \* known[r]: the users that answer has a profile of
  shown     \* shown[r]: the profiles the request answers with (result)

vars == <<now, data, newer, busy, at, todo, missing, sentAt, slowest, toldAt, known, shown>>
request == <<at, todo, missing, sentAt, toldAt, known, shown>>

Times == 0 .. MaxTime
Blank == -1   \* empty username, display name and e-mail
NotYet == -2
NoProfiles == [u \in Users |-> NotYet]

Elements(s) == {s[i] : i \in 1 .. Len(s)}
Cached(d) == {d[i].user : i \in 1 .. Len(d)}
Place(u) == CHOOSE i \in 1 .. Len(data) : data[i].user = u

(* The members of a project, in the order in which they joined.            *)
MemberLists ==
  {s \in UNION {[1 .. n -> Users] : n \in 1 .. MaxMembers} :
     \A i, j \in DOMAIN s : s[i] = s[j] => i = j}

----------------------------------------------------------------------------
(* OrderedDict: removal of one key; move_to_end is removal and Append.     *)

Without(u) ==
  IF u \notin Cached(data) THEN data
  ELSE [j \in 1 .. Len(data) - 1 |-> IF j < Place(u) THEN data[j] ELSE data[j + 1]]

Use(u) == newer' = {p \in newer : u \notin {p[1], p[2]}} \cup ({u} \X (Users \ {u}))

(* Variants of definitions below, for checking that the properties bite.   *)

ServedInPlace(u) == data' = data

ServedRenewed(u) == data' = Append(Without(u), [data[Place(u)] EXCEPT !.ts = now])

(* The entry that get serves keeps its age.                                *)
Served(u) == data' = Append(Without(u), data[Place(u)])

(* UserLRUCache.set: put the entry at the end, drop the oldest on overflow *)
Put(u, t) ==
  LET moved == Append(Without(u), [user |-> u, ts |-> now, asOf |-> t])
  IN  /\ data' = IF Len(moved) > Capacity THEN Tail(moved) ELSE moved
      /\ Use(u)

(* A variant: users the platform does not know are cached as well.         *)
BlankStored(u) == Put(u, Blank)

(* Users the platform does not know are not cached.                        *)
NotStored(u) == UNCHANGED <<data, newer>>

----------------------------------------------------------------------------

Init ==
  /\ now = 0
  /\ data = <<>>
  /\ newer = {}
  /\ busy = Nobody
  /\ at = [r \in Requests |-> "idle"]
  /\ todo = [r \in Requests |-> <<>>]
  /\ missing = [r \in Requests |-> <<>>]
  /\ sentAt = [r \in Requests |-> 0]
  /\ slowest = 0
  /\ toldAt = [r \in Requests |-> 0]
  /\ known = [r \in Requests |-> {}]
  /\ shown = [r \in Requests |-> NoProfiles]

(* list_members has read the rows of the members.                          *)
ListMembers(r) ==
  /\ busy = Nobody
  /\ at[r] = "idle"
  /\ busy' = r
  /\ at' = [at EXCEPT ![r] = "looking"]
  /\ \E s \in MemberLists : todo' = [todo EXCEPT ![r] = s]
  /\ UNCHANGED <<now, data, newer, missing, sentAt, slowest, toldAt, known, shown>>

(* The next user of a loop.                                                *)
Treat(r, where) ==
  /\ busy = r
  /\ at[r] = where
  /\ todo[r] # <<>>
  /\ todo' = [todo EXCEPT ![r] = Tail(@)]
  /\ UNCHANGED <<now, busy, at, sentAt, slowest, toldAt, known>>

Fresh(e) == now - e.ts <= Ttl

(* UserLRUCache.get, with an entry that has not expired.                   *)
Hit(r) ==
  LET u == Head(todo[r])
  IN  /\ Treat(r, "looking")
      /\ u \in Cached(data)
      /\ Fresh(data[Place(u)])
      /\ Served(u)
      /\ Use(u)
      /\ shown' = [shown EXCEPT ![r][u] = data[Place(u)].asOf]
      /\ UNCHANGED missing

(* UserLRUCache.get, with an entry that has expired: it is removed.        *)
Expired(r) ==
  LET u == Head(todo[r])
  IN  /\ Treat(r, "looking")
      /\ u \in Cached(data)
      /\ ~Fresh(data[Place(u)])
      /\ data' = Without(u)
      /\ missing' = [missing EXCEPT ![r] = Append(@, u)]
      /\ UNCHANGED <<newer, shown>>

(* UserLRUCache.get without an entry.                                      *)
Miss(r) ==
  LET u == Head(todo[r])
  IN  /\ Treat(r, "looking")
      /\ u \notin Cached(data)
      /\ missing' = [missing EXCEPT ![r] = Append(@, u)]
      /\ UNCHANGED <<data, newer, shown>>

(* The batch-get is sent; the request waits for it.                        *)
Ask(r) ==
  /\ busy = r
  /\ at[r] = "looking"
  /\ todo[r] = <<>>
  /\ missing[r] # <<>>
  /\ busy' = Nobody
  /\ at' = [at EXCEPT ![r] = "fetching"]
  /\ sentAt' = [sentAt EXCEPT ![r] = now]
  /\ UNCHANGED <<now, data, newer, todo, missing, slowest, toldAt, known, shown>>

(* The platform reads the profiles of the users it knows.  No reply, an    *)
(* error status and a reply that cannot be read all come out of the client *)
(* as an answer that knows nobody.                                         *)
PlatformReads(r) ==
  /\ at[r] = "fetching"
  /\ at' = [at EXCEPT ![r] = "answered"]
  /\ toldAt' = [toldAt EXCEPT ![r] = now]
  /\ \E known_ \in SUBSET Elements(missing[r]) : known' = [known EXCEPT ![r] = known_]
  /\ UNCHANGED <<now, data, newer, busy, todo, missing, sentAt, slowest, shown>>

(* How long the request has been at its batch-get, if it has come to it.   *)
Waited(r) == IF at[r] \in {"idle", "looking"} THEN 0 ELSE now - sentAt[r]

(* The reply is there: the loop over it begins.                            *)
Resume(r) ==
  /\ busy = Nobody
  /\ at[r] = "answered"
  /\ busy' = r
  /\ at' = [at EXCEPT ![r] = "storing"]
  /\ todo' = [todo EXCEPT ![r] = missing[r]]
  /\ slowest' = IF Waited(r) > slowest THEN Waited(r) ELSE slowest
  /\ UNCHANGED <<now, data, newer, missing, sentAt, toldAt, known, shown>>

StoreOne(r) ==
  LET u == Head(todo[r])
  IN  /\ Treat(r, "storing")
      /\ u \in known[r]
      /\ Put(u, toldAt[r])
      /\ shown' = [shown EXCEPT ![r][u] = toldAt[r]]
      /\ UNCHANGED missing

BlankOne(r) ==
  LET u == Head(todo[r])
  IN  /\ Treat(r, "storing")
      /\ u \notin known[r]
      /\ NotStored(u)
      /\ shown' = [shown EXCEPT ![r][u] = Blank]
      /\ UNCHANGED missing

(* The request is answered; what it knew is gone.                          *)
Answer(r) ==
  /\ busy = r
  /\ todo[r] = <<>>
  /\ \/ at[r] = "looking" /\ missing[r] = <<>>
     \/ at[r] = "storing"
  /\ busy' = Nobody
  /\ at' = [at EXCEPT ![r] = "idle"]
  /\ missing' = [missing EXCEPT ![r] = <<>>]
  /\ sentAt' = [sentAt EXCEPT ![r] = 0]
  /\ toldAt' = [toldAt EXCEPT ![r] = 0]
  /\ known' = [known EXCEPT ![r] = {}]
  /\ shown' = [shown EXCEPT ![r] = NoProfiles]
  /\ UNCHANGED <<now, data, newer, slowest, todo>>

Tick ==
  /\ now < MaxTime
  /\ busy = Nobody
  /\ now' = now + 1
  /\ UNCHANGED <<data, newer, busy, slowest, request>>

Next ==
  \/ Tick
  \/ \E r \in Requests :
       \/ ListMembers(r) \/ Hit(r) \/ Expired(r) \/ Miss(r) \/ Ask(r)
       \/ PlatformReads(r) \/ Resume(r) \/ StoreOne(r) \/ BlankOne(r) \/ Answer(r)

Spec == Init /\ [][Next]_vars

----------------------------------------------------------------------------
(* The shape of the state, with the bound of the cache and one entry for   *)
(* each user.                                                              *)
CacheTypeOK ==
  /\ now \in Times
  /\ data \in Seq([user : Users, ts : Times, asOf : Times \cup {Blank}])
  /\ Len(data) <= Capacity
  /\ \A i, j \in 1 .. Len(data) : data[i].user = data[j].user => i = j
  /\ newer \subseteq Users \X Users
  /\ busy \in Requests \cup {Nobody}
  /\ at \in [Requests -> {"idle", "looking", "fetching", "answered", "storing"}]
  /\ todo \in [Requests -> Seq(Users)]
  /\ missing \in [Requests -> Seq(Users)]
  /\ sentAt \in [Requests -> Times]
  /\ slowest \in Times
  /\ toldAt \in [Requests -> Times]
  /\ known \in [Requests -> SUBSET Users]
  /\ shown \in [Requests -> [Users -> Times \cup {Blank, NotYet}]]

(* A profile in an answer is at most as old as an entry may get, plus the  *)
(* time that the batch-get which brought it to the cache can have lasted,  *)
(* plus the time this request waits for its own.  Uses of an entry do not  *)
(* prolong its life, though they keep it from eviction (cache.py: get      *)
(* moves the entry and leaves its time), and a profile that a slow reply   *)
(* brings is not older for the requests that overlap it.                   *)
AnswersFresh ==
  \A r \in Requests, u \in Users :
    shown[r][u] \in Times => now - shown[r][u] <= Ttl + slowest + Waited(r)

(* A member without a name in an answer is one for whom this very request  *)
(* asked the platform in vain: an outage, or a user not yet known, leaves  *)
(* nothing in the cache that a later request could serve.                  *)
BlankMeansUnknown ==
  \A r \in Requests, u \in Users :
    shown[r][u] = Blank => u \in Elements(missing[r]) /\ u \notin known[r]

(* The cache never outgrows its capacity, and an entry that leaves it      *)
(* before it expired is the one least recently used: every entry that      *)
(* stays was set or served after it.                                       *)
LeastUsedLeaves ==
  [][/\ Len(data') <= Capacity
     /\ \A i \in 1 .. Len(data) :
          Fresh(data[i]) /\ data[i].user \notin Cached(data')
            => \A v \in Cached(data') : <<v, data[i].user>> \in newer']_vars

=============================================================================
