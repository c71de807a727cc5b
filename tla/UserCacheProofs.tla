-------------------------- MODULE UserCacheProofs --------------------------
(***************************************************************************)
(* Proofs about UserCache for any number of users and requests, any        *)
(* capacity and time to live, however long a batch-get lasts.              *)
(***************************************************************************)
EXTENDS UserCache, TLAPS

Stored == [user : Users, ts : Times, asOf : Times \cup {Blank}]

(* The entry of data that is the j-th of Without(u).                       *)
Source(u, j) == IF u \notin Cached(data) \/ j < Place(u) THEN j ELSE j + 1

(* What data becomes when the entry e of u is put at its end.              *)
Moved(u, e) == Append(Without(u), e)

----------------------------------------------------------------------------
(* The inductive invariant.                                                *)

(* What is cached was read while the batch-get that stored it lasted.      *)
EntriesAge ==
  \A i \in 1 .. Len(data) :
    /\ data[i].asOf \in Times
    /\ data[i].asOf <= data[i].ts
    /\ data[i].ts <= now
    /\ data[i].ts - data[i].asOf <= slowest

(* The sequence is sorted by last use.                                     *)
SortedByUse ==
  \A i, j \in 1 .. Len(data) : i < j => <<data[j].user, data[i].user>> \in newer

(* A batch-get was sent.                                                   *)
Asked(r) == at[r] \in {"fetching", "answered", "storing"}

(* The event loop belongs to the request that is in one of its two loops;  *)
(* a reply in use was read after it was asked for.                         *)
FetchInv(r) ==
  /\ busy = r <=> at[r] \in {"looking", "storing"}
  /\ Asked(r) => sentAt[r] <= now
  /\ at[r] \in {"answered", "storing"} => sentAt[r] <= toldAt[r] /\ toldAt[r] <= now
  /\ at[r] = "storing" =>
       /\ now - sentAt[r] <= slowest
       /\ Elements(todo[r]) \subseteq Elements(missing[r])

(* How old a profile in an answer is while the request looks users up, and *)
(* how old it was when the batch-get was sent (less than nothing, for one  *)
(* that came with the reply).                                              *)
ProfileInv(r, u) ==
  /\ at[r] = "idle" => shown[r][u] = NotYet
  /\ shown[r][u] = Blank =>
       at[r] = "storing" /\ u \in Elements(missing[r]) /\ u \notin known[r]
  /\ shown[r][u] \in Times =>
       /\ at[r] = "looking" => now - shown[r][u] <= Ttl + slowest
       /\ Asked(r) => sentAt[r] - shown[r][u] <= Ttl + slowest

RequestInv ==
  /\ \A r \in Requests : FetchInv(r)
  /\ \A r \in Requests, u \in Users : ProfileInv(r, u)

IInv ==
  /\ CacheTypeOK
  /\ EntriesAge
  /\ SortedByUse
  /\ RequestInv

----------------------------------------------------------------------------
(* Removal of a key from the ordered dictionary.                           *)

(* The place of a cached user holds that user's entry.                     *)
LEMMA PlaceOfCached ==
  ASSUME CacheTypeOK, NEW u \in Cached(data)
  PROVE  Place(u) \in 1 .. Len(data) /\ data[Place(u)].user = u
  BY DEF Cached, Place

(* What Without keeps: the other entries, in their order.                  *)
LEMMA WithoutKeeps ==
  ASSUME CacheTypeOK, NEW u \in Users
  PROVE  /\ Without(u) \in Seq(Stored)
         /\ Len(Without(u)) <= Len(data)
         /\ u \in Cached(data) => Len(Without(u)) = Len(data) - 1
         /\ u \notin Cached(data) => Len(Without(u)) = Len(data)
         /\ \A j \in 1 .. Len(Without(u)) :
              /\ Source(u, j) \in 1 .. Len(data)
              /\ Without(u)[j] = data[Source(u, j)]
              /\ data[Source(u, j)].user # u
         /\ \A j, k \in 1 .. Len(Without(u)) : j < k => Source(u, j) < Source(u, k)
<1>t. data \in Seq(Stored)
  BY DEF CacheTypeOK, Stored
<1>1. CASE u \notin Cached(data)
  BY <1>1, <1>t DEF Without, Source, Cached
<1>2. CASE u \in Cached(data)
  <2> DEFINE n == Len(data)
             p == Place(u)
             W == [j \in 1 .. n - 1 |-> IF j < p THEN data[j] ELSE data[j + 1]]
  <2>1. p \in 1 .. n /\ data[p].user = u
    BY <1>2, PlaceOfCached
  <2>2. n \in Nat /\ n - 1 \in Nat /\ \A j \in 1 .. n : data[j] \in Stored
    <3> HIDE DEF p
    <3> QED BY <1>t, <2>1
  <2>3. Without(u) = W
    BY <1>2 DEF Without
  <2>4. \A j \in 1 .. n - 1 : W[j] \in Stored
    BY <2>1, <2>2
  <2>5. W \in Seq(Stored) /\ Len(W) = n - 1
    <3> HIDE DEF n, p
    <3> QED BY <2>2, <2>4
  <2>6. \A j \in 1 .. n - 1 : Source(u, j) = IF j < p THEN j ELSE j + 1
    BY <1>2 DEF Source
  <2>7. \A j \in 1 .. n - 1 : Source(u, j) \in 1 .. n /\ Source(u, j) # p
    <3> HIDE DEF n, p
    <3> QED BY <2>6, <2>1, <2>2
  <2>8. \A j \in 1 .. n - 1 : data[Source(u, j)].user # u
    BY <2>7, <2>1 DEF CacheTypeOK
  <2>9. \A j \in 1 .. n - 1 : W[j] = data[Source(u, j)]
    BY <2>6
  <2>10. \A j, k \in 1 .. n - 1 : j < k => Source(u, j) < Source(u, k)
    <3> HIDE DEF n, p
    <3> QED BY <2>6, <2>1, <2>2
  <2> HIDE DEF W
  <2> QED BY <1>2, <2>2, <2>3, <2>5, <2>7, <2>8, <2>9, <2>10
<1> QED BY <1>1, <1>2

(* Every other entry is kept.                                              *)
LEMMA WithoutLosesOne ==
  ASSUME CacheTypeOK, NEW u \in Users, NEW i \in 1 .. Len(data), data[i].user # u
  PROVE  \E j \in 1 .. Len(Without(u)) : Without(u)[j] = data[i]
<1>1. CASE u \notin Cached(data)
  BY <1>1 DEF Without
<1>2. CASE u \in Cached(data)
  <2>1. Place(u) \in 1 .. Len(data) /\ data[Place(u)].user = u
    BY <1>2, PlaceOfCached
  <2>2. Len(data) \in Nat /\ i # Place(u)
    BY <2>1 DEF CacheTypeOK
  <2>3. Without(u) = [j \in 1 .. Len(data) - 1 |-> IF j < Place(u) THEN data[j] ELSE data[j + 1]]
    BY <1>2 DEF Without
  <2>4. Len(Without(u)) = Len(data) - 1
    BY <1>2, WithoutKeeps
  <2>5. CASE i < Place(u)
    <3>1. i \in 1 .. Len(data) - 1
      BY <2>1, <2>2, <2>5
    <3> QED BY <3>1, <2>3, <2>4, <2>5
  <2>6. CASE i > Place(u)
    <3>1. i - 1 \in 1 .. Len(data) - 1 /\ ~(i - 1 < Place(u)) /\ (i - 1) + 1 = i
      BY <2>1, <2>2, <2>6
    <3> QED BY <3>1, <2>3, <2>4
  <2> QED BY <2>1, <2>2, <2>5, <2>6
<1> QED BY <1>1, <1>2

(* What the type invariant says of the entries, in the form the steps below need. *)
LEMMA EntryTypes ==
  ASSUME CacheTypeOK
  PROVE  /\ data \in Seq(Stored)
         /\ Len(data) \in Nat
         /\ \A i \in 1 .. Len(data) :
              data[i] \in Stored /\ data[i].user \in Users /\ data[i].ts \in Int
         /\ \A i, j \in 1 .. Len(data) : data[i].user = data[j].user => i = j
<1>1. /\ data \in Seq(Stored)
      /\ \A i, j \in 1 .. Len(data) : data[i].user = data[j].user => i = j
  BY DEF CacheTypeOK, Stored
<1>2. Len(data) \in Nat /\ \A i \in 1 .. Len(data) : data[i] \in Stored
  BY <1>1
<1>3. \A e \in Stored : e.user \in Users /\ e.ts \in Int
  BY DEF Stored, Times
<1> QED BY <1>1, <1>2, <1>3

(* Moving an entry to the end: the others keep their order, and the        *)
(* dictionary stays sorted by use.                                         *)
LEMMA MovedToEnd ==
  ASSUME CacheTypeOK, SortedByUse, NEW u \in Users, NEW e \in Stored, e.user = u, Use(u)
  PROVE  /\ Moved(u, e) \in Seq(Stored)
         /\ Len(Moved(u, e)) = Len(Without(u)) + 1
         /\ \A j \in 1 .. Len(Moved(u, e)) - 1 :
              Source(u, j) \in 1 .. Len(data) /\ Moved(u, e)[j] = data[Source(u, j)]
         /\ Moved(u, e)[Len(Moved(u, e))] = e
         /\ \A i, j \in 1 .. Len(Moved(u, e)) : Moved(u, e)[i].user = Moved(u, e)[j].user => i = j
         /\ \A i, j \in 1 .. Len(Moved(u, e)) :
              i < j => <<Moved(u, e)[j].user, Moved(u, e)[i].user>> \in newer'
         /\ newer' \subseteq Users \X Users
<1> DEFINE W == Without(u)
           m == Moved(u, e)
<1>1. /\ W \in Seq(Stored)
      /\ \A j \in 1 .. Len(W) :
           /\ Source(u, j) \in 1 .. Len(data)
           /\ W[j] = data[Source(u, j)]
           /\ data[Source(u, j)].user # u
      /\ \A j, k \in 1 .. Len(W) : j < k => Source(u, j) < Source(u, k)
  BY WithoutKeeps
<1>2. \A j \in 1 .. Len(W) : data[Source(u, j)].user \in Users
  BY <1>1, EntryTypes
<1>3. newer' = {p \in newer : u \notin {p[1], p[2]}} \cup ({u} \X (Users \ {u}))
  BY DEF Use
<1>4. newer' \subseteq Users \X Users
  BY <1>3 DEF CacheTypeOK
<1>5. \A v \in Users : v # u => <<u, v>> \in newer'
  BY <1>3
<1>6. \A v, w \in Users : v # u /\ w # u /\ <<v, w>> \in newer => <<v, w>> \in newer'
  BY <1>3
<1>7. \A i, j \in 1 .. Len(W) : i < j => <<W[j].user, W[i].user>> \in newer'
  <2> TAKE i, j \in 1 .. Len(W)
  <2> HAVE i < j
  <2>1. <<data[Source(u, j)].user, data[Source(u, i)].user>> \in newer
    BY <1>1 DEF SortedByUse
  <2> QED BY <2>1, <1>1, <1>2, <1>6
<1>8. \A i, j \in 1 .. Len(W) : W[i].user = W[j].user => i = j
  <2> TAKE i, j \in 1 .. Len(W)
  <2> HAVE W[i].user = W[j].user
  <2>1. Source(u, i) = Source(u, j)
    BY <1>1, EntryTypes
  <2>2. i \in Nat /\ j \in Nat /\ Source(u, i) \in Nat
    BY <1>1
  <2>3. ~(i < j) /\ ~(j < i)
    BY <2>1, <2>2, <1>1
  <2> QED BY <2>2, <2>3
<1>9. \A j \in 1 .. Len(W) : W[j].user \in Users /\ W[j].user # u
  BY <1>1, <1>2
<1> HIDE DEF W
<1>10. /\ m \in Seq(Stored)
       /\ Len(m) = Len(W) + 1
       /\ \A j \in 1 .. Len(W) : m[j] = W[j]
       /\ m[Len(m)] = e
       /\ Len(W) \in Nat
  BY <1>1 DEF W, Moved
<1> HIDE DEF m
<1>11. \A i, j \in 1 .. Len(m) : m[i].user = m[j].user => i = j
  <2> TAKE i, j \in 1 .. Len(m)
  <2>1. i \in 1 .. Len(W) \/ i = Len(m)
    BY <1>10
  <2>2. j \in 1 .. Len(W) \/ j = Len(m)
    BY <1>10
  <2> QED BY <2>1, <2>2, <1>8, <1>9, <1>10
<1>12. \A i, j \in 1 .. Len(m) : i < j => <<m[j].user, m[i].user>> \in newer'
  <2> TAKE i, j \in 1 .. Len(m)
  <2> HAVE i < j
  <2>1. i \in 1 .. Len(W) /\ (j \in 1 .. Len(W) \/ j = Len(m))
    BY <1>10
  <2>2. CASE j \in 1 .. Len(W)
    BY <2>1, <2>2, <1>7, <1>10
  <2>3. CASE j = Len(m)
    BY <2>1, <2>3, <1>5, <1>9, <1>10
  <2> QED BY <2>1, <2>2, <2>3
<1>13. Len(m) - 1 = Len(W)
  BY <1>10
<1> QED BY <1>1, <1>4, <1>10, <1>11, <1>12, <1>13 DEF W, m

(* What the cache promises of its data, whichever entry was put at its     *)
(* end, and whether or not the oldest had to go for it.                    *)
LEMMA EntryTaken ==
  ASSUME CacheTypeOK, EntriesAge, SortedByUse, NEW u \in Users,
         NEW e \in Stored, e.user = u, Use(u), now' = now, slowest' = slowest,
         e.asOf \in Times, e.asOf <= e.ts, e.ts <= now, e.ts - e.asOf <= slowest,
         data' = Moved(u, e) \/ (Len(Moved(u, e)) > 1 /\ data' = Tail(Moved(u, e)))
  PROVE  /\ data' \in Seq(Stored)
         /\ \A i, j \in 1 .. Len(data') : data'[i].user = data'[j].user => i = j
         /\ newer' \subseteq Users \X Users
         /\ EntriesAge'
         /\ SortedByUse'
<1>0. /\ Moved(u, e) \in Seq(Stored)
      /\ Len(Moved(u, e)) = Len(Without(u)) + 1
      /\ \A j \in 1 .. Len(Moved(u, e)) - 1 :
           Source(u, j) \in 1 .. Len(data) /\ Moved(u, e)[j] = data[Source(u, j)]
      /\ Moved(u, e)[Len(Moved(u, e))] = e
      /\ \A i, j \in 1 .. Len(Moved(u, e)) : Moved(u, e)[i].user = Moved(u, e)[j].user => i = j
      /\ \A i, j \in 1 .. Len(Moved(u, e)) : i < j => <<Moved(u, e)[j].user, Moved(u, e)[i].user>> \in newer'
      /\ newer' \subseteq Users \X Users
  BY ONLY MovedToEnd, CacheTypeOK, SortedByUse, u \in Users, e \in Stored, e.user = u, Use(u)
<1> DEFINE m == Moved(u, e)
<1>1. /\ m \in Seq(Stored)
      /\ \A j \in 1 .. Len(m) - 1 :
           Source(u, j) \in 1 .. Len(data) /\ m[j] = data[Source(u, j)]
      /\ m[Len(m)] = e
      /\ \A i, j \in 1 .. Len(m) : m[i].user = m[j].user => i = j
      /\ \A i, j \in 1 .. Len(m) : i < j => <<m[j].user, m[i].user>> \in newer'
      /\ newer' \subseteq Users \X Users
  BY ONLY <1>0
<1> HIDE DEF m
<1>2. Len(m) \in Nat
  BY <1>1
<1>3. \A j \in 1 .. Len(m) :
        /\ m[j].asOf \in Times /\ m[j].asOf <= m[j].ts
        /\ m[j].ts <= now /\ m[j].ts - m[j].asOf <= slowest
  <2> TAKE j \in 1 .. Len(m)
  <2>1. CASE j \in 1 .. Len(m) - 1
    BY <2>1, <1>1 DEF EntriesAge
  <2>2. CASE j = Len(m)
    BY <2>2, <1>1
  <2> QED BY <2>1, <2>2, <1>2
<1>4. CASE data' = m
  BY <1>4, <1>1, <1>3 DEF EntriesAge, SortedByUse
<1>5. CASE Len(m) > 1 /\ data' = Tail(m)
  <2>1. /\ data' \in Seq(Stored)
        /\ Len(data') = Len(m) - 1
        /\ \A i \in 1 .. Len(data') : i + 1 \in 1 .. Len(m) /\ data'[i] = m[i + 1]
    BY <1>5, <1>1, <1>2
  <2>2. \A i, j \in 1 .. Len(data') : data'[i].user = data'[j].user => i = j
    <3> TAKE i, j \in 1 .. Len(data')
    <3> HAVE data'[i].user = data'[j].user
    <3>1. /\ i + 1 \in 1 .. Len(m) /\ j + 1 \in 1 .. Len(m)
          /\ m[i + 1].user = m[j + 1].user
      BY <2>1
    <3>2. i + 1 = j + 1
      BY ONLY <3>1, <1>1
    <3> QED BY <3>2
  <2>3. EntriesAge'
    BY <2>1, <1>3 DEF EntriesAge
  <2>4. SortedByUse'
    <3>1. \A i, j \in 1 .. Len(data') : i < j => i + 1 < j + 1
      OBVIOUS
    <3> QED BY <3>1, <2>1, <1>1 DEF SortedByUse
  <2> QED BY <2>1, <2>2, <2>3, <2>4, <1>1
<1> QED BY <1>4, <1>5 DEF m

(* Without an entry, the rest promises the same.                           *)
LEMMA EntryRemoved ==
  ASSUME CacheTypeOK, EntriesAge, SortedByUse, NEW u \in Users,
         data' = Without(u), newer' = newer, now' = now, slowest' = slowest
  PROVE  /\ data' \in Seq(Stored)
         /\ Len(data') <= Len(data)
         /\ \A i, j \in 1 .. Len(data') : data'[i].user = data'[j].user => i = j
         /\ EntriesAge'
         /\ SortedByUse'
<1>1. /\ data' \in Seq(Stored)
      /\ Len(data') <= Len(data)
      /\ \A j \in 1 .. Len(data') :
           Source(u, j) \in 1 .. Len(data) /\ data'[j] = data[Source(u, j)]
      /\ \A j, k \in 1 .. Len(data') : j < k => Source(u, j) < Source(u, k)
  BY WithoutKeeps
<1>2. \A i, j \in 1 .. Len(data') : data'[i].user = data'[j].user => i = j
  <2> TAKE i, j \in 1 .. Len(data')
  <2> HAVE data'[i].user = data'[j].user
  <2>1. Source(u, i) = Source(u, j)
    BY <1>1, EntryTypes
  <2>2. i \in Int /\ j \in Int /\ ~(i < j) /\ ~(j < i)
    BY <2>1, <1>1
  <2> QED BY <2>2
<1> QED BY <1>1, <1>2 DEF EntriesAge, SortedByUse

----------------------------------------------------------------------------
(* The steps.                                                              *)

DataInv ==
  /\ data \in Seq(Stored)
  /\ Len(data) <= Capacity
  /\ \A i, j \in 1 .. Len(data) : data[i].user = data[j].user => i = j
  /\ newer \subseteq Users \X Users
  /\ EntriesAge
  /\ SortedByUse

(* The user a loop treats.                                                 *)
LEMMA TreatedUser ==
  ASSUME CacheTypeOK, NEW r \in Requests, NEW where, Treat(r, where)
  PROVE  /\ Head(todo[r]) \in Users
         /\ todo' \in [Requests -> Seq(Users)]
  BY DEF CacheTypeOK, Treat

(* Serving an entry moves it to the end: order, ages and history agree.    *)
LEMMA HitKeepsData ==
  ASSUME IInv, NEW r \in Requests, Hit(r)
  PROVE  DataInv'
<1> DEFINE u == Head(todo[r])
           e == data[Place(u)]
           m == Moved(u, e)
<1>1. u \in Users /\ u \in Cached(data) /\ Use(u) /\ now' = now /\ slowest' = slowest /\ data' = m
  BY TreatedUser DEF IInv, Hit, Treat, Served, Moved
<1>2. Place(u) \in 1 .. Len(data) /\ e.user = u
  BY <1>1, PlaceOfCached DEF IInv
<1>3. /\ e \in Stored /\ e.asOf \in Times /\ e.asOf <= e.ts /\ e.ts <= now
      /\ e.ts - e.asOf <= slowest
  BY <1>2, EntryTypes DEF IInv, EntriesAge
<1>4. Len(Without(u)) = Len(data) - 1 /\ Len(m) = Len(Without(u)) + 1
  <2> HIDE DEF u, e, m
  <2> QED BY <1>1, <1>2, <1>3, WithoutKeeps, MovedToEnd DEF IInv, m
<1> HIDE DEF u, e
<1>5. /\ data' \in Seq(Stored)
      /\ \A i, j \in 1 .. Len(data') : data'[i].user = data'[j].user => i = j
      /\ newer' \subseteq Users \X Users
      /\ EntriesAge'
      /\ SortedByUse'
  BY <1>1, <1>2, <1>3, EntryTaken DEF IInv
<1>6. Len(data) <= Capacity /\ Len(data) \in Nat
  BY EntryTypes DEF IInv, CacheTypeOK
<1>7. Len(data') <= Capacity
  <2> HIDE DEF m
  <2> QED BY <1>1, <1>4, <1>6
<1> QED BY <1>5, <1>7 DEF DataInv

(* Storing an entry, with or without an eviction, keeps order and ages.    *)
LEMMA StoreKeepsData ==
  ASSUME IInv, NEW r \in Requests, StoreOne(r)
  PROVE  DataInv'
<1> DEFINE u == Head(todo[r])
           e == [user |-> u, ts |-> now, asOf |-> toldAt[r]]
           m == Moved(u, e)
<1>1. /\ u \in Users /\ Use(u) /\ now' = now /\ slowest' = slowest /\ at[r] = "storing"
      /\ data' = IF Len(m) > Capacity THEN Tail(m) ELSE m
  BY TreatedUser DEF IInv, StoreOne, Treat, Put, Moved
<1>2. /\ toldAt[r] \in Times /\ now \in Times /\ sentAt[r] \in Times /\ slowest \in Times
      /\ sentAt[r] <= toldAt[r] /\ toldAt[r] <= now /\ now - sentAt[r] <= slowest
  BY <1>1 DEF IInv, CacheTypeOK, RequestInv, FetchInv
<1>3. /\ e \in Stored /\ e.user = u /\ e.asOf \in Times /\ e.asOf <= e.ts /\ e.ts <= now
      /\ e.ts - e.asOf <= slowest
  BY <1>1, <1>2, BoundsAssumption DEF Stored, Times
<1>4. m \in Seq(Stored) /\ Len(Without(u)) <= Len(data) /\ Len(m) = Len(Without(u)) + 1
  <2> HIDE DEF u, e, m
  <2> QED BY <1>1, <1>3, WithoutKeeps, MovedToEnd DEF IInv, m
<1>5. Len(data) <= Capacity /\ Len(data) \in Nat /\ Capacity \in Nat /\ Capacity >= 1
  BY EntryTypes, BoundsAssumption DEF IInv, CacheTypeOK
<1> HIDE DEF u, e
<1>6. data' = m \/ (Len(m) > 1 /\ data' = Tail(m))
  <2> HIDE DEF m
  <2> QED BY <1>1, <1>4, <1>5
<1>7. /\ data' \in Seq(Stored)
      /\ \A i, j \in 1 .. Len(data') : data'[i].user = data'[j].user => i = j
      /\ newer' \subseteq Users \X Users
      /\ EntriesAge'
      /\ SortedByUse'
  BY <1>1, <1>3, <1>6, EntryTaken DEF IInv
<1>8. Len(data') <= Capacity
  <2> HIDE DEF m
  <2>1. Len(m) \in Nat /\ Len(m) <= Capacity + 1
    BY <1>4, <1>5
  <2>2. CASE Len(m) > Capacity
    <3>1. Len(Tail(m)) = Len(m) - 1
      BY <1>4, <1>5, <2>2
    <3> QED BY <3>1, <2>1, <2>2, <1>1, <1>5
  <2>3. CASE ~(Len(m) > Capacity)
    BY <2>1, <2>3, <1>1, <1>5
  <2> QED BY <2>2, <2>3
<1> QED BY <1>7, <1>8 DEF DataInv

(* Removing an expired entry keeps the order of the others.                *)
LEMMA ExpiryKeepsData ==
  ASSUME IInv, NEW r \in Requests, Expired(r)
  PROVE  DataInv'
<1>1. /\ Head(todo[r]) \in Users /\ data' = Without(Head(todo[r]))
      /\ newer' = newer /\ now' = now /\ slowest' = slowest
  BY TreatedUser DEF IInv, Expired, Treat
<1>2. /\ data' \in Seq(Stored)
      /\ Len(data') <= Len(data)
      /\ \A i, j \in 1 .. Len(data') : data'[i].user = data'[j].user => i = j
      /\ EntriesAge'
      /\ SortedByUse'
  BY <1>1, EntryRemoved DEF IInv
<1>3. Len(data) <= Capacity /\ Len(data) \in Nat /\ Len(data') \in Nat /\ Capacity \in Nat
  BY <1>2, EntryTypes, BoundsAssumption DEF IInv, CacheTypeOK
<1>4. Len(data') <= Capacity
  BY <1>2, <1>3
<1> QED BY <1>1, <1>2, <1>4 DEF DataInv, IInv, CacheTypeOK

(* Time passing, and batch-gets lasting longer, disturb nothing said of    *)
(* the entries.                                                            *)
LEMMA ClockKeepsData ==
  ASSUME IInv, data' = data, newer' = newer, now' \in Times, now <= now',
         slowest' \in Times, slowest <= slowest'
  PROVE  DataInv'
<1>1. now \in Nat /\ now' \in Nat /\ slowest \in Nat /\ slowest' \in Nat
  BY BoundsAssumption DEF IInv, CacheTypeOK, Times
<1>2. \A i \in 1 .. Len(data) : data[i].ts \in Int
  BY EntryTypes DEF IInv
<1>3. EntriesAge'
  BY <1>1, <1>2 DEF IInv, EntriesAge, Times
<1>4. SortedByUse' /\ newer' \subseteq Users \X Users
  BY DEF IInv, SortedByUse, CacheTypeOK
<1>5. data' \in Seq(Stored) /\ Len(data') <= Capacity
  BY EntryTypes DEF IInv, CacheTypeOK
<1>6. \A i, j \in 1 .. Len(data') : data'[i].user = data'[j].user => i = j
  BY DEF IInv, CacheTypeOK
<1> QED BY <1>3, <1>4, <1>5, <1>6 DEF DataInv

(* A batch-get that is over makes the slowest one slower, or is no slower. *)
LEMMA LongerOrNot ==
  ASSUME IInv, NEW r \in Requests, Resume(r)
  PROVE  /\ now \in Times /\ now <= now
         /\ slowest' \in Times /\ slowest <= slowest' /\ now - sentAt[r] <= slowest'
<1>1. at[r] = "answered" /\ Waited(r) = now - sentAt[r]
  BY DEF Resume, Waited
<1>2. /\ now \in Times /\ slowest \in Times /\ sentAt[r] \in Times /\ sentAt[r] <= now
      /\ MaxTime \in Nat
  BY <1>1, BoundsAssumption DEF IInv, CacheTypeOK, RequestInv, FetchInv, Asked
<1>3. now - sentAt[r] \in Times
  BY <1>2 DEF Times
<1>4. slowest' = IF now - sentAt[r] > slowest THEN now - sentAt[r] ELSE slowest
  BY <1>1 DEF Resume
<1> QED BY <1>2, <1>3, <1>4 DEF Times

(* Every step keeps what is said of the cache.                             *)
LEMMA DataKept ==
  ASSUME IInv, [Next]_vars
  PROVE  DataInv'
<1>1. CASE Tick
  <2>1. /\ data' = data /\ newer' = newer /\ now' = now + 1 /\ now < MaxTime
        /\ slowest' = slowest
    BY <1>1 DEF Tick
  <2>2. now' \in Times /\ now <= now' /\ slowest' \in Times /\ slowest <= slowest'
    BY <2>1, BoundsAssumption DEF IInv, CacheTypeOK, Times
  <2> QED BY <2>1, <2>2, ClockKeepsData
<1>2. ASSUME NEW r \in Requests, Hit(r) \/ StoreOne(r) \/ Expired(r)
      PROVE  DataInv'
  BY <1>2, HitKeepsData, StoreKeepsData, ExpiryKeepsData
<1>3. ASSUME NEW r \in Requests,
             \/ ListMembers(r) \/ Miss(r) \/ Ask(r) \/ PlatformReads(r)
             \/ BlankOne(r) \/ Answer(r)
      PROVE  DataInv'
  <2>1. data' = data /\ newer' = newer /\ now' = now /\ slowest' = slowest
    BY <1>3 DEF ListMembers, Miss, Ask, PlatformReads, BlankOne, Answer, Treat, NotStored
  <2>2. now \in Times /\ now <= now /\ slowest \in Times /\ slowest <= slowest
    BY BoundsAssumption DEF IInv, CacheTypeOK, Times
  <2> QED BY <2>1, <2>2, ClockKeepsData
<1>4. ASSUME NEW r \in Requests, Resume(r)
      PROVE  DataInv'
  <2>1. data' = data /\ newer' = newer /\ now' = now
    BY <1>4 DEF Resume
  <2>2. now \in Times /\ now <= now /\ slowest' \in Times /\ slowest <= slowest'
    BY <1>4, LongerOrNot
  <2> QED BY <2>1, <2>2, ClockKeepsData
<1>5. CASE UNCHANGED vars
  <2>1. data' = data /\ newer' = newer /\ now' = now /\ slowest' = slowest
    BY <1>5 DEF vars
  <2>2. now \in Times /\ now <= now /\ slowest \in Times /\ slowest <= slowest
    BY BoundsAssumption DEF IInv, CacheTypeOK, Times
  <2> QED BY <2>1, <2>2, ClockKeepsData
<1> QED BY <1>1, <1>2, <1>3, <1>4, <1>5 DEF Next

(* Types of what belongs to the requests.                                  *)
RequestTypes ==
  /\ now \in Times
  /\ busy \in Requests \cup {Nobody}
  /\ at \in [Requests -> {"idle", "looking", "fetching", "answered", "storing"}]
  /\ todo \in [Requests -> Seq(Users)]
  /\ missing \in [Requests -> Seq(Users)]
  /\ sentAt \in [Requests -> Times]
  /\ slowest \in Times
  /\ toldAt \in [Requests -> Times]
  /\ known \in [Requests -> SUBSET Users]
  /\ shown \in [Requests -> [Users -> Times \cup {Blank, NotYet}]]

(* The types of the requests apart from those of the cache.                *)
LEMMA TypesSplit == CacheTypeOK <=>
  /\ RequestTypes
  /\ data \in Seq(Stored)
  /\ Len(data) <= Capacity
  /\ \A i, j \in 1 .. Len(data) : data[i].user = data[j].user => i = j
  /\ newer \subseteq Users \X Users
  BY DEF CacheTypeOK, RequestTypes, Stored

(* Every step keeps the types of the requests.                             *)
LEMMA TypesKept ==
  ASSUME IInv, [Next]_vars
  PROVE  RequestTypes'
<1>0. RequestTypes
  BY TypesSplit DEF IInv
<1>1. CASE Tick
  BY <1>0, <1>1, BoundsAssumption DEF Tick, RequestTypes, Times, request
<1>2. ASSUME NEW r \in Requests, ListMembers(r)
      PROVE  RequestTypes'
  <2>1. \A s \in MemberLists : s \in Seq(Users)
    BY DEF MemberLists
  <2> QED BY <1>0, <1>2, <2>1 DEF ListMembers, RequestTypes
<1>3. ASSUME NEW r \in Requests, Hit(r)
      PROVE  RequestTypes'
  <2>1. Head(todo[r]) \in Users /\ todo' \in [Requests -> Seq(Users)]
    BY <1>3, TreatedUser DEF Hit, IInv
  <2>2. data[Place(Head(todo[r]))].asOf \in Times
    BY <1>3, PlaceOfCached DEF Hit, IInv, EntriesAge
  <2> QED BY <1>0, <1>3, <2>1, <2>2 DEF Hit, Treat, RequestTypes
<1>4. ASSUME NEW r \in Requests, Expired(r) \/ Miss(r)
      PROVE  RequestTypes'
  <2>1. Head(todo[r]) \in Users /\ todo' \in [Requests -> Seq(Users)]
    BY <1>4, TreatedUser DEF Expired, Miss, IInv
  <2>2. missing' = [missing EXCEPT ![r] = Append(missing[r], Head(todo[r]))]
    BY <1>4 DEF Expired, Miss
  <2>3. missing' \in [Requests -> Seq(Users)]
    BY <1>0, <2>1, <2>2 DEF RequestTypes
  <2>4. UNCHANGED <<now, busy, at, sentAt, slowest, toldAt, known, shown>>
    BY <1>4 DEF Expired, Miss, Treat
  <2> QED BY <1>0, <2>1, <2>3, <2>4 DEF RequestTypes
<1>5. ASSUME NEW r \in Requests, Ask(r) \/ Resume(r)
      PROVE  RequestTypes'
  <2>1. CASE Ask(r)
    BY <1>0, <2>1 DEF Ask, RequestTypes
  <2>2. CASE Resume(r)
    <3>1. slowest' \in Times
      BY <2>2, LongerOrNot
    <3> QED BY <1>0, <2>2, <3>1 DEF Resume, RequestTypes
  <2> QED BY <1>5, <2>1, <2>2
<1>6. ASSUME NEW r \in Requests, PlatformReads(r)
      PROVE  RequestTypes'
  <2>1. Elements(missing[r]) \subseteq Users
    BY <1>0 DEF Elements, RequestTypes
  <2> QED BY <1>0, <1>6, <2>1 DEF PlatformReads, RequestTypes
<1>7. ASSUME NEW r \in Requests, StoreOne(r) \/ BlankOne(r)
      PROVE  RequestTypes'
  <2>1. Head(todo[r]) \in Users /\ todo' \in [Requests -> Seq(Users)]
    BY <1>7, TreatedUser DEF StoreOne, BlankOne, IInv
  <2>2. PICK x \in Times \cup {Blank} : shown' = [shown EXCEPT ![r][Head(todo[r])] = x]
    BY <1>0, <1>7 DEF StoreOne, BlankOne, RequestTypes
  <2>3. shown' \in [Requests -> [Users -> Times \cup {Blank, NotYet}]]
    BY <1>0, <2>1, <2>2 DEF RequestTypes
  <2>4. UNCHANGED <<now, busy, at, sentAt, slowest, toldAt, known>> /\ missing' = missing
    BY <1>7 DEF StoreOne, BlankOne, Treat
  <2> QED BY <1>0, <2>1, <2>3, <2>4 DEF RequestTypes
<1>8. ASSUME NEW r \in Requests, Answer(r)
      PROVE  RequestTypes'
  <2>1. 0 \in Times
    BY BoundsAssumption DEF Times
  <2> QED BY <1>0, <1>8, <2>1 DEF Answer, RequestTypes, NoProfiles
<1>9. CASE UNCHANGED vars
  BY <1>0, <1>9 DEF vars, RequestTypes
<1> QED BY <1>1, <1>2, <1>3, <1>4, <1>5, <1>6, <1>7, <1>8, <1>9 DEF Next

(* One request, when the step is the clock's, another's, or none.          *)
LEMMA ClockKeepsRequests ==
  ASSUME IInv, Tick, NEW r \in Requests, NEW u \in Users
  PROVE  FetchInv(r)' /\ ProfileInv(r, u)'
<1>1. RequestTypes /\ FetchInv(r) /\ ProfileInv(r, u)
  BY TypesSplit DEF IInv, RequestInv
<1>2. /\ busy = Nobody /\ now' = now + 1
      /\ UNCHANGED <<busy, at, todo, missing, sentAt, slowest, toldAt, known, shown>>
  BY DEF Tick, request
<1>3. at[r] \in {"idle", "fetching", "answered"}
  BY <1>1, <1>2, NobodyAssumption DEF RequestTypes, FetchInv
<1>4. now \in Int /\ sentAt[r] \in Int /\ toldAt[r] \in Int /\ Ttl \in Int /\ slowest \in Int
  BY <1>1, BoundsAssumption DEF RequestTypes, Times
<1>5. shown[r][u] \in Times => shown[r][u] \in Int /\ shown[r][u] # NotYet
  BY BoundsAssumption DEF Times, NotYet
<1>6. FetchInv(r)'
  BY <1>1, <1>2, <1>3, <1>4 DEF FetchInv, Asked
<1>7. ProfileInv(r, u)'
  BY <1>1, <1>2, <1>3, <1>4, <1>5 DEF FetchInv, ProfileInv, Asked
<1> QED BY <1>6, <1>7

(* A request keeps what is said of it when another has the event loop.     *)
LEMMA OthersKeepRequest ==
  ASSUME IInv, NEW r \in Requests, NEW q \in Requests, q # r,
         busy' = busy \/ ({busy, busy'} \subseteq {r, Nobody}), now' = now,
         slowest' \in Times, slowest <= slowest',
         UNCHANGED <<at[q], todo[q], missing[q], sentAt[q], toldAt[q], known[q], shown[q]>>,
         NEW u \in Users
  PROVE  FetchInv(q)' /\ ProfileInv(q, u)'
<1>1. FetchInv(q) /\ ProfileInv(q, u)
  BY DEF IInv, RequestInv
<1>2. busy' = q <=> busy = q
  BY NobodyAssumption
<1>3. /\ now \in Int /\ sentAt[q] \in Int /\ Ttl \in Int /\ slowest \in Int /\ slowest' \in Int
      /\ shown[q][u] \in Times => shown[q][u] \in Int
  BY BoundsAssumption DEF IInv, CacheTypeOK, Times
<1> QED BY <1>1, <1>2, <1>3 DEF FetchInv, ProfileInv, Asked

(* A request that begins one of its loops has shown nothing false.         *)
LEMMA OwnLoopBegins ==
  ASSUME IInv, NEW r \in Requests, ListMembers(r) \/ Resume(r), NEW u \in Users
  PROVE  FetchInv(r)' /\ ProfileInv(r, u)'
<1>1. RequestTypes /\ FetchInv(r) /\ ProfileInv(r, u)
  BY TypesSplit DEF IInv, RequestInv
<1>2. /\ now \in Int /\ sentAt[r] \in Int /\ toldAt[r] \in Int /\ Ttl \in Int /\ slowest \in Int
      /\ NotYet \notin Times /\ NotYet # Blank
  BY <1>1, BoundsAssumption DEF RequestTypes, Times, NotYet, Blank
<1>3. CASE ListMembers(r)
  <2>1. /\ busy' = r /\ at'[r] = "looking" /\ at[r] = "idle"
        /\ UNCHANGED <<now, shown>>
    BY <1>1, <1>3 DEF ListMembers, RequestTypes
  <2> QED BY <1>1, <1>2, <2>1 DEF FetchInv, ProfileInv, Asked
<1>4. CASE Resume(r)
  <2>1. /\ busy' = r /\ at'[r] = "storing" /\ at[r] = "answered" /\ todo'[r] = missing[r]
        /\ UNCHANGED <<now, missing, sentAt, toldAt, known, shown>>
    BY <1>1, <1>4 DEF Resume, RequestTypes
  <2>2. shown[r][u] \in Times => shown[r][u] \in Int
    BY DEF Times
  <2>3. slowest' \in Int /\ slowest <= slowest' /\ now - sentAt[r] <= slowest'
    BY <1>4, LongerOrNot DEF Times
  <2> QED BY <1>1, <1>2, <2>1, <2>2, <2>3 DEF FetchInv, ProfileInv, Asked
<1> QED BY <1>3, <1>4

(* A profile served from the cache is as fresh as the entry, and a miss is noted. *)
LEMMA OwnLookup ==
  ASSUME IInv, NEW r \in Requests, Hit(r) \/ Expired(r) \/ Miss(r), NEW u \in Users
  PROVE  FetchInv(r)' /\ ProfileInv(r, u)'
<1> DEFINE v == Head(todo[r])
<1>1. RequestTypes /\ FetchInv(r) /\ ProfileInv(r, u)
  BY TypesSplit DEF IInv, RequestInv
<1>2. /\ v \in Users /\ busy = r /\ at[r] = "looking"
      /\ UNCHANGED <<now, busy, at, sentAt, slowest, toldAt, known>>
  BY TreatedUser DEF IInv, Hit, Expired, Miss, Treat
<1>3. FetchInv(r)'
  BY <1>1, <1>2 DEF FetchInv, Asked
<1>4. CASE shown' = shown
  BY <1>1, <1>2, <1>3, <1>4 DEF ProfileInv, Asked
<1>5. CASE Hit(r)
  <2>1. /\ shown' = [shown EXCEPT ![r][v] = data[Place(v)].asOf]
        /\ Place(v) \in 1 .. Len(data)
        /\ now - data[Place(v)].ts <= Ttl
    BY <1>5, PlaceOfCached DEF Hit, Fresh, IInv
  <2> DEFINE e == data[Place(v)]
  <2>2. /\ e.asOf \in Times /\ e.asOf <= e.ts /\ e.ts <= now /\ e.ts - e.asOf <= slowest
        /\ e.ts \in Int
    BY <2>1, EntryTypes DEF IInv, EntriesAge
  <2>3. /\ now \in Int /\ Ttl \in Int /\ slowest \in Int /\ slowest >= 0
        /\ e.asOf \in Int /\ e.asOf # Blank /\ e.asOf # NotYet
    <3>1. /\ now \in Int /\ Ttl \in Int /\ slowest \in Int /\ slowest >= 0
      BY <1>1, BoundsAssumption DEF RequestTypes, Times
    <3>2. e.asOf \in Times
      BY <2>2
    <3> HIDE DEF e
    <3>3. e.asOf \in Int /\ e.asOf # Blank /\ e.asOf # NotYet
      BY ONLY <3>2, BoundsAssumption DEF Times, Blank, NotYet
    <3> QED BY <3>1, <3>3
  <2>4. shown'[r][v] = e.asOf /\ (u # v => shown'[r][u] = shown[r][u])
    BY <1>1, <1>2, <2>1 DEF RequestTypes
  <2>5. CASE u = v
    <3>1. now - e.ts <= Ttl
      BY <2>1
    <3> HIDE DEF v, e
    <3>2. now - e.asOf <= Ttl + slowest
      BY <2>2, <2>3, <3>1
    <3> QED BY <1>2, <1>3, <2>3, <2>4, <2>5, <3>2 DEF ProfileInv, Asked
  <2>6. CASE u # v
    <3>1. shown'[r][u] = Blank => FALSE
      BY <1>1, <1>2, <2>4, <2>6 DEF ProfileInv
    <3> QED BY <1>1, <1>2, <1>3, <2>4, <2>6, <3>1 DEF ProfileInv, Asked
  <2> QED BY <2>5, <2>6
<1> QED BY <1>3, <1>4, <1>5 DEF Expired, Miss

(* The question is sent and read; what is shown already was young enough.  *)
LEMMA OwnFetch ==
  ASSUME IInv, NEW r \in Requests, Ask(r) \/ PlatformReads(r), NEW u \in Users
  PROVE  FetchInv(r)' /\ ProfileInv(r, u)'
<1>1. RequestTypes /\ FetchInv(r) /\ ProfileInv(r, u)
  BY TypesSplit DEF IInv, RequestInv
<1>2. /\ now \in Int /\ Ttl \in Int /\ slowest \in Int /\ slowest >= 0
      /\ shown[r][u] \in Times => shown[r][u] \in Int
  BY <1>1, BoundsAssumption DEF RequestTypes, Times
<1>3. CASE Ask(r)
  <2>1. /\ at[r] = "looking" /\ at'[r] = "fetching" /\ busy' = Nobody /\ sentAt'[r] = now
        /\ UNCHANGED <<now, missing, slowest, toldAt, known, shown>>
    BY <1>1, <1>3 DEF Ask, RequestTypes
  <2> QED BY <1>1, <1>2, <2>1, NobodyAssumption DEF FetchInv, ProfileInv, Asked
<1>4. CASE PlatformReads(r)
  <2>1. /\ at[r] = "fetching" /\ at'[r] = "answered" /\ toldAt'[r] = now
        /\ UNCHANGED <<now, busy, todo, missing, sentAt, slowest, shown>>
    BY <1>1, <1>4 DEF PlatformReads, RequestTypes
  <2> QED BY <1>1, <1>2, <2>1 DEF FetchInv, ProfileInv, Asked
<1> QED BY <1>3, <1>4

(* A stored profile is as old as the reply; a blank one was asked for in vain. *)
LEMMA OwnReply ==
  ASSUME IInv, NEW r \in Requests, StoreOne(r) \/ BlankOne(r), NEW u \in Users
  PROVE  FetchInv(r)' /\ ProfileInv(r, u)'
<1> DEFINE v == Head(todo[r])
<1>1. RequestTypes /\ FetchInv(r) /\ ProfileInv(r, u)
  BY TypesSplit DEF IInv, RequestInv
<1>2. /\ v \in Users /\ busy = r /\ at[r] = "storing" /\ todo[r] # <<>>
      /\ todo'[r] = Tail(todo[r])
      /\ UNCHANGED <<now, busy, at, sentAt, slowest, toldAt, known, missing>>
  BY <1>1, TreatedUser DEF IInv, StoreOne, BlankOne, Treat, RequestTypes
<1>3. v \in Elements(todo[r]) /\ Elements(todo'[r]) \subseteq Elements(todo[r])
  <2>1. todo[r] \in Seq(Users)
    BY <1>1 DEF RequestTypes
  <2> QED BY <2>1, <1>2 DEF Elements
<1>4. FetchInv(r)'
  BY <1>1, <1>2, <1>3 DEF FetchInv, Asked
<1>5. /\ now \in Int /\ Ttl \in Int /\ Ttl >= 0 /\ slowest \in Int /\ slowest >= 0
      /\ toldAt[r] \in Times /\ toldAt[r] \in Int /\ toldAt[r] # Blank /\ Blank \notin Times
  BY <1>1, BoundsAssumption DEF RequestTypes, Times, Blank
<1>6. PICK x : /\ shown' = [shown EXCEPT ![r][v] = x]
               /\ x = toldAt[r] \/ (x = Blank /\ v \notin known[r])
  BY DEF StoreOne, BlankOne
<1>7. shown'[r][v] = x /\ (u # v => shown'[r][u] = shown[r][u])
  BY <1>1, <1>2, <1>6 DEF RequestTypes
<1> HIDE DEF v
<1>8. CASE u = v
  <2>1. v \in Elements(missing[r]) /\ sentAt[r] <= toldAt[r] /\ sentAt[r] \in Int
    BY <1>1, <1>2, <1>3, <1>5 DEF FetchInv, RequestTypes, Times
  <2> QED BY <1>2, <1>4, <1>5, <1>6, <1>7, <1>8, <2>1 DEF ProfileInv, Asked
<1>9. CASE u # v
  BY <1>1, <1>2, <1>4, <1>7, <1>9 DEF ProfileInv, Asked
<1> QED BY <1>8, <1>9

(* An answered request claims nothing more.                                *)
LEMMA OwnAnswer ==
  ASSUME IInv, NEW r \in Requests, Answer(r), NEW u \in Users
  PROVE  FetchInv(r)' /\ ProfileInv(r, u)'
<1>1. RequestTypes
  BY TypesSplit DEF IInv
<1>2. busy' = Nobody /\ at'[r] = "idle" /\ shown'[r][u] = NotYet
  BY <1>1 DEF Answer, RequestTypes, NoProfiles
<1>3. NotYet # Blank /\ NotYet \notin Times
  BY DEF NotYet, Blank, Times
<1> QED BY <1>2, <1>3, NobodyAssumption DEF FetchInv, ProfileInv, Asked

(* Every step keeps what is said of the requests.                          *)
LEMMA RequestsKept ==
  ASSUME IInv, [Next]_vars
  PROVE  RequestInv'
<1> SUFFICES ASSUME NEW q \in Requests, NEW u \in Users
             PROVE  FetchInv(q)' /\ ProfileInv(q, u)'
  BY UsersAssumption DEF RequestInv
<1>1. CASE Tick
  BY <1>1, ClockKeepsRequests
<1>2. ASSUME NEW r \in Requests,
             \/ ListMembers(r) \/ Hit(r) \/ Expired(r) \/ Miss(r) \/ Ask(r)
             \/ PlatformReads(r) \/ Resume(r) \/ StoreOne(r) \/ BlankOne(r) \/ Answer(r)
      PROVE  FetchInv(q)' /\ ProfileInv(q, u)'
  <2>1. CASE q = r
    BY <1>2, <2>1, OwnLoopBegins, OwnLookup, OwnFetch, OwnReply, OwnAnswer
  <2>2. CASE q # r
    <3>1. RequestTypes
      BY TypesSplit DEF IInv
    <3>2. busy' = busy \/ ({busy, busy'} \subseteq {r, Nobody})
      BY <1>2 DEF ListMembers, Hit, Expired, Miss, Ask, PlatformReads, Resume, StoreOne,
                  BlankOne, Answer, Treat
    <3>3. /\ now' = now /\ slowest' \in Times /\ slowest <= slowest'
          /\ UNCHANGED <<at[q], todo[q], missing[q], sentAt[q], toldAt[q], known[q], shown[q]>>
      <4>1. CASE ListMembers(r) \/ Ask(r) \/ PlatformReads(r) \/ Resume(r) \/ Answer(r)
        <5>1. slowest' \in Times /\ slowest <= slowest'
          BY <3>1, <4>1, LongerOrNot
             DEF ListMembers, Ask, PlatformReads, Answer, RequestTypes, Times
        <5> QED BY <3>1, <4>1, <5>1, <2>2
           DEF ListMembers, Ask, PlatformReads, Resume, Answer, RequestTypes
      <4>2. CASE Hit(r) \/ Expired(r) \/ Miss(r) \/ StoreOne(r) \/ BlankOne(r)
        <5>1. now' = now /\ slowest' = slowest /\ UNCHANGED <<sentAt, toldAt, known>>
          BY <4>2 DEF Hit, Expired, Miss, StoreOne, BlankOne, Treat
        <5>2. slowest \in Times /\ slowest <= slowest
          BY <3>1 DEF RequestTypes, Times
        <5>3. UNCHANGED <<at[q], todo[q]>>
          BY <3>1, <4>2, <2>2 DEF Hit, Expired, Miss, StoreOne, BlankOne, Treat, RequestTypes
        <5>4. UNCHANGED <<missing[q], shown[q]>>
          BY <3>1, <4>2, <2>2 DEF Hit, Expired, Miss, StoreOne, BlankOne, RequestTypes
        <5> QED BY <5>1, <5>2, <5>3, <5>4
      <4> QED BY <1>2, <4>1, <4>2
    <3> QED BY <3>2, <3>3, <2>2, OthersKeepRequest
  <2> QED BY <2>1, <2>2
<1>3. CASE UNCHANGED vars
  BY <1>3 DEF vars, IInv, RequestInv, FetchInv, ProfileInv, Asked
<1> QED BY <1>1, <1>2, <1>3 DEF Next

(* The invariant holds initially.                                          *)
LEMMA Initially == Init => IInv
<1> SUFFICES ASSUME Init PROVE IInv
  OBVIOUS
<1>1. 0 \in Times /\ NotYet # Blank /\ NotYet \notin Times
  BY BoundsAssumption DEF Times, NotYet, Blank
<1>2. /\ data \in Seq(Stored) /\ Len(data) = 0 /\ Len(data) <= Capacity
      /\ \A i \in 1 .. Len(data) : FALSE
  BY BoundsAssumption DEF Init
<1>3. RequestTypes
  BY <1>1 DEF Init, RequestTypes, NoProfiles
<1>4. CacheTypeOK /\ EntriesAge /\ SortedByUse
  BY <1>2, <1>3, TypesSplit DEF EntriesAge, SortedByUse, Init
<1>5. RequestInv
  BY <1>1, NobodyAssumption DEF Init, RequestInv, FetchInv, ProfileInv, Asked, NoProfiles
<1> QED BY <1>4, <1>5 DEF IInv

(* The inductive invariant holds.                                          *)
THEOREM CacheInvariantHolds == Spec => []IInv
<1>1. IInv /\ [Next]_vars => IInv'
  <2> SUFFICES ASSUME IInv, [Next]_vars PROVE IInv'
    OBVIOUS
  <2>1. DataInv' /\ RequestTypes' /\ RequestInv'
    BY DataKept, TypesKept, RequestsKept
  <2>2. CacheTypeOK'
    BY <2>1 DEF DataInv, RequestTypes, CacheTypeOK, Stored
  <2> QED BY <2>1, <2>2 DEF IInv, DataInv
<1> QED BY Initially, <1>1, PTL DEF Spec

(* The cache holds at most Capacity entries, one for each user, whatever   *)
(* the requests that fill it and however they overlap.                     *)
THEOREM CacheTypeCorrect == Spec => []CacheTypeOK
<1>1. IInv => CacheTypeOK
  BY DEF IInv
<1> QED BY <1>1, CacheInvariantHolds, PTL

(* No answer shows a profile older than the time to live, the longest      *)
(* batch-get so far and the request's own wait, with no bound on either:   *)
(* being served does not prolong an entry's life.                          *)
THEOREM AnswersAreFresh == Spec => []AnswersFresh
<1>1. IInv => AnswersFresh
  <2> SUFFICES ASSUME IInv, NEW r \in Requests, NEW u \in Users, shown[r][u] \in Times
               PROVE  now - shown[r][u] <= Ttl + slowest + Waited(r)
    BY DEF AnswersFresh
  <2>1. /\ ProfileInv(r, u)
        /\ at[r] \in {"idle", "looking", "fetching", "answered", "storing"}
        /\ shown[r][u] \in Int /\ shown[r][u] # NotYet
        /\ now \in Int /\ sentAt[r] \in Int /\ Ttl \in Int /\ slowest \in Int
    BY BoundsAssumption DEF IInv, CacheTypeOK, RequestInv, Times, NotYet
  <2> QED BY <2>1 DEF ProfileInv, Asked, Waited
<1> QED BY <1>1, CacheInvariantHolds, PTL

(* A member shown without a name was asked for in vain by the same         *)
(* request; nothing blank is cached.                                       *)
THEOREM BlanksAreUnknown == Spec => []BlankMeansUnknown
<1>1. IInv => BlankMeansUnknown
  BY DEF IInv, RequestInv, ProfileInv, BlankMeansUnknown
<1> QED BY <1>1, CacheInvariantHolds, PTL

----------------------------------------------------------------------------
(* Eviction.                                                               *)

(* A hit evicts nobody.                                                    *)
LEMMA HitLosesNone ==
  ASSUME IInv, NEW r \in Requests, Hit(r), NEW i \in 1 .. Len(data)
  PROVE  data[i].user \in Cached(data')
<1> DEFINE u == Head(todo[r])
           e == data[Place(u)]
           W == Without(u)
<1>1. /\ u \in Users /\ u \in Cached(data) /\ data' = Append(W, e)
  BY TreatedUser DEF IInv, Hit, Treat, Served
<1>2. e.user = u /\ e \in Stored
  BY <1>1, PlaceOfCached, EntryTypes DEF IInv
<1>3. W \in Seq(Stored)
  BY <1>1, WithoutKeeps DEF IInv
<1>4. data[i].user # u => \E j \in 1 .. Len(W) : W[j] = data[i]
  BY <1>1, WithoutLosesOne DEF IInv
<1> HIDE DEF u, e, W
<1>5. /\ Len(data') = Len(W) + 1 /\ Len(W) \in Nat /\ data'[Len(W) + 1] = e
      /\ \A j \in 1 .. Len(W) : data'[j] = W[j]
  BY <1>1, <1>2, <1>3
<1>6. CASE data[i].user = u
  <2>1. Len(W) + 1 \in 1 .. Len(data')
    BY <1>5
  <2> QED BY <2>1, <1>2, <1>5, <1>6 DEF Cached
<1>7. CASE data[i].user # u
  <2>1. PICK j \in 1 .. Len(W) : W[j] = data[i]
    BY <1>4, <1>7
  <2>2. j \in 1 .. Len(data')
    BY <1>5
  <2> QED BY <2>1, <2>2, <1>5 DEF Cached
<1> QED BY <1>6, <1>7

(* An expiry takes only the expired entry away.                            *)
LEMMA ExpiryLosesOne ==
  ASSUME IInv, NEW r \in Requests, Expired(r), NEW i \in 1 .. Len(data), Fresh(data[i])
  PROVE  data[i].user \in Cached(data')
<1> DEFINE u == Head(todo[r])
<1>1. u \in Users /\ u \in Cached(data) /\ data' = Without(u) /\ ~Fresh(data[Place(u)])
  BY TreatedUser DEF IInv, Expired, Treat
<1>2. Place(u) \in 1 .. Len(data) /\ data[Place(u)].user = u
  BY <1>1, PlaceOfCached DEF IInv
<1>3. data[i].user # u
  BY <1>1, <1>2, EntryTypes DEF IInv
<1>4. PICK j \in 1 .. Len(Without(u)) : Without(u)[j] = data[i]
  BY <1>1, <1>3, WithoutLosesOne DEF IInv
<1> QED BY <1>1, <1>4 DEF Cached

(* On overflow the first entry goes, and every other was used after it.    *)
LEMMA StoreLosesOldest ==
  ASSUME IInv, NEW r \in Requests, StoreOne(r), NEW i \in 1 .. Len(data),
         data[i].user \notin Cached(data'), NEW v \in Cached(data')
  PROVE  <<v, data[i].user>> \in newer'
<1> DEFINE u == Head(todo[r])
           e == [user |-> u, ts |-> now, asOf |-> toldAt[r]]
           m == Moved(u, e)
<1>1. /\ u \in Users /\ Use(u) /\ at[r] = "storing"
      /\ data' = IF Len(m) > Capacity THEN Tail(m) ELSE m
  BY TreatedUser DEF IInv, StoreOne, Treat, Put, Moved
<1>2. now \in Times /\ toldAt[r] \in Times
  BY DEF IInv, CacheTypeOK
<1>3. e \in Stored /\ e.user = u
  BY <1>1, <1>2 DEF Stored
<1>4. \E j \in 1 .. Len(m) : m[j].user = data[i].user
  <2>1. Without(u) \in Seq(Stored)
    BY <1>1, WithoutKeeps DEF IInv
  <2>2. /\ Len(m) = Len(Without(u)) + 1 /\ Len(Without(u)) \in Nat
        /\ m[Len(Without(u)) + 1] = e
        /\ \A j \in 1 .. Len(Without(u)) : m[j] = Without(u)[j]
    <3> HIDE DEF e
    <3> QED BY <2>1, <1>3 DEF Moved
  <2>3. CASE data[i].user = u
    BY <2>2, <2>3, <1>3
  <2>4. CASE data[i].user # u
    <3>1. PICK j \in 1 .. Len(Without(u)) : Without(u)[j] = data[i]
      BY <1>1, <2>4, WithoutLosesOne DEF IInv
    <3>2. j \in 1 .. Len(m)
      BY <2>2
    <3> QED BY <2>2, <3>1, <3>2
  <2> QED BY <2>3, <2>4
<1>5. /\ m \in Seq(Stored)
      /\ \A j, k \in 1 .. Len(m) : j < k => <<m[k].user, m[j].user>> \in newer'
  <2> HIDE DEF u, e
  <2>1. CacheTypeOK /\ SortedByUse
    BY DEF IInv
  <2> QED BY ONLY <2>1, <1>1, <1>3, MovedToEnd DEF m
<1> HIDE DEF m
<1>6. PICK j \in 1 .. Len(m) : m[j].user = data[i].user
  BY <1>4
<1>7. data' # m
  BY <1>6 DEF Cached
<1>8. data' = Tail(m)
  BY <1>1, <1>7
<1>9. /\ Len(m) \in Nat
      /\ Len(data') = Len(m) - 1
      /\ \A k \in 1 .. Len(m) - 1 : data'[k] = m[k + 1] /\ k + 1 \in 1 .. Len(m)
  BY <1>5, <1>6, <1>8
<1>10. j = 1
  <2> SUFFICES ASSUME j # 1 PROVE FALSE
    OBVIOUS
  <2>1. j - 1 \in 1 .. Len(data') /\ j - 1 \in 1 .. Len(m) - 1 /\ (j - 1) + 1 = j
    BY <1>9
  <2>2. data'[j - 1].user = data[i].user
    BY <1>6, <1>9, <2>1
  <2> QED BY <2>1, <2>2 DEF Cached
<1>11. PICK k \in 1 .. Len(data') : data'[k].user = v
  BY DEF Cached
<1>12. m[k + 1].user = v /\ k + 1 \in 1 .. Len(m) /\ 1 < k + 1
  BY <1>9, <1>11
<1> QED BY <1>5, <1>6, <1>10, <1>12

(* The cache keeps its capacity, and an entry that leaves before it        *)
(* expired is the least recently used.                                     *)
THEOREM LeastUsedIsEvicted == Spec => LeastUsedLeaves
<1> DEFINE Evicts == \A i \in 1 .. Len(data) :
                       Fresh(data[i]) /\ data[i].user \notin Cached(data')
                         => \A v \in Cached(data') : <<v, data[i].user>> \in newer'
<1>1. IInv /\ [Next]_vars => [Evicts]_vars
  <2> SUFFICES ASSUME IInv, Next PROVE Evicts
    OBVIOUS
  <2> SUFFICES ASSUME NEW i \in 1 .. Len(data), Fresh(data[i]),
                      data[i].user \notin Cached(data'), NEW v \in Cached(data')
               PROVE  <<v, data[i].user>> \in newer'
    OBVIOUS
  <2>1. data' # data
    BY DEF Cached
  <2>2. PICK r \in Requests : Hit(r) \/ Expired(r) \/ StoreOne(r)
    BY <2>1 DEF Next, Tick, ListMembers, Miss, Ask, PlatformReads, Resume, BlankOne, Answer,
                NotStored
  <2> QED BY <2>2, HitLosesNone, ExpiryLosesOne, StoreLosesOldest
<1>2. IInv' => Len(data') <= Capacity
  BY DEF IInv, CacheTypeOK
<1>3. [Len(data') <= Capacity /\ Evicts]_vars <=>
        [/\ Len(data') <= Capacity
         /\ \A i \in 1 .. Len(data) :
              Fresh(data[i]) /\ data[i].user \notin Cached(data')
                => \A v \in Cached(data') : <<v, data[i].user>> \in newer']_vars
  OBVIOUS
<1>4. IInv /\ IInv' /\ [Next]_vars => [Len(data') <= Capacity /\ Evicts]_vars
  BY <1>1, <1>2
<1> HIDE DEF Evicts
<1> QED BY <1>3, <1>4, CacheInvariantHolds, PTL DEF Spec, LeastUsedLeaves
=============================================================================
