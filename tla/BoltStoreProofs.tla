--------------------------- MODULE BoltStoreProofs ---------------------------
(***************************************************************************)
(* The Bolt provider keeps its two buckets in step, and with them the      *)
(* abstract directory, for any number of names, profiles and ids, when the *)
(* API serves one request that changes a user at a time and no body        *)
(* renames.  (With two requests it does not: see BoltStoreRace.cfg.)       *)
(*                                                                         *)
(* IndexAgrees is not inductive by itself: a request that has read a user  *)
(* must still find it when it writes.  What it has read is therefore part  *)
(* of the invariant: the id is in the index, with the name that was read.  *)
(***************************************************************************)
EXTENDS BoltStore, TLAPS

OneAtATime == ~Renames /\ \A r, s \in BoltRequests : r = s

User == [id : 1..sequence, profile : Profiles, used : 0..MaxUsed]

\* What the request r has read is still what the buckets are about.
ReadHolds(r) ==
  request[r].op # "none" =>
    /\ request[r].id \in DOMAIN idxBucket
    /\ request[r].name = idxBucket[request[r].id]
    /\ request[r].user \in User
    /\ request[r].user.id = request[r].id

BoltInv ==
  /\ sequence \in Nat
  /\ DOMAIN request = Requests
  /\ BucketsTyped
  /\ IndexAgrees
  /\ \A r \in BoltRequests : ReadHolds(r)

-----------------------------------------------------------------------------
\* The name of an id belongs to no other id.
LEMMA IndexInjective ==
  ASSUME IndexAgrees, NEW i \in DOMAIN idxBucket, NEW j \in DOMAIN idxBucket,
         idxBucket[i] = idxBucket[j]
  PROVE  i = j
  BY DEF IndexAgrees, getUserByID

\* The database starts empty.
LEMMA BoltInvInit == BoltInit => BoltInv
  <1> SUFFICES ASSUME BoltInit PROVE BoltInv
    OBVIOUS
  <1>1. DOMAIN bucket = {} /\ DOMAIN idxBucket = {}
    BY DEF BoltInit
  <1> QED
    BY <1>1, BoltStoreAssumption
    DEF BoltInit, RequestsInit, Idle, BoltInv, BucketsTyped, IndexAgrees, ReadHolds

\* Adding a user takes an id that is in no bucket.
LEMMA BoltInvAdd ==
  ASSUME BoltInv, NEW n \in Names, NEW p \in Profiles, addUser(n, p)
  PROVE  BoltInv'
  <1> DEFINE id == sequence + 1
  <1>1. /\ sequence \in Nat /\ sequence' = id /\ id \in Nat /\ id \in 1..id
        /\ n \notin DOMAIN bucket /\ id \notin DOMAIN idxBucket
        /\ request' = request
    BY DEF BoltInv, BucketsTyped, addUser
  <1>2. /\ DOMAIN bucket' = DOMAIN bucket \cup {n}
        /\ DOMAIN idxBucket' = DOMAIN idxBucket \cup {id}
        /\ bucket'[n] = [id |-> id, profile |-> p, used |-> 0]
        /\ idxBucket'[id] = n
        /\ \A m \in DOMAIN bucket : bucket'[m] = bucket[m]
        /\ \A i \in DOMAIN idxBucket : idxBucket'[i] = idxBucket[i]
    BY <1>1 DEF addUser, With
  <1>3. 1..sequence \subseteq 1..sequence' /\ User \subseteq User'
    BY <1>1 DEF User
  <1>4. BucketsTyped'
    <2>1. bucket'[n] \in User'
      BY <1>1, <1>2, UserRequestsAssumption DEF User
    <2>2. \A m \in DOMAIN bucket : bucket'[m] \in User'
      BY <1>2, <1>3 DEF BoltInv, BucketsTyped, User
    <2> QED
      BY <1>1, <1>2, <1>3, <2>1, <2>2 DEF BoltInv, BucketsTyped, User
  <1>5. IndexAgrees'
    BY <1>1, <1>2 DEF BoltInv, IndexAgrees, Found, getUserByID
  <1>6. ASSUME NEW r \in BoltRequests PROVE ReadHolds(r)'
    BY <1>1, <1>2, <1>3 DEF BoltInv, ReadHolds
  <1> QED
    BY <1>1, <1>4, <1>5, <1>6 DEF BoltInv

\* A quota update leaves ids and names alone.
LEMMA BoltInvQuota == BoltInv /\ BoltQuota => BoltInv'
  <1> SUFFICES ASSUME BoltInv, NEW n \in DOMAIN bucket, NEW u \in 0..MaxUsed, updateQuota(n, u)
               PROVE  BoltInv'
    BY DEF BoltQuota
  <1>1. /\ DOMAIN bucket' = DOMAIN bucket
        /\ \A m \in DOMAIN bucket : bucket'[m] = IF m = n THEN [bucket[n] EXCEPT !.used = u] ELSE bucket[m]
        /\ UNCHANGED <<idxBucket, sequence, request>>
    BY DEF updateQuota
  <1>2. \A m \in DOMAIN bucket : bucket'[m] \in User /\ bucket'[m].id = bucket[m].id
    BY <1>1 DEF BoltInv, BucketsTyped, User
  <1>3. BucketsTyped' /\ IndexAgrees'
    BY <1>1, <1>2 DEF BoltInv, BucketsTyped, IndexAgrees, Found, getUserByID, User
  <1> QED
    BY <1>1, <1>3 DEF BoltInv, ReadHolds, User

\* A request reads a user that the index leads to.
LEMMA BoltInvRead ==
  ASSUME BoltInv, NEW r \in BoltRequests, NEW i \in DOMAIN idxBucket,
         NEW op \in {"update", "delete"}, BoltRead(r, op, i)
  PROVE  BoltInv'
  <1>1. UNCHANGED <<bucket, idxBucket, sequence>> /\ r \in Requests
    BY BoltStoreAssumption DEF BoltRead
  <1>2. getUserByID(i) \in User /\ getUserByID(i).id = i
    BY DEF BoltInv, BucketsTyped, IndexAgrees, Found, getUserByID, User
  <1>3. /\ DOMAIN request' = Requests
        /\ request'[r] = [op |-> op, id |-> i, name |-> idxBucket[i], user |-> getUserByID(i)]
        /\ \A s \in Requests : s # r => request'[s] = request[s]
    BY <1>1 DEF BoltInv, BoltRead
  <1>4. ASSUME NEW s \in BoltRequests PROVE ReadHolds(s)'
    BY <1>1, <1>2, <1>3, BoltStoreAssumption DEF BoltInv, ReadHolds, User
  <1> QED
    BY <1>1, <1>3, <1>4 DEF BoltInv, BucketsTyped, IndexAgrees, Found, getUserByID

\* A request that has been answered, in whatever way, holds nothing any more.
LEMMA Answered ==
  ASSUME BoltInv, OneAtATime, NEW r \in BoltRequests, Responds(r)
  PROVE  /\ DOMAIN request' = Requests /\ sequence' = sequence
         /\ \A s \in BoltRequests : ReadHolds(s)'
  BY BoltStoreAssumption DEF BoltInv, OneAtATime, Responds, ReadHolds, Idle

\* An update writes the user under its own name, with its own id.
LEMMA BoltInvUpdate ==
  ASSUME BoltInv, OneAtATime, NEW r \in BoltRequests, NEW n \in Names, NEW p \in Profiles,
         BoltUpdate(r, n, p)
  PROVE  BoltInv'
  <1> DEFINE i == request[r].id  user == request[r].user
  <1>1. /\ request[r].op = "update" /\ request[r].name = idxBucket[i]
        /\ i \in DOMAIN idxBucket /\ user \in User /\ user.id = i
    BY DEF BoltInv, ReadHolds, BoltUpdate
  <1>2. n = idxBucket[i] /\ n \in DOMAIN bucket /\ bucket[n].id = i
    BY <1>1 DEF OneAtATime, BoltUpdate, BodyNames, BoltInv, IndexAgrees, Found, getUserByID
  <1> DEFINE new == [user EXCEPT !.id = i, !.profile = p]
  <1>3. bucket' = With(bucket, n, new) /\ idxBucket' = idxBucket
    BY <1>1, <1>2 DEF BoltUpdate, updateUser
  <1>4. new \in User /\ new.id = i
    BY <1>1, <1>3 DEF User
  <1>5. /\ DOMAIN bucket' = DOMAIN bucket
        /\ bucket'[n] = new
        /\ \A m \in DOMAIN bucket : m # n => bucket'[m] = bucket[m]
    BY <1>2, <1>3 DEF With
  <1>6. /\ DOMAIN request' = Requests /\ sequence' = sequence
        /\ \A s \in BoltRequests : ReadHolds(s)'
    BY Answered DEF BoltUpdate
  <1>7. BucketsTyped'
    BY <1>3, <1>4, <1>5, <1>6 DEF BoltInv, BucketsTyped, User
  <1>8. IndexAgrees'
    <2> HIDE DEF new, i
    <2>1. \A m \in DOMAIN bucket : bucket'[m].id = bucket[m].id
      BY <1>2, <1>4, <1>5
    <2> QED
      BY <1>3, <1>5, <2>1 DEF BoltInv, IndexAgrees, Found, getUserByID
  <1> QED
    BY <1>6, <1>7, <1>8 DEF BoltInv

\* A deletion takes the user out of both buckets.
LEMMA BoltInvDelete ==
  ASSUME BoltInv, OneAtATime, NEW r \in BoltRequests, BoltDelete(r)
  PROVE  BoltInv'
  <1> DEFINE i == request[r].id  user == request[r].user
  <1>1. /\ request[r].op = "delete" /\ request[r].name = idxBucket[i]
        /\ i \in DOMAIN idxBucket /\ user \in User /\ user.id = i
    BY DEF BoltInv, ReadHolds, BoltDelete
  <1>2. bucket' = Without(bucket, idxBucket[i]) /\ idxBucket' = Without(idxBucket, i)
    BY <1>1 DEF BoltDelete, deleteUser
  <1>3. /\ DOMAIN bucket' = DOMAIN bucket \ {idxBucket[i]}
        /\ DOMAIN idxBucket' = DOMAIN idxBucket \ {i}
        /\ \A m \in DOMAIN bucket' : bucket'[m] = bucket[m]
        /\ \A j \in DOMAIN idxBucket' : idxBucket'[j] = idxBucket[j]
    BY <1>2 DEF Without
  <1>4. /\ DOMAIN request' = Requests /\ sequence' = sequence
        /\ \A s \in BoltRequests : ReadHolds(s)'
    BY Answered DEF BoltDelete
  <1>5. BucketsTyped'
    BY <1>3, <1>4 DEF BoltInv, BucketsTyped
  <1>6. \A j \in DOMAIN idxBucket' : idxBucket[j] # idxBucket[i]
    BY <1>1, <1>3, IndexInjective DEF BoltInv
  <1>7. IndexAgrees'
    BY <1>3, <1>6 DEF BoltInv, IndexAgrees, Found, getUserByID
  <1> QED
    BY <1>4, <1>5, <1>7 DEF BoltInv

\* Every transaction of the provider and every step of the API keeps the invariant.
LEMMA BoltInvNext == OneAtATime /\ BoltInv /\ [BoltNext]_boltVars => BoltInv'
  <1> SUFFICES ASSUME OneAtATime, BoltInv, [BoltNext]_boltVars PROVE BoltInv'
    OBVIOUS
  <1>1. CASE UNCHANGED boltVars
    BY <1>1 DEF boltVars, BoltInv, BucketsTyped, IndexAgrees, Found, getUserByID, ReadHolds, User
  <1>2. ASSUME NEW r \in BoltRequests, RejectBody(r), UNCHANGED <<bucket, idxBucket>>
        PROVE  BoltInv'
    <2>1. /\ DOMAIN request' = Requests /\ sequence' = sequence
          /\ \A s \in BoltRequests : ReadHolds(s)'
      BY <1>2, Answered DEF RejectBody
    <2> QED
      BY <1>2, <2>1 DEF BoltInv, BucketsTyped, IndexAgrees, Found, getUserByID
  <1> QED
    BY <1>1, <1>2, BoltInvAdd, BoltInvQuota, BoltInvRead, BoltInvUpdate, BoltInvDelete DEF BoltNext

\* With one changing request at a time, every id of the index leads to the user that has it and
\* every user is indexed, whatever is added, updated, deleted or charged: what GetUserByID and
\* deleteUser of bolt.go rely on.
THEOREM BoltIndexAgrees ==
  ASSUME OneAtATime
  PROVE  BoltSpec => []IndexAgrees
  <1>1. BoltInv /\ [BoltNext]_boltVars => BoltInv'
    BY BoltInvNext
  <1>2. BoltInv => IndexAgrees
    BY DEF BoltInv
  <1> QED
    BY <1>1, <1>2, BoltInvInit, PTL DEF BoltSpec

-----------------------------------------------------------------------------
\* The directory that the buckets stand for.
Stored == [i \in DOMAIN idxBucket |-> [name |-> idxBucket[i], profile |-> bucket[idxBucket[i]].profile]]

\* Adding a user to the buckets adds it to the directory.
LEMMA AddIsAdd ==
  ASSUME BoltInv, NEW n \in Names, NEW p \in Profiles, addUser(n, p)
  PROVE  BoltDirectory!Add(n, p)
  <1> DEFINE id == sequence + 1
  <1>1. /\ sequence \in Nat /\ sequence' = id
        /\ n \notin DOMAIN bucket /\ id \notin DOMAIN idxBucket
    BY DEF BoltInv, BucketsTyped, addUser
  <1>2. /\ DOMAIN idxBucket' = DOMAIN idxBucket \cup {id}
        /\ bucket'[n].profile = p
        /\ idxBucket'[id] = n
        /\ \A m \in DOMAIN bucket : bucket'[m] = bucket[m]
        /\ \A i \in DOMAIN idxBucket : idxBucket'[i] = idxBucket[i]
    BY <1>1 DEF addUser, With
  <1>3. \A i \in DOMAIN idxBucket : idxBucket[i] # n /\ idxBucket[i] \in DOMAIN bucket
    BY <1>1 DEF BoltInv, IndexAgrees, Found
  <1>4. Stored' = [i \in DOMAIN idxBucket \cup {id} |->
                     IF i = id THEN [name |-> n, profile |-> p] ELSE Stored[i]]
    BY <1>1, <1>2, <1>3 DEF Stored
  <1>5. sequence' > sequence /\ \A i \in DOMAIN Stored : Stored[i].name # n
    BY <1>1, <1>3 DEF Stored
  <1>6. Stored' = [i \in DOMAIN Stored \cup {sequence'} |->
                     IF i = sequence' THEN [name |-> n, profile |-> p] ELSE Stored[i]]
    BY <1>1, <1>4 DEF Stored
  <1> QED
    BY <1>5, <1>6, Zenon DEF BoltDirectory!Add, Stored

\* An update changes the profile of the user with the request's id, and of no other.
LEMMA UpdateIsUpdate ==
  ASSUME BoltInv, OneAtATime, NEW r \in BoltRequests, NEW n \in Names, NEW p \in Profiles,
         BoltUpdate(r, n, p)
  PROVE  \E j \in DOMAIN Stored : BoltDirectory!Update(j, p)
  <1> DEFINE i == request[r].id  user == request[r].user
             new == [user EXCEPT !.id = i, !.profile = p]
  <1>1. /\ request[r].name = idxBucket[i] /\ i \in DOMAIN idxBucket /\ user \in User
    BY DEF BoltInv, ReadHolds, BoltUpdate
  <1>2. n = idxBucket[i] /\ n \in DOMAIN bucket
    BY <1>1 DEF OneAtATime, BoltUpdate, BodyNames, BoltInv, IndexAgrees, Found
  <1>3. bucket' = With(bucket, n, new) /\ idxBucket' = idxBucket /\ sequence' = sequence
    BY <1>1, <1>2 DEF BoltUpdate, updateUser, Responds
  <1>4. new.profile = p
    BY <1>1 DEF User
  <1> HIDE DEF new, i
  <1>5. \A j \in DOMAIN idxBucket : bucket'[idxBucket[j]].profile = IF j = i THEN p ELSE bucket[idxBucket[j]].profile
    BY <1>1, <1>2, <1>3, <1>4, IndexInjective DEF With, BoltInv, IndexAgrees, Found
  <1>6. Stored' = [Stored EXCEPT ![i].profile = p]
    BY <1>1, <1>3, <1>5 DEF Stored
  <1> QED
    BY <1>1, <1>3, <1>6 DEF Stored, BoltDirectory!Update

\* A deletion takes the user with the request's id out of the directory, and no other.
LEMMA DeleteIsDelete ==
  ASSUME BoltInv, OneAtATime, NEW r \in BoltRequests, BoltDelete(r)
  PROVE  \E j \in DOMAIN Stored : BoltDirectory!Delete(j)
  <1> DEFINE i == request[r].user.id
  <1>1. i \in DOMAIN idxBucket
    BY DEF BoltInv, ReadHolds, BoltDelete
  <1>2. /\ bucket' = Without(bucket, idxBucket[i]) /\ idxBucket' = Without(idxBucket, i)
        /\ sequence' = sequence
    BY <1>1 DEF BoltDelete, deleteUser, Responds
  <1> HIDE DEF i
  <1>3. \A j \in DOMAIN idxBucket \ {i} :
          /\ idxBucket'[j] = idxBucket[j]
          /\ bucket'[idxBucket[j]] = bucket[idxBucket[j]]
    BY <1>1, <1>2, IndexInjective DEF Without, BoltInv, IndexAgrees, Found
  <1>4. Stored' = [j \in DOMAIN Stored \ {i} |-> Stored[j]]
    BY <1>2, <1>3 DEF Stored, Without
  <1> QED
    BY <1>1, <1>2, <1>4 DEF Stored, BoltDirectory!Delete

\* A quota update, a read and a refused body do not show in the directory.
LEMMA OthersStutter ==
  ASSUME BoltInv,
         \/ BoltQuota
         \/ \E r \in BoltRequests :
              \/ \E i \in DOMAIN idxBucket, op \in {"update", "delete"} : BoltRead(r, op, i)
              \/ RejectBody(r) /\ UNCHANGED <<bucket, idxBucket>>
         \/ UNCHANGED boltVars
  PROVE  UNCHANGED <<Stored, sequence>>
  <1>1. ASSUME NEW n \in DOMAIN bucket, NEW u \in 0..MaxUsed, updateQuota(n, u)
        PROVE  UNCHANGED <<Stored, sequence>>
    <2>1. \A m \in DOMAIN bucket : bucket'[m].profile = bucket[m].profile
      BY <1>1 DEF updateQuota, BoltInv, BucketsTyped
    <2> QED
      BY <1>1, <2>1 DEF updateQuota, Stored, BoltInv, IndexAgrees, Found
  <1> QED
    BY <1>1 DEF BoltQuota, BoltRead, RejectBody, Responds, boltVars, Stored

\* With one changing request at a time, the two buckets of bolt.go are a directory of users in
\* which ids and names stay together and no id is given twice: every transaction is one of its
\* operations, or does not show.
THEOREM BoltIsDirectory ==
  ASSUME OneAtATime
  PROVE  BoltSpec => BoltImplementsDirectory
  <1>1. BoltInit => BoltDirectory!Init
    <2> SUFFICES ASSUME BoltInit PROVE BoltDirectory!Init
      OBVIOUS
    <2>1. DOMAIN idxBucket = {} /\ sequence = 0
      BY DEF BoltInit, RequestsInit
    <2> QED
      BY <2>1 DEF BoltDirectory!Init
  <1>2. BoltInv /\ [BoltNext]_boltVars => [BoltDirectory!Next]_<<Stored, sequence>>
    <2> SUFFICES ASSUME BoltInv, [BoltNext]_boltVars
                 PROVE  BoltDirectory!Next \/ UNCHANGED <<Stored, sequence>>
      OBVIOUS
    <2>1. ASSUME NEW n \in Names, NEW p \in Profiles, addUser(n, p) PROVE BoltDirectory!Next
      BY <2>1, AddIsAdd DEF BoltDirectory!Next
    <2>2. ASSUME NEW r \in BoltRequests, NEW n \in Names, NEW p \in Profiles, BoltUpdate(r, n, p)
          PROVE  BoltDirectory!Next
      BY <2>2, UpdateIsUpdate DEF BoltDirectory!Next, Stored
    <2>3. ASSUME NEW r \in BoltRequests, BoltDelete(r) PROVE BoltDirectory!Next
      BY <2>3, DeleteIsDelete DEF BoltDirectory!Next, Stored
    <2> QED
      BY <2>1, <2>2, <2>3, OthersStutter DEF BoltNext
  <1>3. BoltInv /\ [BoltNext]_boltVars => BoltInv'
    BY BoltInvNext
  <1> QED
    BY <1>1, <1>2, <1>3, BoltInvInit, PTL
    DEF BoltSpec, BoltImplementsDirectory, BoltDirectory!DirectorySpec, Stored
=============================================================================
