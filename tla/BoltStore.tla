----------------------------- MODULE BoltStore -----------------------------
(***************************************************************************)
(* The Bolt provider under the REST API.  The database has two buckets:    *)
(* users, keyed by name, and an index from ids to names.  Every provider   *)
(* call is one Bolt transaction; the API's update and delete make two of   *)
(* them, one that reads the user by id and one that writes, and other      *)
(* requests and quota updates may come in between.                         *)
(***************************************************************************)
EXTENDS UserRequests

CONSTANTS BoltRequests, \* the requests that the Bolt provider serves
          Renames       \* TRUE when a body may carry a user name of its own

ASSUME BoltStoreAssumption == BoltRequests \subseteq Requests /\ Renames \in BOOLEAN

VARIABLES bucket,    \* bucket[name]: the id, profile and used quota in the record
          idxBucket  \* idxBucket[id]: a name

boltVars == <<bucket, idxBucket, sequence, request>>

With(f, x, v) == [y \in DOMAIN f \cup {x} |-> IF y = x THEN v ELSE f[y]]
Without(f, x) == [y \in DOMAIN f \ {x} |-> f[y]]

BoltInit == bucket = << >> /\ idxBucket = << >> /\ RequestsInit

-----------------------------------------------------------------------------
(* The provider: the effect of one transaction on the buckets.             *)

Found(i) == i \in DOMAIN idxBucket /\ idxBucket[i] \in DOMAIN bucket

getUserByID(i) == bucket[idxBucket[i]]

\* Mutant: the id is the first one after those in use.
addUserReuse(n, p) ==
  LET id == CHOOSE i \in 1..MaxId + 1 : /\ \A j \in DOMAIN idxBucket : j < i
                                        /\ i = 1 \/ i - 1 \in DOMAIN idxBucket IN
  /\ id <= MaxId
  /\ n \notin DOMAIN bucket
  /\ sequence' = IF id > sequence THEN id ELSE sequence
  /\ bucket' = With(bucket, n, [id |-> id, profile |-> p, used |-> 0])
  /\ idxBucket' = With(idxBucket, id, n)
  /\ UNCHANGED request

addUser(n, p) ==
  /\ sequence < MaxId
  /\ n \notin DOMAIN bucket
  /\ sequence' = sequence + 1
  /\ bucket' = With(bucket, n, [id |-> sequence', profile |-> p, used |-> 0])
  /\ idxBucket' = With(idxBucket, sequence', n)
  /\ UNCHANGED request

updateUser(n, user) ==
  bucket' = IF n \in DOMAIN bucket THEN With(bucket, n, user) ELSE bucket

\* Mutant: the index keeps the id.
deleteUserKeepIndex(i) ==
  IF i \in DOMAIN idxBucket
  THEN bucket' = Without(bucket, idxBucket[i]) /\ UNCHANGED idxBucket
  ELSE UNCHANGED <<bucket, idxBucket>>

deleteUser(i) ==
  IF i \in DOMAIN idxBucket
  THEN /\ bucket' = Without(bucket, idxBucket[i])
       /\ idxBucket' = Without(idxBucket, i)
  ELSE UNCHANGED <<bucket, idxBucket>>

updateQuota(n, used) ==
  /\ n \in DOMAIN bucket
  /\ bucket' = [bucket EXCEPT ![n].used = used]
  /\ UNCHANGED <<idxBucket, sequence, request>>

-----------------------------------------------------------------------------
(* The API: a request reads the user, then acts on what it has read.       *)

BoltRead(r, op, i) ==
  /\ request[r] = Idle
  /\ Found(i)
  /\ request' = [request EXCEPT ![r] = [op |-> op, id |-> i, name |-> idxBucket[i],
                                        user |-> getUserByID(i)]]
  /\ UNCHANGED <<bucket, idxBucket, sequence>>

\* The names a body may carry: the user's own, or any if bodies rename.
BodyNames(r) == IF Renames THEN Names ELSE {request[r].name}

\* The body is decoded over the user that was read; the ids must agree then.
BoltUpdate(r, n, p) ==
  /\ request[r].op = "update"
  /\ n \in BodyNames(r)
  /\ updateUser(n, [request[r].user EXCEPT !.id = request[r].id, !.profile = p])
  /\ Responds(r)
  /\ UNCHANGED idxBucket

BoltDelete(r) ==
  /\ request[r].op = "delete"
  /\ deleteUser(request[r].user.id)
  /\ Responds(r)

BoltQuota ==
  \E n \in DOMAIN bucket, u \in 0..MaxUsed : updateQuota(n, u)

BoltNext ==
  \/ \E n \in Names, p \in Profiles : addUser(n, p)
  \/ BoltQuota
  \/ \E r \in BoltRequests :
       \/ \E i \in DOMAIN idxBucket, op \in {"update", "delete"} : BoltRead(r, op, i)
       \/ \E n \in Names, p \in Profiles : BoltUpdate(r, n, p)
       \/ RejectBody(r) /\ UNCHANGED <<bucket, idxBucket>>
       \/ BoltDelete(r)

BoltSpec == BoltInit /\ [][BoltNext]_boltVars

-----------------------------------------------------------------------------
(* Properties.                                                             *)

\* The buckets hold users, and no id is beyond the sequence.
BucketsTyped ==
  /\ DOMAIN bucket \subseteq Names
  /\ \A n \in DOMAIN bucket :
       bucket[n] \in [id : 1..sequence, profile : Profiles, used : 0..MaxUsed]
  /\ DOMAIN idxBucket \subseteq 1..sequence
  /\ \A i \in DOMAIN idxBucket : idxBucket[i] \in Names

\* The index and the users bucket agree: every id of the index leads to the user
\* with that id, and every user is indexed.  GetUserByID and deleteUser rely on it.
IndexAgrees ==
  /\ \A i \in DOMAIN idxBucket : Found(i) /\ getUserByID(i).id = i
  /\ \A n \in DOMAIN bucket : \E i \in DOMAIN idxBucket : idxBucket[i] = n

BoltDirectory == INSTANCE UserDirectory WITH
  directory <- [i \in DOMAIN idxBucket |-> [name |-> idxBucket[i],
                                            profile |-> bucket[idxBucket[i]].profile]],
  lastId <- sequence

\* The two buckets implement the abstract directory of users.
BoltImplementsDirectory == BoltDirectory!DirectorySpec
=============================================================================
