----------------------------- MODULE UserExpiry -----------------------------
(***************************************************************************)
(* The removal of expired users.  Once a minute the server lists all users *)
(* page by page, remembers those whose time is over, and then deletes them *)
(* one by one by id.  Every page and every deletion is a transaction of    *)
(* its own, between which the API adds, updates and deletes users.         *)
(* A user's expiry is the number in its permission "_expire:<number>".     *)
(***************************************************************************)
EXTENDS Integers, Sequences

CONSTANTS MaxName,       \* user names are 1..MaxName, in the order of the listing
          PageSize,      \* 30 in the code
          Minutes,       \* what a request gives as an expiry; 0: no such permission
          DefaultExpire, \* default_expire of the configuration
          MaxNow,        \* bound: minutes that pass
          MaxExpiryId          \* bound: users ever added

ASSUME UserExpiryAssumption ==
  /\ MaxName \in Nat /\ PageSize \in Nat \ {0} /\ Minutes \subseteq Nat
  /\ DefaultExpire \in Nat /\ MaxNow \in Nat /\ MaxExpiryId \in Nat

VARIABLES users,    \* users[name]: id and time of expiry, 0 for never
          lastId,   \* the last id given
          now,
          scan,     \* the scan: what it does, its offset and the users to delete
          wasOver   \* history: ids of users whose time has been over

expiryVars == <<users, lastId, now, scan, wasOver>>

UserNames == 1..MaxName
Sleep == [at |-> "sleep", offset |-> 0, toBeDeleted |-> << >>]

ExpiryInit ==
  /\ users = << >> /\ lastId = 0 /\ now = 1 /\ scan = Sleep /\ wasOver = {}

IsOver(u, t) == u.expires > 0 /\ t > u.expires

\* wasOver follows users and now in every step.
Note == wasOver' = wasOver \cup {users'[n].id : n \in {k \in DOMAIN users' : IsOver(users'[k], now')}}

-----------------------------------------------------------------------------
(* The API.                                                                *)

\* Minutes are turned into a point in time, or the default is added.
ExpiryOfNew(m) ==
  IF m > 0 THEN now + m ELSE IF DefaultExpire > 0 THEN now + DefaultExpire ELSE 0

AddUser(n, m) ==
  /\ n \notin DOMAIN users /\ lastId < MaxExpiryId
  /\ lastId' = lastId + 1
  /\ users' = [k \in DOMAIN users \cup {n} |->
                 IF k = n THEN [id |-> lastId', expires |-> ExpiryOfNew(m)] ELSE users[k]]
  /\ UNCHANGED <<now, scan>>
  /\ Note

\* The number is stored as it comes.
UpdateUser(n, m) ==
  /\ n \in DOMAIN users
  /\ users' = [users EXCEPT ![n].expires = m]
  /\ UNCHANGED <<lastId, now, scan>>
  /\ Note

DeleteUser(n) ==
  /\ n \in DOMAIN users
  /\ users' = [k \in DOMAIN users \ {n} |-> users[k]]
  /\ UNCHANGED <<lastId, now, scan>>
  /\ Note

Tick ==
  /\ now < MaxNow
  /\ now' = now + 1
  /\ UNCHANGED <<users, lastId, scan>>
  /\ Note

-----------------------------------------------------------------------------
(* The scan.                                                               *)

GetUsers(limit, offset) ==
  LET all == SelectSeq([n \in UserNames |-> n], LAMBDA n : n \in DOMAIN users) IN
  SubSeq(all, offset + 1, IF offset + limit < Len(all) THEN offset + limit ELSE Len(all))

\* Mutant: the next page starts one user too late.
NextOffsetLate(i) == i + PageSize + 1

NextOffset(i) == i + PageSize

ScanStart ==
  /\ scan.at = "sleep"
  /\ scan' = [Sleep EXCEPT !.at = "list"]
  /\ UNCHANGED <<users, lastId, now, wasOver>>

ScanPage ==
  /\ scan.at = "list"
  /\ LET page == GetUsers(PageSize, scan.offset)
         over == SelectSeq(page, LAMBDA n : IsOver(users[n], now)) IN
     scan' = IF page = << >>
             THEN [scan EXCEPT !.at = "delete"]
             ELSE [scan EXCEPT !.offset = NextOffset(@), !.toBeDeleted =
                     @ \o [k \in DOMAIN over |-> [name |-> over[k], id |-> users[over[k]].id]]]
  /\ UNCHANGED <<users, lastId, now, wasOver>>

Removed(victim) == {n \in DOMAIN users : users[n].id = victim.id}

ScanDelete ==
  /\ scan.at = "delete"
  /\ scan.toBeDeleted # << >>
  /\ users' = [n \in DOMAIN users \ Removed(Head(scan.toBeDeleted)) |-> users[n]]
  /\ scan' = [scan EXCEPT !.toBeDeleted = Tail(@)]
  /\ UNCHANGED <<lastId, now, wasOver>>

ScanEnd ==
  /\ scan.at = "delete"
  /\ scan.toBeDeleted = << >>
  /\ scan' = Sleep
  /\ UNCHANGED <<users, lastId, now, wasOver>>

Scan == ScanStart \/ ScanPage \/ ScanDelete \/ ScanEnd

ExpiryNext ==
  \/ \E n \in UserNames, m \in Minutes : AddUser(n, m) \/ UpdateUser(n, m)
  \/ \E n \in UserNames : DeleteUser(n)
  \/ Tick
  \/ Scan

-----------------------------------------------------------------------------
(* Properties.                                                             *)

\* The scan removes no user whose own time was never over: deletion is by id, so a
\* user that was deleted and added again under the same name is left alone.
ScanRemovesOnlyExpired ==
  [][ScanDelete => \A n \in DOMAIN users \ DOMAIN users' : users[n].id \in wasOver]_expiryVars

\* An expired user is removed by a scan, unless its expiry is changed before.
Expired(i) == \E n \in DOMAIN users : users[n].id = i /\ IsOver(users[n], now)
ExpiredIsRemoved == \A i \in 1..MaxExpiryId : Expired(i) ~> ~Expired(i)
=============================================================================
