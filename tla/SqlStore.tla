------------------------------ MODULE SqlStore ------------------------------
(***************************************************************************)
(* The SQL providers under the REST API: one table of users, with a key    *)
(* that the database assigns and a unique name.  Each statement is one     *)
(* step.  The API is that of BoltStore: it reads a user, then writes.      *)
(***************************************************************************)
EXTENDS UserRequests

VARIABLE table  \* table[id]: the row of a user

sqlVars == <<table, sequence, request>>

SqlInit == table = << >> /\ RequestsInit

-----------------------------------------------------------------------------
(* Statements.                                                             *)

\* INSERT; the unique name makes a second row with the same name fail.
sqlCommonAddUser(n, p) ==
  /\ sequence < MaxId
  /\ \A i \in DOMAIN table : table[i].name # n
  /\ sequence' = sequence + 1
  /\ table' = [i \in DOMAIN table \cup {sequence'} |->
                 IF i = sequence' THEN [name |-> n, profile |-> p, used |-> 0] ELSE table[i]]
  /\ UNCHANGED request

\* The refused row may have used up a key, depending on the database.
InsertRefused ==
  /\ DOMAIN table # {} /\ sequence < MaxId
  /\ sequence' = sequence + 1
  /\ UNCHANGED <<table, request>>

\* Mutant: the statement sets the name as well.
sqlCommonUpdateUserName(i, n, p, used) ==
  table' = IF i \in DOMAIN table
           THEN [table EXCEPT ![i].name = n, ![i].profile = p] ELSE table

\* UPDATE ... WHERE id: the name and the used quota are not among the columns.
sqlCommonUpdateUser(i, n, p, used) ==
  table' = IF i \in DOMAIN table THEN [table EXCEPT ![i].profile = p] ELSE table

sqlCommonDeleteUser(i) == table' = [j \in DOMAIN table \ {i} |-> table[j]]

\* UPDATE ... WHERE username, by a difference or by the result of a scan.
sqlCommonUpdateQuota(n, used) ==
  /\ table' = [i \in DOMAIN table |->
                 IF table[i].name = n THEN [table[i] EXCEPT !.used = used] ELSE table[i]]
  /\ UNCHANGED <<sequence, request>>

-----------------------------------------------------------------------------
(* The API.                                                                *)

SqlRead(r, op, i) ==
  /\ request[r] = Idle
  /\ i \in DOMAIN table
  /\ request' = [request EXCEPT ![r] = [op |-> op, id |-> i, user |-> table[i]]]
  /\ UNCHANGED <<table, sequence>>

SqlUpdate(r, n, p) ==
  /\ request[r].op = "update"
  /\ sqlCommonUpdateUser(request[r].id, n, p, request[r].user.used)
  /\ Responds(r)

SqlDelete(r) ==
  /\ request[r].op = "delete"
  /\ sqlCommonDeleteUser(request[r].id)
  /\ Responds(r)

SqlQuota == \E n \in Names, u \in 0..MaxUsed : sqlCommonUpdateQuota(n, u)

SqlNext ==
  \/ \E n \in Names, p \in Profiles : sqlCommonAddUser(n, p)
  \/ InsertRefused
  \/ SqlQuota
  \/ \E r \in Requests :
       \/ \E i \in DOMAIN table, op \in {"update", "delete"} : SqlRead(r, op, i)
       \/ \E n \in Names, p \in Profiles : SqlUpdate(r, n, p)
       \/ RejectBody(r) /\ UNCHANGED table
       \/ SqlDelete(r)

-----------------------------------------------------------------------------
(* Properties.                                                             *)

SqlDirectory == INSTANCE UserDirectory WITH
  directory <- [i \in DOMAIN table |-> [name |-> table[i].name, profile |-> table[i].profile]],
  lastId <- sequence

\* The table implements the abstract directory, for concurrent requests and for
\* bodies with any name.
SqlImplementsDirectory == SqlDirectory!DirectorySpec

\* Only a quota update changes the used quota of a user.
UsedOnlyByQuota ==
  [][\A i \in DOMAIN table \cap DOMAIN table' :
       table'[i].used # table[i].used => SqlQuota]_sqlVars
=============================================================================
