------------------------------ MODULE MCStores ------------------------------
(***************************************************************************)
(* The user database: in each behaviour one of the Bolt provider, the SQL  *)
(* providers, the credentials and listings of users, and the removal of    *)
(* expired users runs, and the others stay as they were at the start.      *)
(***************************************************************************)
EXTENDS BoltStore, SqlStore, UserExpiry, Accounts

VARIABLE store

MCAllOf == [home |-> "absolute", permissions |-> {"valid"}]
MCClear(w) == [form |-> "clear", word |-> w]
MCFirstBody == MCAllOf @@ [password |-> MCClear("w1")]
MCBodies ==
  {MCFirstBody, MCAllOf @@ [keys |-> <<"k1">>],
   [password |-> MCClear("w2")], [password |-> NoPassword],
   [password |-> [form |-> "bcrypt", word |-> "w1"]], [password |-> [form |-> "pbkdf2", word |-> "w2"]],
   [password |-> [form |-> "malformed", word |-> "w1"]],
   [keys |-> <<"k2", "k1">>], [keys |-> << >>], [keys |-> <<"unparsable">>],
   [home |-> "relative"], [permissions |-> {"valid", "invalid"}]}

StoresInit ==
  /\ BoltInit /\ SqlInit /\ ExpiryInit
  /\ \/ store \in {"bolt", "sql", "accounts", "expiry"} /\ AccountsOf({})
     \/ store = "listing" /\ \E S \in SUBSET (1..MaxAccount) : AccountsOf(S)

StoresNext ==
  /\ UNCHANGED store
  /\ \/ store = "bolt" /\ BoltNext /\ UNCHANGED <<table, expiryVars, accountVars>>
     \/ store = "sql" /\ SqlNext /\ UNCHANGED <<bucket, idxBucket, expiryVars, accountVars>>
     \/ store = "expiry" /\ ExpiryNext /\ UNCHANGED <<boltVars, table, accountVars>>
     \/ store = "accounts" /\ ChangesNext /\ UNCHANGED <<boltVars, table, expiryVars>>
     \/ store = "listing" /\ ListingNext /\ UNCHANGED <<boltVars, table, expiryVars>>

storesVars == <<store, boltVars, table, expiryVars, accountVars>>

\* check_user_expire runs for ever where it runs at all.
Removal == store = "expiry" /\ Scan /\ UNCHANGED <<store, boltVars, table, accountVars>>
StoresSpec == StoresInit /\ [][StoresNext]_storesVars /\ WF_storesVars(Removal)

\* Credentials survive updates that do not name them, records stay valid, and a listing by
\* pages misses nobody who stays.
AccountsKept == CredentialsKept /\ StoredValid /\ ListsEveryone

\* The SQL providers keep the directory under concurrent requests, and only quota updates
\* change what is used.
SqlKeepsUsers == SqlImplementsDirectory /\ UsedOnlyByQuota

\* The scan for expired users removes all of them, and no others.
ExpiryExact == ScanRemovesOnlyExpired /\ ExpiredIsRemoved
=============================================================================
