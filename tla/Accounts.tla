------------------------------ MODULE Accounts ------------------------------
(***************************************************************************)
(* What the user records hold to let a user in, and how users are listed:  *)
(* validateUser and the hashing of passwords, the check of a password or   *)
(* a public key, and the pages of GET /user.  The two providers agree on   *)
(* all of this for a limit above zero.  A request that changes a user is   *)
(* one step here; BoltStore and SqlStore have its two transactions.        *)
(***************************************************************************)
EXTENDS Integers, Sequences, SequencesExt, TLC

CONSTANTS MaxAccount,     \* user names are 1..MaxAccount, in the order of the database
          ManageUsers,    \* manage_users of the configuration: 0 or 1
          Bodies,         \* what a request may carry: records with some fields of a user
          FirstBody,      \* a body that a user can be added with
          Words, Keys,    \* clear text passwords and public keys that are tried
          MaxLimit,       \* 500 in the code
          Limits,         \* limits that a listing asks for
          MaxAccountSteps \* bound: changes of users

ASSUME AccountsAssumption ==
  /\ MaxAccount \in Nat /\ MaxAccountSteps \in Nat /\ ManageUsers \in {0, 1}
  /\ MaxLimit \in Nat \ {0} /\ Limits \subseteq Nat \ {0}

VARIABLES accounts, \* accounts[name]: the record of a user
          secret,   \* history: the word and the keys that were last given to a user
          listing,  \* a client that lists the users page by page
          accountSteps

accountVars == <<accounts, secret, listing, accountSteps>>

NoPassword == [form |-> "none", word |-> ""]
NoUser == [password |-> NoPassword, keys |-> << >>, home |-> "", permissions |-> {}]
NoSecret == [word |-> "", keys |-> {}]

-----------------------------------------------------------------------------
(* Records.                                                                *)

\* Only the fields that the body has replace those of the record.
DecodeJSON(body, user) == body @@ user

valid(user) ==
  /\ user.home = "absolute"
  /\ user.password.form # "none" \/ user.keys # << >>
  /\ user.permissions # {} /\ "invalid" \notin user.permissions
  /\ \A i \in DOMAIN user.keys : user.keys[i] # "unparsable"

\* Mutant: the password is hashed even if it is a hash.
hashedAgain(password) ==
  CASE password.form = "none" -> password
    [] password.form = "clear" -> [password EXCEPT !.form = "argon2id"]
    [] OTHER -> [form |-> "argon2id", word |-> "the hash"]

\* A password that does not start like a hash is one in clear text.
hashed(password) ==
  IF password.form = "clear" THEN [password EXCEPT !.form = "argon2id"] ELSE password

validateUser(user) == [user EXCEPT !.password = hashed(@)]

\* A pbkdf2 hash that does not have its five parts is an error.
comparePbkdf2PasswordAndHash(word, password) == password.form = "pbkdf2" /\ password.word = word

checkUserAndPass(user, word) ==
  \/ user.password.form \in {"argon2id", "bcrypt"} /\ user.password.word = word
  \/ comparePbkdf2PasswordAndHash(word, user.password)

checkUserAndPubKey(user, key) ==
  \E i \in DOMAIN user.keys :
    user.keys[i] = key /\ \A j \in 1..i - 1 : user.keys[j] # "unparsable"

userExists(n) == n \in DOMAIN accounts

validateUserAndPass(n, word) ==
  word # "" /\ userExists(n) /\ checkUserAndPass(accounts[n], word)

validateUserAndPubKey(n, key) ==
  key # "" /\ userExists(n) /\ checkUserAndPubKey(accounts[n], key)

-----------------------------------------------------------------------------
(* Requests that change users.                                             *)

Given(body, old) ==
  [word |-> IF "password" \notin DOMAIN body THEN old.word
            ELSE IF body.password.form = "malformed" THEN "" ELSE body.password.word,
   keys |-> IF "keys" \notin DOMAIN body THEN old.keys ELSE ToSet(body.keys)]

Change ==
  /\ ManageUsers = 1
  /\ accountSteps < MaxAccountSteps /\ accountSteps' = accountSteps + 1

createUser(n, body) ==
  LET user == DecodeJSON(body, NoUser) IN
  /\ Change
  /\ ~userExists(n) /\ valid(user)
  /\ accounts' = (n :> validateUser(user)) @@ accounts
  /\ secret' = (n :> Given(body, NoSecret)) @@ secret
  /\ listing' = IF listing.at = "page" THEN [listing EXCEPT !.added = TRUE] ELSE listing

changeUser(n, body) ==
  /\ Change
  /\ userExists(n)
  /\ LET user == DecodeJSON(body, accounts[n]) IN
     /\ valid(user)
     /\ accounts' = [accounts EXCEPT ![n] = validateUser(user)]
     /\ secret' = [secret EXCEPT ![n] = Given(body, secret[n])]
  /\ UNCHANGED listing

removeUser(n) ==
  /\ Change
  /\ userExists(n)
  /\ accounts' = [k \in DOMAIN accounts \ {n} |-> accounts[k]]
  /\ secret' = [k \in DOMAIN secret \ {n} |-> secret[k]]
  /\ listing' = IF listing.at = "page" THEN [listing EXCEPT !.removed = TRUE] ELSE listing

-----------------------------------------------------------------------------
(* Listings.  name is 0 for all users.                                     *)

Ordered(order) ==
  LET up == SelectSeq([n \in 1..MaxAccount |-> n], userExists)
  IN IF order = "ASC" THEN up ELSE Reverse(up)

getUserNoCredentials(n) == [name |-> n, password |-> NoPassword, keys |-> << >>]

PageOf(all, limit, offset) == SubSeq(all, offset + 1, Min({offset + limit, Len(all)}))

getUsers(limit, offset, order, name) ==
  LET all == IF name = 0 THEN Ordered(order) ELSE SelectSeq(<<name>>, userExists)
      page == PageOf(all, limit, offset) IN
  [k \in DOMAIN page |-> getUserNoCredentials(page[k])]

listStart(order, limit, name) ==
  /\ listing.at = "idle"
  /\ listing' = [at |-> "page", order |-> order, limit |-> Min({limit, MaxLimit}), offset |-> 0,
                 name |-> name, got |-> << >>, added |-> FALSE, removed |-> FALSE,
                 there |-> DOMAIN accounts \cap IF name = 0 THEN 1..MaxAccount ELSE {name}]
  /\ UNCHANGED <<accounts, secret, accountSteps>>

\* The client asks on from where the last page ended until a page is empty.
listPage ==
  /\ listing.at = "page"
  /\ LET page == getUsers(listing.limit, listing.offset, listing.order, listing.name) IN
     listing' = IF page = << >>
                THEN [listing EXCEPT !.at = "done"]
                ELSE [listing EXCEPT !.got = @ \o page, !.offset = @ + Len(page)]
  /\ UNCHANGED <<accounts, secret, accountSteps>>

listEnd ==
  /\ listing.at = "done" /\ listing' = [at |-> "idle"]
  /\ UNCHANGED <<accounts, secret, accountSteps>>

-----------------------------------------------------------------------------
\* The users of S were added with FirstBody.
AccountsOf(S) ==
  /\ accounts = [n \in S |-> validateUser(DecodeJSON(FirstBody, NoUser))]
  /\ secret = [n \in S |-> Given(FirstBody, NoSecret)]
  /\ listing = [at |-> "idle"] /\ accountSteps = 0

ChangesNext ==
  \E n \in 1..MaxAccount : removeUser(n) \/ \E b \in Bodies : createUser(n, b) \/ changeUser(n, b)

ListingNext ==
  \/ \E n \in 1..MaxAccount : removeUser(n) \/ createUser(n, FirstBody)
  \/ \E order \in {"ASC", "DESC"}, limit \in Limits, name \in 0..MaxAccount : listStart(order, limit, name)
  \/ listPage
  \/ listEnd

-----------------------------------------------------------------------------
(* Properties.                                                             *)

\* Whatever updates came in between, a user is let in by the password and by the keys
\* that a request gave last, and by no other: an update that does not name the password
\* writes back the hash, which validateUser must not hash again.
CredentialsKept ==
  \A n \in 1..MaxAccount :
    /\ \A w \in Words : validateUserAndPass(n, w) <=> n \in DOMAIN secret /\ secret[n].word = w
    /\ \A k \in Keys : validateUserAndPubKey(n, k) <=> n \in DOMAIN secret /\ k \in secret[n].keys

\* Also after partial updates, every stored user has an absolute home directory, valid
\* permissions, and a password or a key; no password is stored in clear text.
StoredValid ==
  \A n \in DOMAIN accounts :
    LET user == accounts[n] IN
    /\ user.home = "absolute" /\ user.permissions # {} /\ "invalid" \notin user.permissions
    /\ user.password.form # "none" \/ user.keys # << >>
    /\ user.password.form # "clear"

\* The pages of a listing have every user that was there from the start, even if users
\* are added between two pages; without any change no user is listed twice or out of
\* order.  A deletion shifts the pages that follow, and users may be passed over.
ListsEveryone ==
  listing.at = "done" =>
    /\ ~listing.removed => listing.there \subseteq {u.name : u \in ToSet(listing.got)}
    /\ ~listing.removed /\ ~listing.added =>
         \A i, j \in DOMAIN listing.got : i < j =>
           IF listing.order = "ASC" THEN listing.got[i].name < listing.got[j].name
                                    ELSE listing.got[i].name > listing.got[j].name
    /\ \A u \in ToSet(listing.got) : u.password = NoPassword /\ u.keys = << >>
=============================================================================
