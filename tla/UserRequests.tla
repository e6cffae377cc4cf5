---------------------------- MODULE UserRequests ----------------------------
(***************************************************************************)
(* The REST requests that update or delete a user, whatever the provider:  *)
(* a request reads the user in one transaction and writes in another.      *)
(***************************************************************************)
EXTENDS Integers, FiniteSets

CONSTANTS Names,     \* user names
          Profiles,  \* what else a user record holds, but for the used quota
          Requests,  \* API requests that are served at the same time
          MaxId,     \* bound: users ever added
          MaxUsed    \* bound: the used quota

ASSUME UserRequestsAssumption == MaxId \in Nat /\ MaxUsed \in Nat

VARIABLES sequence,  \* the last id that the database assigned
          request    \* request[r]: the API request r and the user it has read

Idle == [op |-> "none"]

RequestsInit == sequence = 0 /\ request = [r \in Requests |-> Idle]

Responds(r) == request' = [request EXCEPT ![r] = Idle] /\ UNCHANGED sequence

\* A body that cannot be decoded, has another id or is not valid.
RejectBody(r) == request[r].op = "update" /\ Responds(r)
=============================================================================
