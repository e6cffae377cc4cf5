--------------------------- MODULE UserDirectory ---------------------------
(***************************************************************************)
(* What the user store promises the REST API, whatever the provider: a     *)
(* user keeps the id and the name under which it was added, an id is never *)
(* given twice, names are unique, and a request for one user changes or    *)
(* removes that user only.  The quota of a user is kept elsewhere.         *)
(***************************************************************************)
EXTENDS Naturals

CONSTANTS Names, Profiles

VARIABLES directory,  \* directory[id]: the name and the profile of a user
          lastId      \* the last id given

Init == directory = << >> /\ lastId = 0

Add(n, p) ==
  /\ \A i \in DOMAIN directory : directory[i].name # n
  /\ lastId' > lastId
  /\ directory' = [i \in DOMAIN directory \cup {lastId'} |->
                     IF i = lastId' THEN [name |-> n, profile |-> p] ELSE directory[i]]

\* An id may be spent on a user that is refused.
Skip == lastId' > lastId /\ UNCHANGED directory

Update(i, p) ==
  /\ directory' = [directory EXCEPT ![i].profile = p]
  /\ UNCHANGED lastId

Delete(i) ==
  /\ directory' = [j \in DOMAIN directory \ {i} |-> directory[j]]
  /\ UNCHANGED lastId

Next ==
  \/ Skip
  \/ \E n \in Names, p \in Profiles : Add(n, p)
  \/ \E i \in DOMAIN directory : Delete(i) \/ \E p \in Profiles : Update(i, p)

DirectorySpec == Init /\ [][Next]_<<directory, lastId>>
=============================================================================
