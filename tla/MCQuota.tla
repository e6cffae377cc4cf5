------------------------------ MODULE MCQuota ------------------------------
(* Instances of Quota: which slot works on which paths, and how.           *)
EXTENDS Quota

CONSTANTS p1, p2, p3, s1, s2

Commands == {"sftp", "scp", "remove", "rename", "replace", "rmdir", "mkdir"}

\* Two clients that stay apart, with a limit of one file.
Apart ==
  [own |-> [s \in Slots |-> IF s = s1 THEN Paths \ {p3} ELSE {p3}],
   ops |-> Commands \cup {"parallel", "seek"}, quotaFiles |-> 1, quotaSize |-> 0, maxCreated |-> 3]

\* Two clients that meet at the same paths while scans run, without limits.
Shared ==
  [own |-> [s \in Slots |-> Paths \ {p3}],
   ops |-> Commands \cup {"scan"}, quotaFiles |-> 0, quotaSize |-> 0, maxCreated |-> 2]

\* Uploads only, without limits.
Uploads == [Apart EXCEPT !.ops = {"sftp", "scp"}, !.quotaFiles = 0]

MCLoads == {Apart, Shared}
MCUploads == {Uploads}
=============================================================================
