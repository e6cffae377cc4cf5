------------------------------ MODULE HdfsFiles ------------------------------
(***************************************************************************)
(* Operations on the tree of HDFS: the client's Mkdir, MkdirAll, Remove,   *)
(* RemoveAll, Rename and Create, and the SFTP handler of hh that uses      *)
(* them.  Each is a few calls to the namenode, between which the calls of  *)
(* other sessions happen; any call may fail, before or after its effect.   *)
(*                                                                         *)
(* A path is a sequence of names; tree maps what exists to its kind.       *)
(***************************************************************************)
EXTENDS Integers, Sequences, SequencesExt

CONSTANTS Paths,      \* the paths in use, closed under prefixes
          Trees,      \* external: initial trees
          Clients,    \* sessions with HDFS as their storage
          Methods,    \* what they are asked for
          MaxRequests,\* bound: requests of a session
          MaxFailing  \* bound: calls that fail

ASSUME HdfsFilesAssumption == \A p \in Paths : p # << >> /\ (Len(p) > 1 => Front(p) \in Paths)

VARIABLES tree,   \* external: the namenode's tree
          jobs,   \* the request that each session serves
          faults

filesVars == <<tree, jobs, faults>>

NoJob == [op |-> "none", p |-> << >>, q |-> << >>, at |-> "done", res |-> "none", n |-> 0]

FilesInit ==
  /\ tree \in Trees
  /\ jobs = [s \in Clients |-> NoJob]
  /\ faults = 0

Exists(p) == p \in DOMAIN tree
Below(p) == {r \in DOMAIN tree : IsPrefix(p, r)}
Kind(p) == IF Exists(p) THEN tree[p] ELSE "none"
HasParent(p) == Len(p) = 1 \/ Kind(Front(p)) = "dir"

-----------------------------------------------------------------------------
(* External: what the namenode does.                                       *)

Without(set) == [r \in DOMAIN tree \ set |-> tree[r]]
With(p, kind) == [r \in DOMAIN tree \cup {p} |-> IF r = p THEN kind ELSE tree[r]]

\* Each gives the answer and the tree after it.
mkdirs(p, parents) ==
  IF Kind(p) = "dir" THEN <<"ok", tree>>
  ELSE IF Kind(p) = "file" \/ (\E i \in 1..(Len(p) - 1) : Kind(SubSeq(p, 1, i)) = "file") THEN <<"exists", tree>>
  ELSE IF parents
       THEN <<"ok", [r \in DOMAIN tree \cup {SubSeq(p, 1, i) : i \in 1..Len(p)} |->
                       IF IsPrefix(r, p) THEN "dir" ELSE tree[r]]>>
       ELSE IF HasParent(p) THEN <<"ok", With(p, "dir")>> ELSE <<"missing", tree>>

delete(p, recursive) ==
  IF Below(p) \ {p} # {} /\ ~recursive THEN <<"not empty", tree>> ELSE <<"ok", Without(Below(p))>>

rename2(p, q) ==
  IF ~Exists(p) \/ ~HasParent(q) THEN <<"missing", tree>>
  ELSE IF p = q \/ IsPrefix(p, q) \/ IsPrefix(q, p) \/ (Exists(q) /\ Kind(q) # Kind(p)) THEN <<"exists", tree>>
  ELSE IF Below(q) \ {q} # {} THEN <<"not empty", tree>>
  ELSE LET moved == {r \in Below(p) : q \o SubSeq(r, Len(p) + 1, Len(r)) \in Paths}
           target(r) == q \o SubSeq(r, Len(p) + 1, Len(r))
           left == DOMAIN tree \ (Below(p) \cup {q}) IN
       <<"ok", [x \in left \cup {target(r) : r \in moved} |->
                  IF x \in left THEN tree[x] ELSE tree[CHOOSE r \in moved : target(r) = x]]>>

create(p) ==
  IF Exists(p) THEN <<"exists", tree>>
  ELSE IF HasParent(p) THEN <<"ok", With(p, "file")>> ELSE <<"missing", tree>>

-----------------------------------------------------------------------------
(* The requests.  at names the call that comes next.                       *)

First == [Mkdir |-> "info", MkdirAll |-> "info", Rmdir |-> "info", Remove |-> "info",
          RemoveAll |-> "info", Rename |-> "info", Put |-> "stat"]

\* Filecmd and Filewrite; a request that the user may not make is refused at once.
Filecmd(s) ==
  /\ jobs[s].at = "done" /\ jobs[s].n < MaxRequests
  /\ \E op \in Methods, p \in Paths, q \in Paths :
       /\ op = "Rename" \/ q = p
       /\ jobs' = [jobs EXCEPT ![s] = [op |-> op, p |-> p, q |-> q, at |-> First[op], res |-> "none", n |-> jobs[s].n + 1]]
  /\ UNCHANGED <<tree, faults>>

Denied(s) ==
  /\ jobs[s].at = "done" /\ jobs[s].n < MaxRequests
  /\ \E op \in Methods \ {"Remove"} : jobs' = [jobs EXCEPT ![s] = [NoJob EXCEPT !.op = op, !.res = "denied", !.n = jobs[s].n + 1]]
  /\ UNCHANGED <<tree, faults>>

To(s, at) == jobs' = [jobs EXCEPT ![s].at = at]
Ends(s, res) == jobs' = [jobs EXCEPT ![s].at = "done", ![s].res = res]

\* Mutant: MkdirAll returns nil for whatever is there.
mkdirFoundAny(s) == Ends(s, IF jobs[s].op = "MkdirAll" THEN "ok" ELSE "exists")

\* mkdir: the path is there already.
mkdirFound(s) == Ends(s, IF jobs[s].op = "MkdirAll" /\ Kind(jobs[s].p) = "dir" THEN "ok" ELSE "exists")

\* getFileInfo, and what each operation makes of it.
getFileInfo(s) ==
  LET j == jobs[s] IN
  /\ j.at = "info"
  /\ UNCHANGED <<tree, faults>>
  /\ CASE j.op \in {"Mkdir", "MkdirAll"} -> IF Exists(j.p) THEN mkdirFound(s) ELSE To(s, "mkdirs")
       [] j.op \in {"Rmdir", "Remove"} -> IF Exists(j.p) THEN To(s, "delete") ELSE Ends(s, "missing")
       [] j.op = "RemoveAll" -> IF Exists(j.p) THEN To(s, "delete") ELSE Ends(s, "ok")
       [] j.op = "Rename" -> To(s, "rename2")
       [] OTHER -> FALSE

\* Filewrite: Stat; a file (or anything else) that is there is removed first.
putStat(s) ==
  /\ jobs[s].at = "stat"
  /\ To(s, IF Exists(jobs[s].p) THEN "putInfo" ELSE "createInfo")
  /\ UNCHANGED <<tree, faults>>

putInfo(s) ==
  /\ jobs[s].at = "putInfo"
  /\ IF Exists(jobs[s].p) THEN To(s, "delete") ELSE Ends(s, "failure")
  /\ UNCHANGED <<tree, faults>>

\* Create looks once more.
createInfo(s) ==
  /\ jobs[s].at = "createInfo"
  /\ IF Exists(jobs[s].p) THEN Ends(s, "failure") ELSE To(s, "create")
  /\ UNCHANGED <<tree, faults>>

\* Remove and RemoveAll.
recursive(op) == op = "RemoveAll"

\* The call that changes the tree; its answer is what is returned.
Answered(s, r) == tree' = r[2] /\ Ends(s, r[1]) /\ UNCHANGED faults

Mkdir(s) == jobs[s].at = "mkdirs" /\ Answered(s, mkdirs(jobs[s].p, jobs[s].op = "MkdirAll"))

Rename(s) == jobs[s].at = "rename2" /\ Answered(s, rename2(jobs[s].p, jobs[s].q))

Create(s) == jobs[s].at = "create" /\ Answered(s, create(jobs[s].p))

\* Remove and RemoveAll.  An upload goes on with Create.
deletes(s) ==
  LET r == delete(jobs[s].p, recursive(jobs[s].op)) IN
  /\ jobs[s].at = "delete"
  /\ IF jobs[s].op = "Put" /\ r[1] = "ok" THEN tree' = r[2] /\ To(s, "createInfo") /\ UNCHANGED faults
     ELSE Answered(s, r)

\* A call fails, with or without its effect.  Filewrite goes on after a Stat that failed.
fails(s) ==
  LET j == jobs[s] IN
  /\ j.at # "done" /\ faults < MaxFailing
  /\ IF j.at = "stat" THEN To(s, "createInfo") ELSE Ends(s, "failure")
  /\ tree' \in {tree} \cup (IF j.at = "delete" THEN {delete(j.p, recursive(j.op))[2]} ELSE {})
                      \cup (IF j.at = "mkdirs" THEN {mkdirs(j.p, j.op = "MkdirAll")[2]} ELSE {})
                      \cup (IF j.at = "create" THEN {create(j.p)[2]} ELSE {})
                      \cup (IF j.at = "rename2" THEN {rename2(j.p, j.q)[2]} ELSE {})
  /\ faults' = faults + 1

FilesNext ==
  \E s \in Clients :
    \/ Filecmd(s) \/ Denied(s) \/ getFileInfo(s) \/ putStat(s) \/ putInfo(s) \/ createInfo(s)
    \/ Mkdir(s) \/ Rename(s) \/ Create(s) \/ deletes(s) \/ fails(s)

-----------------------------------------------------------------------------
\* What disappears in a step, and which job took it.
Gone == DOMAIN tree \ DOMAIN tree'

\* Only RemoveAll and Rename take what is below a directory away; Remove, Rmdir and an
\* upload take at most the path they name, whatever other sessions have put into it since
\* getFileInfo ("Remove removes the named file or (empty) directory").
TakesOnlyItsPath ==
  [][\A s \in Clients :
       jobs'[s] # jobs[s] /\ jobs[s].op \in {"Rmdir", "Remove", "Put"} => Gone \subseteq {jobs[s].p}]_filesVars

Achieved(j) ==
  CASE j.op \in {"Mkdir", "MkdirAll"} -> Kind(j.p) = "dir"
    [] j.op \in {"Rmdir", "Remove", "RemoveAll"} -> ~Exists(j.p)
    [] j.op = "Rename" -> Exists(j.q) /\ ~Exists(j.p)
    [] OTHER -> Kind(j.p) = "file"

\* When an operation returns nil, what it was asked for is true at that moment, although
\* it looked at the tree in an earlier call: "If dirname is already a directory, MkdirAll
\* does nothing and returns nil"; "If the path does not exist, RemoveAll returns nil".
ReportsTrue ==
  [][\A s \in Clients :
       jobs[s].at # "done" /\ jobs'[s].at = "done" /\ jobs'[s].res = "ok" => Achieved(jobs[s])']_filesVars
=============================================================================
