----------------------------- MODULE ClientPaths -----------------------------
(***************************************************************************)
(* The operations of the SFTP client that take several requests: MkdirAll, *)
(* Remove and ReadDir, made by several goroutines or clients at once on    *)
(* one remote tree.  Every request is a step of its own, so that the tree  *)
(* can change between two requests of an operation.                        *)
(***************************************************************************)
EXTENDS Integers, Sequences, FiniteSets

CONSTANTS Users,   \* the goroutines that call
          Names,   \* names of files
          MaxDepth \* bound: components of the longest path

VARIABLES tree,    \* external: the remote tree, "dir" or "file" for each path
          user,    \* user[u]: the operation that u is in
          listing     \* external: listing[u]: the names that the handle of u has still to list

pathVars == <<tree, user, listing>>

RemotePaths == UNION {[1..n -> Names] : n \in 1..MaxDepth}
Up(p) == SubSeq(p, 1, Len(p) - 1)

IsDir(p) == p = << >> \/ (p \in DOMAIN tree /\ tree[p] = "dir")
Exists(p) == p \in DOMAIN tree
Children(p) == {q \in DOMAIN tree : Len(q) = Len(p) + 1 /\ Up(q) = p}

NoOp == [op |-> "none", path |-> << >>, at |-> "idle", k |-> 0, err |-> "nil", names |-> {},
         had |-> {}, alone |-> TRUE]

PathInit ==
  /\ tree \in {<< >>} \cup {[p \in {<<n>>} |-> kind] : n \in Names, kind \in {"dir", "file"}}
              \cup {[p \in {<<n>>, <<n, m>>} |-> IF Len(p) = 1 THEN "dir" ELSE kind] :
                      n, m \in Names, kind \in {"dir", "file"}}
  /\ user = [u \in Users |-> NoOp]
  /\ listing = << >>

Prefix(u) == SubSeq(user[u].path, 1, user[u].k)

\* A step of u that leaves the tree alone, and one that changes it.
Goes(u, r) == user' = [user EXCEPT ![u] = r] /\ UNCHANGED tree
Changes(u, r, t) ==
  /\ tree' = t
  /\ user' = [v \in Users |-> IF v = u THEN r ELSE [user[v] EXCEPT !.alone = FALSE]]

Return(u, err) == [user[u] EXCEPT !.at = "done", !.err = err]

Start(u) ==
  /\ user[u].at = "idle"
  /\ \E op \in {"MkdirAll", "Remove", "ReadDir"}, p \in RemotePaths :
       Goes(u, [NoOp EXCEPT !.op = op, !.path = p, !.k = Len(p),
                            !.had = IF Exists(p) THEN {tree[p]} \cup {"full" : c \in Children(p)} ELSE {},
                            !.at = CASE op = "MkdirAll" -> "stat" [] op = "Remove" -> "remove"
                                     [] OTHER -> "opendir"])
  /\ UNCHANGED listing

-----------------------------------------------------------------------------
(* External: what the server does for a request on a path.                 *)

CanMkdir(p) == IsDir(Up(p)) /\ ~Exists(p)
Made(p) == [q \in DOMAIN tree \cup {p} |-> IF q = p THEN "dir" ELSE tree[q]]
Without(p) == [q \in DOMAIN tree \ {p} |-> tree[q]]

-----------------------------------------------------------------------------
(* MkdirAll calls itself for the parent; k is the length of the path that  *)
(* the innermost call works on.                                            *)

\* A directory ends the call; a file ends all of them; an error asks for the parent first.
MkdirAllStat(u) ==
  /\ user[u].at = "stat"
  /\ Goes(u, CASE IsDir(Prefix(u)) ->
                    IF user[u].k = Len(user[u].path) THEN Return(u, "nil")
                    ELSE [user[u] EXCEPT !.at = "mkdir", !.k = @ + 1]
               [] Exists(Prefix(u)) -> Return(u, "ENOTDIR")
               [] user[u].k > 1 -> [user[u] EXCEPT !.k = @ - 1]
               [] OTHER -> [user[u] EXCEPT !.at = "mkdir"])
  /\ UNCHANGED listing

\* A call has made its directory, or found it there: the caller's turn.
Inner(u) ==
  IF user[u].k = Len(user[u].path) THEN Return(u, "nil")
  ELSE [user[u] EXCEPT !.at = "mkdir", !.k = @ + 1]

MkdirAllMkdir(u) ==
  /\ user[u].at = "mkdir"
  /\ IF CanMkdir(Prefix(u)) THEN Changes(u, Inner(u), Made(Prefix(u)))
     ELSE Goes(u, [user[u] EXCEPT !.at = "lstat", !.err = "mkdir"])
  /\ UNCHANGED listing

\* Mutant: the error of Mkdir is returned without a second look.
MkdirAllLstatNever(u) ==
  /\ user[u].at = "lstat"
  /\ Goes(u, Return(u, "mkdir"))
  /\ UNCHANGED listing

\* Mkdir failed: if the directory is there after all, that is fine.
MkdirAllLstat(u) ==
  /\ user[u].at = "lstat"
  /\ Goes(u, IF IsDir(Prefix(u)) THEN [Inner(u) EXCEPT !.err = "nil"] ELSE Return(u, "mkdir"))
  /\ UNCHANGED listing

-----------------------------------------------------------------------------
(* Remove tries the path as a file, and then as a directory.               *)

\* The errors by which servers refuse to remove a directory as a file.
removeFile(u) ==
  /\ user[u].at = "remove"
  /\ LET p == user[u].path IN
     CASE ~Exists(p) -> Goes(u, Return(u, "not exist"))
       [] Exists(p) /\ tree[p] = "file" -> Changes(u, Return(u, "nil"), Without(p))
       [] OTHER -> \E code \in {"failure", "is a directory", "permission"} :
                     Goes(u, [user[u] EXCEPT !.at = "rmdir", !.err = code])
  /\ UNCHANGED listing

RemoveDirectory(u) ==
  /\ user[u].at = "rmdir"
  /\ LET p == user[u].path IN
     CASE ~Exists(p) -> Goes(u, Return(u, "not exist"))
       [] Exists(p) /\ tree[p] = "dir" /\ Children(p) = {} -> Changes(u, Return(u, "nil"), Without(p))
       [] OTHER -> Goes(u, Return(u, "failure"))
  /\ UNCHANGED listing

-----------------------------------------------------------------------------
(* ReadDir opens the directory, reads pages until a status, and closes it. *)

opendir(u) ==
  /\ user[u].at = "opendir"
  /\ LET p == user[u].path IN
     IF IsDir(p) THEN /\ listing' = [v \in DOMAIN listing \cup {u} |-> IF v = u THEN Children(p) ELSE listing[v]]
                      /\ Goes(u, [user[u] EXCEPT !.at = "readdir"])
     ELSE Goes(u, Return(u, "failure")) /\ UNCHANGED listing

\* A page of names, or the status that ends the listing: EOF at the end, or an error.
readdir(u) ==
  /\ user[u].at = "readdir"
  /\ \/ \E page \in SUBSET listing[u] :
          /\ page # {}
          /\ listing' = [listing EXCEPT ![u] = @ \ page]
          /\ Goes(u, [user[u] EXCEPT !.names = @ \cup page])
     \/ /\ listing[u] = {}
        /\ Goes(u, [user[u] EXCEPT !.at = "close"])
        /\ UNCHANGED listing
     \/ /\ Goes(u, [user[u] EXCEPT !.at = "close", !.err = "failure"])
        /\ UNCHANGED listing

\* The deferred close, which runs on every way out.
closeDir(u) ==
  /\ user[u].at = "close"
  /\ listing' = [v \in DOMAIN listing \ {u} |-> listing[v]]
  /\ Goes(u, [user[u] EXCEPT !.at = "done"])

-----------------------------------------------------------------------------
PathNext ==
  \E u \in Users :
    \/ Start(u) \/ MkdirAllStat(u) \/ MkdirAllMkdir(u) \/ MkdirAllLstat(u)
    \/ removeFile(u) \/ RemoveDirectory(u) \/ opendir(u) \/ readdir(u) \/ closeDir(u)

PathSpec == PathInit /\ [][PathNext]_pathVars

-----------------------------------------------------------------------------
Returned(u, op) == user[u].op = op /\ user[u].at = "done"
NobodyRemoves == \A u \in Users : user[u].op # "Remove"
FileInTheWay(p) == \E k \in 1..Len(p) : Exists(SubSeq(p, 1, k)) /\ tree[SubSeq(p, 1, k)] = "file"

\* MkdirAll's comment, for calls that run at the same time: while nobody removes anything,
\* it returns nil exactly when the path and all its parents are directories; another call
\* that makes the same directories first does not make it fail.
MkdirAllIsConcurrent ==
  \A u \in Users : Returned(u, "MkdirAll") /\ NobodyRemoves =>
    IF FileInTheWay(user[u].path) THEN user[u].err # "nil" ELSE user[u].err = "nil" /\ IsDir(user[u].path)

\* Remove's comment, when nobody else changes the tree: an error exactly if there is no
\* such file or directory, or the directory is not empty, whichever of the errors the
\* server uses to say that the path is a directory.
RemoveRemoves ==
  \A u \in Users : Returned(u, "Remove") /\ user[u].alone =>
    /\ user[u].err = "nil" <=> user[u].had \in {{"file"}, {"dir"}}
    /\ user[u].err = "nil" => ~Exists(user[u].path)

\* A ReadDir that has returned holds no handle, also after an error; without one it has
\* every name that was in the directory when it was opened.
ReadDirLeavesNothingOpen ==
  \A u \in Users : Returned(u, "ReadDir") =>
    /\ u \notin DOMAIN listing
    /\ user[u].err = "nil" /\ user[u].alone => user[u].names = Children(user[u].path)
=============================================================================
