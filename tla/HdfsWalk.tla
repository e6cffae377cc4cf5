------------------------------ MODULE HdfsWalk ------------------------------
(***************************************************************************)
(* Commands of the hdfs command that go through a tree: get and chmod and  *)
(* chown -R, which use Client.Walk; getmerge and cat; put, which walks the *)
(* local tree; and du.  And, at the end, the expansion of the arguments of *)
(* a command.  Another client may change the tree of HDFS between two of   *)
(* their calls (see HdfsShell).                                            *)
(*                                                                         *)
(* Recursion is a stack: of the paths still to be visited or, for du, of   *)
(* the open directories.  Names are numbers, in their lexical order, and   *)
(* every file has size 1.                                                  *)
(***************************************************************************)
EXTENDS HdfsShell, FiniteSets

CONSTANTS Walks,      \* [name, root, deep]: what is typed; deep is chmod -R, and du without -s
          LocalTree,  \* what put copies: << >> and what is below it
          SourceName  \* the last name of the local path that put copies

VARIABLES walk,   \* the command, its stack, where it is, the exit status
          copied  \* what get, getmerge and cat have opened or made, what chmod has
                  \* changed, the sizes that du has printed

walkVars == <<tree, stable, others, walk, copied>>

NewWalk(c) ==
  [name |-> c.name, root |-> c.root, deep |-> c.deep, kind |-> "none", status |-> 0,
   at |-> "open", stack |-> << c.root >>]

WalkInit ==
  /\ \E c \in Walks : walk = NewWalk(c)
  /\ copied = [p \in {} |-> "none"]

Walking(names, at) == walk.name \in names /\ walk.at = at
Exit(status) == walk' = [walk EXCEPT !.at = "exit", !.status = status]
Pop(stack, at) == walk' = [walk EXCEPT !.stack = stack, !.at = IF stack = << >> THEN "exit" ELSE at]
Copy(p, value) == [r \in DOMAIN copied \cup {p} |-> IF r = p THEN value ELSE copied[r]]

top == Head(walk.stack)
rest == Tail(walk.stack)

\* Readdirnames and sort.Strings, or ReadDir.
Children(t, p) ==
  SetToSortSeq({r \in DOMAIN t : Len(r) = Len(p) + 1 /\ IsPrefix(p, r)}, LAMBDA a, b : Last(a) < Last(b))

-----------------------------------------------------------------------------
(* Client.Walk, with the visitors of get and of chmod and chown.           *)

\* walk opens the path, or chmod without -R looks at it.  The visitor of get uses the
\* information about the path, which is nil when it cannot be opened, and panics.
walkOpen ==
  /\ Walking({"get", "chmod"}, "open")
  /\ IF ~Exists(top) /\ walk.name = "get" THEN Exit(2)
     ELSE IF ~Exists(top) /\ ~walk.deep THEN Exit(1)
     ELSE walk' = [walk EXCEPT !.at = "visit", !.kind = Kind(top)]
  /\ UNCHANGED <<tree, copied>>

\* Mutant: a directory that is not the root is not entered.
descendsOnce == walk.deep /\ walk.kind = "dir" /\ top = walk.root

descends == walk.deep /\ walk.kind = "dir"

Visited == IF descends THEN walk' = [walk EXCEPT !.at = "list"] ELSE Pop(rest, "open")

\* Client.Chmod, and Chown in the same way: whether the call succeeds.
Chmod(p) == Exists(p)

chmodVisit ==
  /\ Walking({"chmod"}, "visit")
  /\ IF Chmod(top) THEN copied' = Copy(top, "changed") /\ Visited
     ELSE Exit(1) /\ UNCHANGED copied
  /\ UNCHANGED tree

\* The local file is created, and then the remote one is opened.
CopyToLocal ==
  /\ copied' = Copy(top, "file")
  /\ IF Kind(top) = "file" THEN Visited ELSE Exit(1)

\* os.Mkdir or CopyToLocal.
getVisit ==
  /\ Walking({"get"}, "visit")
  /\ IF walk.kind = "dir" THEN copied' = Copy(top, "dir") /\ Visited ELSE CopyToLocal
  /\ UNCHANGED tree

\* A directory that can no longer be read is given to the visitor again, which fails.
walkNames ==
  /\ Walking({"get", "chmod"}, "list")
  /\ IF Kind(top) = "dir" THEN Pop(Children(tree, top) \o rest, "open") ELSE Exit(1)
  /\ UNCHANGED <<tree, copied>>

-----------------------------------------------------------------------------
(* getmerge and cat open all they are going to copy, and then copy it.     *)

getmergeList ==
  /\ Walking({"getmerge"}, "open")
  /\ IF Kind(walk.root) = "dir"
     THEN Pop(SelectSeq(Children(tree, walk.root), LAMBDA p : Kind(p) = "file"), "openFile")
     ELSE Exit(1)
  /\ UNCHANGED <<tree, copied>>

openNext ==
  /\ Walking({"getmerge"}, "openFile") \/ Walking({"cat"}, "open")
  /\ IF Kind(top) = "file"
     THEN /\ copied' = Copy(top, "file")
          /\ walk' = [walk EXCEPT !.stack = rest, !.at = IF rest = << >> THEN "copy" ELSE @]
     ELSE Exit(1) /\ UNCHANGED copied
  /\ UNCHANGED tree

\* io.Copy: the blocks of a file are asked for at its first Read.
copyAll ==
  /\ Walking({"getmerge", "cat"}, "copy")
  /\ Exit(IF \A p \in DOMAIN copied : Kind(p) = "file" THEN 0 ELSE 1)
  /\ UNCHANGED <<tree, copied>>

-----------------------------------------------------------------------------
(* put.  What fails is printed or ignored, and the status stays 0.         *)

\* putFromFile: "If the destination is an existing directory, place it inside."
putStatDest ==
  /\ Walking({"put"}, "open")
  /\ IF Kind(walk.root) = "file" THEN Exit(1)
     ELSE walk' = [walk EXCEPT !.at = "put", !.stack = << << >> >>,
                               !.root = IF Kind(@) = "dir" THEN Append(@, SourceName) ELSE @]
  /\ UNCHANGED <<tree, copied>>

fullDest(p) == walk.root \o p

\* filepath.Walk visits a directory and then what is in it.
putVisit ==
  /\ Walking({"put"}, "put")
  /\ Pop(Children(LocalTree, top) \o rest, "put")
  /\ tree' = IF LocalTree[top] = "file" THEN create(fullDest(top))[2]
             ELSE IF Exists(fullDest(top)) THEN tree ELSE mkdirs(fullDest(top), FALSE)[2]
  /\ UNCHANGED copied

\* putFromStdin: "If the destination exists, regardless of what it is, bail out."
putStdinStat ==
  /\ Walking({"put -"}, "open")
  /\ IF Exists(walk.root) THEN Exit(1)
     ELSE walk' = [walk EXCEPT !.at = IF Len(walk.root) > 1 THEN "parent" ELSE "create"]
  /\ UNCHANGED <<tree, copied>>

putStdinParent ==
  /\ Walking({"put -"}, "parent")
  /\ LET r == mkdirs(Front(walk.root), TRUE) IN
     /\ tree' = r[2]
     /\ IF r[1] = "ok" THEN walk' = [walk EXCEPT !.at = "create"] ELSE Exit(1)
  /\ UNCHANGED copied

putStdinCreate ==
  /\ Walking({"put -"}, "create")
  /\ tree' = create(walk.root)[2]
  /\ Exit(IF create(walk.root)[1] = "ok" THEN 0 ELSE 1)
  /\ UNCHANGED copied

-----------------------------------------------------------------------------
(* du.  The stack holds a frame for every duDir that has not returned.     *)

FilesBelow(t, p) == Cardinality({r \in DOMAIN t : IsPrefix(p, r) /\ t[r] = "file"})

\* Open and Readdir; a directory that cannot be read has no children.
Frame(p) == [dir |-> p, todo |-> IF Kind(p) = "dir" THEN Children(tree, p) ELSE << >>, size |-> 0]

duStat ==
  /\ Walking({"du"}, "open")
  /\ IF ~Exists(walk.root) THEN Exit(1) /\ UNCHANGED copied
     ELSE IF Kind(walk.root) = "file" THEN Exit(0) /\ copied' = Copy(walk.root, 1)
     ELSE walk' = [walk EXCEPT !.at = IF walk.deep THEN "duOpen" ELSE "summary"] /\ UNCHANGED copied
  /\ UNCHANGED tree

GetContentSummary(p) == FilesBelow(tree, p)

\* du -s.
duSummary ==
  /\ Walking({"du"}, "summary")
  /\ IF Exists(walk.root) THEN Exit(0) /\ copied' = Copy(walk.root, GetContentSummary(walk.root))
     ELSE Exit(1) /\ UNCHANGED copied
  /\ UNCHANGED tree

duOpen ==
  /\ Walking({"du"}, "duOpen")
  /\ walk' = [walk EXCEPT !.at = "duDir", !.stack = << Frame(walk.root) >>]
  /\ UNCHANGED <<tree, copied>>

addSize(f, size, kind) == [f EXCEPT !.size = @ + size]

\* duDir returns; the caller prints what it returns, and adds it.
DuReturn(size) ==
  /\ copied' = Copy(top.dir, size)
  /\ IF Len(walk.stack) = 1 THEN Exit(0)
     ELSE walk' = [walk EXCEPT !.stack = << addSize(Head(rest), size, "dir") >> \o Tail(rest)]

\* The next child of the directory on top; one that has gone makes duDir return 0.
duDir ==
  /\ Walking({"du"}, "duDir")
  /\ IF top.todo = << >> THEN DuReturn(top.size)
     ELSE LET child == Head(top.todo)
              left == [top EXCEPT !.todo = Tail(@)] IN
          CASE Kind(child) = "none" -> DuReturn(0)
            [] Kind(child) = "file" ->
                 /\ walk' = [walk EXCEPT !.stack = << addSize(left, 1, "file") >> \o rest]
                 /\ copied' = Copy(child, 1)
            [] Kind(child) = "dir" ->
                 /\ walk' = [walk EXCEPT !.stack = << Frame(child), left >> \o rest]
                 /\ UNCHANGED copied
  /\ UNCHANGED tree

WalkNext ==
  /\ UNCHANGED <<jobs, faults, cmd>>
  /\ \/ walk.at # "exit" /\ otherChanges /\ UNCHANGED <<walk, copied>>
     \/ /\ walkOpen \/ chmodVisit \/ getVisit \/ walkNames \/ getmergeList \/ openNext \/ copyAll
           \/ putStatDest \/ putVisit \/ putStdinStat \/ putStdinParent \/ putStdinCreate \/ duStat \/ duSummary \/ duOpen \/ duDir
        /\ UNCHANGED <<stable, others>>

-----------------------------------------------------------------------------
\* What the command was to reach: for getmerge the files of the directory, for the other
\* ones all that is below the root, or only the root.
InReach(p) ==
  CASE walk.name = "getmerge" -> Len(p) = Len(walk.root) + 1 /\ IsPrefix(walk.root, p) /\ stable[p] = "file"
    [] walk.deep -> IsPrefix(walk.root, p)
    [] OTHER -> p = walk.root

\* A status of 0 means that nothing was left out: get, getmerge, cat and chmod have come to
\* every path below their root that no other client touched, whatever was made or removed
\* beside it while they walked.
WalkComplete ==
  walk.at = "exit" /\ walk.status = 0 /\ walk.name \in {"get", "chmod", "getmerge", "cat"} =>
    \A p \in DOMAIN stable :
      InReach(p) => p \in DOMAIN copied /\ copied[p] = IF walk.name = "chmod" THEN "changed" ELSE stable[p]

\* put makes the whole local tree, in its shape, below a destination that was free and had
\* a directory to be in, if no other client interferes; and put of the standard input, which
\* makes the directories it needs, ends with a file or with an error.
PutComplete ==
  /\ walk.name = "put -" /\ walk.at = "exit" /\ walk.status = 0 => Kind(walk.root) = "file"
  /\ walk.name = "put" /\ walk.at = "exit" /\ walk.status = 0 /\ others = 0
       /\ (\A p \in DOMAIN stable : ~IsPrefix(walk.root, p)) /\ HasParent(walk.root) =>
       \A p \in DOMAIN LocalTree : Kind(fullDest(p)) = LocalTree[p]

\* The sizes that du adds up on its way are those that the namenode's summary gives, for
\* every directory it prints, if no other client interferes.
DuAddsUp ==
  walk.name = "du" /\ others = 0 => \A p \in DOMAIN copied : copied[p] = FilesBelow(tree, p)

-----------------------------------------------------------------------------
(* How the arguments become paths: normalizePaths, expandPaths and         *)
(* expandGlobs.  A part of a pattern is the set of the names that match    *)
(* it; 0, which is no name, marks one that has a glob in it.               *)

CONSTANTS GlobArgs,  \* sequences of arguments, [host, abs, parts]
          Home       \* userDir

VARIABLE glob  \* the arguments, those that are left, the stack, what was found

globVars == <<tree, stable, others, glob>>

NewGlob(args) ==
  [args |-> args, todo |-> args, stack |-> << >>, found |-> << >>, res |-> << >>, nn |-> "", at |-> "normalize"]

GlobInit == \E args \in GlobArgs : glob = NewGlob(args)

hasGlob(path) == \E i \in DOMAIN path : 0 \in path[i]
Literal(p) == [i \in DOMAIN p |-> {p[i]}]
PathOf(path) == [i \in DOMAIN path |-> CHOOSE n \in path[i] : TRUE]

differing ==
  LET host == Head(glob.todo).host IN host # "" /\ glob.nn # "" /\ glob.nn # host

\* normalizePaths, one argument after the other.
normalizePaths ==
  /\ glob.at = "normalize"
  /\ IF glob.todo = << >> THEN glob' = [glob EXCEPT !.at = "paths", !.todo = glob.args]
     ELSE IF differing THEN glob' = [glob EXCEPT !.at = "error"]
     ELSE glob' = [glob EXCEPT !.todo = Tail(@), !.nn = IF Head(glob.todo).host = "" THEN @ ELSE Head(glob.todo).host]
  /\ UNCHANGED tree

FullPath(arg) == IF arg.abs THEN arg.parts ELSE Literal(Home) \o arg.parts

\* expandPaths: a path without a glob is taken as it is.
expandPaths ==
  /\ glob.at = "paths"
  /\ IF glob.todo = << >> THEN glob' = [glob EXCEPT !.at = "ok"]
     ELSE LET p == FullPath(Head(glob.todo)) IN
          IF hasGlob(p) THEN glob' = [glob EXCEPT !.at = "globs", !.stack = << [path |-> p, dir |-> TRUE] >>, !.found = << >>]
          ELSE glob' = [glob EXCEPT !.todo = Tail(@), !.res = Append(@, PathOf(p))]
  /\ UNCHANGED tree

\* ... and one that expands to nothing is an error.
globsDone ==
  /\ glob.at = "globs" /\ glob.stack = << >>
  /\ glob' = IF glob.found = << >> THEN [glob EXCEPT !.at = "error"]
             ELSE [glob EXCEPT !.at = "paths", !.todo = Tail(@), !.res = @ \o glob.found]
  /\ UNCHANGED tree

\* next and remainder.
after(path, i) == SubSeq(path, i + 1, Len(path))

\* path.Match.
Match(part, name) == name \in part

\* expandGlobs: the directory before the first glob is read, and each name that matches
\* takes the place of the glob.
readBase(path) ==
  LET splitAt == CHOOSE i \in DOMAIN path : 0 \in path[i] /\ \A j \in 1..(i - 1) : 0 \notin path[j]
      base == PathOf(SubSeq(path, 1, splitAt - 1))
      list == SetToSortSeq({r \in DOMAIN tree : Len(r) = splitAt /\ IsPrefix(base, r) /\ Match(path[splitAt], Last(r))},
                           LAMBDA a, b : Last(a) < Last(b)) IN
  IF base # << >> /\ Kind(base) # "dir" THEN glob' = [glob EXCEPT !.at = "error"]
  ELSE glob' = [glob EXCEPT !.stack =
                  [i \in DOMAIN list |-> [path |-> Literal(list[i]) \o after(path, splitAt), dir |-> Kind(list[i]) = "dir"]] \o Tail(@)]

\* Mutant: what was found before is lost.
gatheredLast(p) == << p >>

gathered(p) == Append(glob.found, p)

\* What comes next for a name: another glob to expand, if it is a directory, or Stat.
expandGlobs ==
  /\ glob.at = "globs" /\ glob.stack # << >>
  /\ LET e == Head(glob.stack) IN
     IF hasGlob(e.path) /\ e.dir THEN readBase(e.path)
     ELSE glob' = [glob EXCEPT !.stack = Tail(@),
                     !.found = IF ~hasGlob(e.path) /\ Exists(PathOf(e.path)) THEN gathered(PathOf(e.path)) ELSE @]
  /\ UNCHANGED tree

GlobNext ==
  /\ UNCHANGED <<jobs, faults, cmd>>
  /\ \/ glob.at \notin {"ok", "error"} /\ otherChanges /\ UNCHANGED glob
     \/ (normalizePaths \/ expandPaths \/ globsDone \/ expandGlobs) /\ UNCHANGED <<stable, others>>

-----------------------------------------------------------------------------
Matches(arg, p) ==
  LET f == FullPath(arg) IN Len(p) = Len(f) /\ \A i \in DOMAIN p : p[i] \in f[i]

\* When the arguments could be expanded, nothing that matches one of them and that no other
\* client touched is missing, however many globs it takes to reach it.
GlobComplete ==
  glob.at = "ok" =>
    \A i \in DOMAIN glob.args, p \in DOMAIN stable :
      Matches(glob.args[i], p) => \E k \in DOMAIN glob.res : glob.res[k] = p

\* A command is never given a path that none of its arguments stands for, and the arguments
\* follow each other in the order in which they were typed.
GlobInOrder ==
  LET which(k) == {i \in DOMAIN glob.args : Matches(glob.args[i], glob.res[k])} IN
  /\ \A k \in DOMAIN glob.res : which(k) # {}
  /\ \A k, l \in DOMAIN glob.res : k <= l => \E i \in which(k), j \in which(l) : i <= j

\* All arguments that name a namenode name the one whose client is used ("If multiple HDFS
\* urls with differing hosts are passed in, it returns an error").
OneNamenode ==
  glob.at \in {"paths", "globs", "ok"} => \A i \in DOMAIN glob.args : glob.args[i].host \in {"", glob.nn}
=============================================================================
