---------------------------- MODULE FileHandler ----------------------------
(***************************************************************************)
(* The handlers that sshserv gives to RequestServer: Connection, whose     *)
(* files are on the disk, and HConnection, whose files are on HDFS.  What  *)
(* a handler does with one Request is the storage calls that it makes, in  *)
(* their order, each with the errors that the handler returns when the     *)
(* call fails.  The inside of an upload is in Quota.                       *)
(*                                                                         *)
(* Then two things that take several steps: the directories that an upload *)
(* or a mkdir finds missing, and a listing that is read page by page.      *)
(***************************************************************************)
EXTENDS RequestOps

\* External: the home directory of the user.
Home == <<Root, 3>>

HasPerm(perms, perm) == perms \cap {"*", perm} # {}

\* A storage call: what is called, with which paths, and the errors of the handler.
StorageCall(fn, path, target, errs) == [fn |-> fn, path |-> path, target |-> target, errs |-> errs]
OnPath(fn, path, err) == StorageCall(fn, path, << >>, {err})

Does(calls, result) == [calls |-> calls, result |-> result]
Refuses(err) == Does(<< >>, err)

-----------------------------------------------------------------------------
(* Connection.                                                             *)

buildPath(raw) == cleanPath(Home \o raw)

\* The resolved path has to be in the home directory; symbolic links are left out.
isSubDir(p) == SubSeq(p, 1, Len(Home)) = Home

\* Resolving a path asks the disk, which can fail too.
EvalSymlinks(p, err) == OnPath("EvalSymlinks", p, err)

Fileread(q, perms) ==
  LET p == buildPath(q.path) IN
  CASE ~HasPerm(perms, "download") -> Refuses("fxPermission")
    [] ~isSubDir(p) -> Refuses("fxNoSuchFile")
    [] OTHER -> Does(<<EvalSymlinks(p, "fxNoSuchFile"), OnPath("Stat", p, "fxNoSuchFile"),
                       OnPath("Open", p, "fxFailure")>>, "nil")

\* An upload is one call here.
Filewrite(q, perms) ==
  LET p == buildPath(q.path) IN
  CASE ~HasPerm(perms, "upload") -> Refuses("fxPermission")
    [] ~isSubDir(p) -> Refuses("fxNoSuchFile")
    [] OTHER -> Does(<<EvalSymlinks(p, "fxNoSuchFile"),
                       StorageCall("Upload", p, << >>, {"fxFailure", "fxUnsupported", "fxPermission"})>>, "nil")

\* One group of attributes is set, the first of these; a size never is.
handleSFTPSetstat(p, flags) ==
  CASE Has(flags, "Permissions") -> <<OnPath("Chmod", p, "fxFailure")>>
    [] Has(flags, "UIDGID") -> <<OnPath("Chown", p, "fxFailure")>>
    [] Has(flags, "ACmodTime") -> <<OnPath("Chtimes", p, "fxFailure")>>
    [] OTHER -> << >>

\* Mutant: the link is made at the other end.
handleSFTPSymlinkSwapped(p, target) == <<StorageCall("Symlink", target, p, {"fxFailure"})>>

handleSFTPSymlink(p, target) == <<StorageCall("Symlink", p, target, {"fxFailure"})>>

\* No path, or the resolved one.
getSFTPCmdTargetPath(raw) == IF raw = << >> THEN << >> ELSE buildPath(raw)

CmdPermission ==
  [Rename |-> "rename", Rmdir |-> "delete", Mkdir |-> "create_dirs", Symlink |-> "create_symlinks", Remove |-> "delete"]

\* The calls of the method, and of SetPathPermissions behind it, whose error is only logged.
CmdCalls(method, p, target) ==
  LET chown == <<StorageCall("SetPathPermissions", IF target = << >> THEN p ELSE target, << >>, {})>> IN
  CASE method = "Rename" -> <<StorageCall("Rename", p, target, {"fxFailure"})>> \o chown
    [] method = "Rmdir" -> <<OnPath("ScanDirContents", p, "fxFailure"), OnPath("RemoveAll", p, "fxFailure")>>
    [] method = "Mkdir" -> <<OnPath("createMissingDirs", p, "fxFailure")>> \o chown
    [] method = "Symlink" -> handleSFTPSymlink(p, target) \o chown
    [] method = "Remove" -> <<OnPath("Lstat", p, "fxFailure"), OnPath("Remove", p, "fxFailure")>>

Filecmd(q, perms) ==
  LET p == buildPath(q.path)
      target == getSFTPCmdTargetPath(q.target)
      resolve == <<EvalSymlinks(p, "fxNoSuchFile")>>
                 \o (IF target = << >> THEN << >> ELSE <<EvalSymlinks(target, "fxUnsupported")>>) IN
  CASE ~isSubDir(p) -> Refuses("fxNoSuchFile")
    [] target # << >> /\ ~isSubDir(target) -> Does(<<Head(resolve)>>, "fxUnsupported")
    [] q.method = "Setstat" -> Does(resolve \o handleSFTPSetstat(p, q.flags), "nil")
    [] q.method \notin DOMAIN CmdPermission -> Does(resolve, "fxUnsupported")
    [] ~HasPerm(perms, CmdPermission[q.method]) -> Does(resolve, "fxPermission")
    [] OTHER -> Does(resolve \o CmdCalls(q.method, p, target), "fxOk")

Filelist(q, perms) ==
  LET p == buildPath(q.path)
      resolve == <<EvalSymlinks(p, "fxNoSuchFile")>> IN
  CASE ~isSubDir(p) -> Refuses("fxNoSuchFile")
    [] q.method \notin {"List", "Stat"} -> Does(resolve, "fxUnsupported")
    [] ~HasPerm(perms, "list") -> Does(resolve, "fxPermission")
    [] q.method = "List" -> Does(resolve \o <<OnPath("ReadDir", p, "fxFailure")>>, "nil")
    [] q.method = "Stat" -> Does(resolve \o <<StorageCall("Stat", p, << >>, {"fxNoSuchFile", "fxFailure"})>>, "nil")

-----------------------------------------------------------------------------
(* HConnection.  Its paths are joined to the home directory and not looked *)
(* at any further, so that building one never fails.                       *)

hFileread(q, perms) ==
  IF ~HasPerm(perms, "download") THEN Refuses("fxPermission")
  ELSE Does(<<OnPath("Open", buildPath(q.path), "fxFailure")>>, "nil")

\* A file that is there is removed before the new one is created.
hFilewrite(q, perms, there) ==
  LET p == buildPath(q.path)
      create == <<OnPath("Create", p, "fxFailure")>> IN
  IF ~HasPerm(perms, "upload") THEN Refuses("fxPermission")
  ELSE Does(IF there THEN <<OnPath("Remove", p, "fxFailure")>> \o create ELSE create, "nil")

\* The errors of the HDFS client are passed on.
ClientErrors == {"ENOENT", "other"}

hCmdCalls(method, p, target) ==
  CASE method = "Rename" -> <<StorageCall("Rename", p, target, ClientErrors)>>
    [] method = "Mkdir" -> <<StorageCall("Mkdir", p, << >>, ClientErrors)>>
    [] method \in {"Rmdir", "Remove"} -> <<StorageCall("Remove", p, << >>, ClientErrors)>>

\* Three of the four methods ask for a permission.
hFilecmd(q, perms) ==
  CASE q.method \notin {"Rename", "Rmdir", "Mkdir", "Remove"} -> Refuses("fxUnsupported")
    [] q.method # "Remove" /\ ~HasPerm(perms, CmdPermission[q.method]) -> Refuses("fxPermission")
    [] OTHER -> Does(hCmdCalls(q.method, buildPath(q.path), getSFTPCmdTargetPath(q.target)), "fxOk")

hFilelist(q, perms) ==
  LET p == buildPath(q.path) IN
  CASE q.method \notin {"List", "Stat"} -> Refuses("fxUnsupported")
    [] ~HasPerm(perms, "list") -> Refuses("fxPermission")
    [] q.method = "List" -> Does(<<OnPath("ReadDir", p, "fxFailure")>>, "nil")
    [] q.method = "Stat" -> Does(<<StorageCall("Stat", p, << >>, {"fxNoSuchFile", "fxFailure"})>>, "nil")

-----------------------------------------------------------------------------
\* The handler that RequestServer asks for a method.
HandlerFor(method) ==
  CASE method = "Get" -> "FileGet"
    [] method = "Put" -> "FilePut"
    [] method \in {"List", "Stat", "Readlink"} -> "FileList"
    [] OTHER -> "FileCmd"

Handle(backend, q, perms, there) ==
  LET h == HandlerFor(q.method) IN
  IF backend = "disk"
  THEN CASE h = "FileGet" -> Fileread(q, perms)
         [] h = "FilePut" -> Filewrite(q, perms)
         [] h = "FileList" -> Filelist(q, perms)
         [] h = "FileCmd" -> Filecmd(q, perms)
  ELSE CASE h = "FileGet" -> hFileread(q, perms)
         [] h = "FilePut" -> hFilewrite(q, perms, there)
         [] h = "FileList" -> hFilelist(q, perms)
         [] h = "FileCmd" -> hFilecmd(q, perms)

-----------------------------------------------------------------------------
(* createMissingDirs: the directories 1..DirDepth below one that exists,   *)
(* each in the one before it.  Several connections may find the same ones  *)
(* missing, and others remove directories meanwhile.                       *)

CONSTANTS Makers,    \* uploads and mkdirs on different connections
          DirDepth   \* bound: directories above the new file

VARIABLES tree,   \* how many of the directories exist
          maker,  \* maker[u]: where it is in the code
          removed \* history: a directory was removed

dirVars == <<tree, maker, removed>>

NewMaker(op) == [op |-> op, at |-> "stat", level |-> DirDepth, missing |-> << >>, disturbed |-> FALSE]

DirsInit ==
  /\ tree \in 0..DirDepth /\ removed = FALSE
  /\ maker \in [Makers -> {NewMaker("upload"), NewMaker("mkdir")}]

Active(u) == maker[u].at \notin {"done", "failed"}

\* What u does, and what the others notice when the tree changes.
MakerGoes(u, m) == maker' = [maker EXCEPT ![u] = m] /\ UNCHANGED tree
MakesDir(u, m) ==
  /\ tree' = tree + 1
  /\ maker' = [v \in Makers |-> IF v = u THEN m ELSE [maker[v] EXCEPT !.disturbed = @ \/ Active(v)]]

\* From the file upwards until a directory is there.
findNonexistentDirs(u) ==
  /\ maker[u].at = "stat"
  /\ MakerGoes(u, IF maker[u].level > tree
                  THEN [maker[u] EXCEPT !.missing = Append(@, maker[u].level), !.level = @ - 1]
                  ELSE [maker[u] EXCEPT !.at = "mkdir"])
  /\ UNCHANGED removed

\* The last one that was found missing is made first.
createMissingDirs(u) ==
  /\ maker[u].at = "mkdir" /\ maker[u].missing # << >>
  /\ IF Last(maker[u].missing) = tree + 1
     THEN MakesDir(u, [maker[u] EXCEPT !.missing = Front(@)])
     ELSE MakerGoes(u, [maker[u] EXCEPT !.at = "failed"])
  /\ UNCHANGED removed

\* A mkdir is done then; an upload creates its file.
dirsMade(u) ==
  /\ maker[u].at = "mkdir" /\ maker[u].missing = << >>
  /\ MakerGoes(u, [maker[u] EXCEPT !.at = IF maker[u].op = "mkdir" \/ tree = DirDepth THEN "done" ELSE "failed"])
  /\ UNCHANGED removed

\* External: somebody removes the innermost directory.
removeDir ==
  /\ tree > 0
  /\ tree' = tree - 1 /\ removed' = TRUE
  /\ maker' = [v \in Makers |-> [maker[v] EXCEPT !.disturbed = @ \/ Active(v)]]

DirsNext ==
  \/ \E u \in Makers : findNonexistentDirs(u) \/ createMissingDirs(u) \/ dirsMade(u)
  \/ removeDir

\* Two uploads into the same new directory can get into each other's way: the one that
\* finds a directory made which it meant to make reports a failure.  But none fails that
\* is left alone, they do not all fail unless somebody removes directories, and after a
\* success all directories are there.
MissingDirsMade ==
  /\ \A u \in Makers : maker[u].at = "failed" => maker[u].disturbed
  /\ \A u \in Makers : maker[u].at = "done" /\ ~removed => tree = DirDepth
  /\ (\A u \in Makers : maker[u].at = "failed") => removed

-----------------------------------------------------------------------------
(* A listing is read page by page, each page by one readdir packet.        *)

CONSTANTS MaxFilelist, \* entries in a page; 100 in the code
          ListLengths  \* entries in a directory

VARIABLE ls  \* the open directory: its lister, the offset, and what the client has got

PageOf(n, over) == [n |-> n, EOF |-> over]

\* ListAt of the handler for the disk.
servListAt(len, room, offset) ==
  IF offset >= len THEN PageOf(0, TRUE)
  ELSE LET maxlen == IF offset + room > len THEN len ELSE offset + room IN
       PageOf(maxlen - offset, maxlen - offset < room)

\* ListAt of the handler for HDFS.
hhListAt(len, room, offset) ==
  IF offset >= len THEN PageOf(0, TRUE)
  ELSE LET right_n == IF room < len - offset THEN room ELSE len - offset IN
       PageOf(right_n, right_n < room)

\* ListAt of the handler that keeps its files in memory: copy takes what there is room for.
memListAt(len, room, offset) ==
  IF offset >= len THEN PageOf(0, TRUE)
  ELSE LET n == CHOOSE k \in {room, len - offset} : k <= room /\ k <= len - offset IN PageOf(n, n < room)

ListAt(room) ==
  CASE ls.lister = "serv" -> servListAt(ls.len, room, ls.offset)
    [] ls.lister = "hh" -> hhListAt(ls.len, room, ls.offset)
    [] ls.lister = "mem" -> memListAt(ls.len, room, ls.offset)

ListInit ==
  \E lister \in {"serv", "hh", "mem"}, len \in ListLengths :
    ls = [lister |-> lister, len |-> len, offset |-> 0, got |-> << >>, over |-> FALSE]

\* lsNext, ListAt and lsInc; the end is told only when there is nothing to send.
filelist ==
  /\ ~ls.over
  /\ LET page == ListAt(MaxFilelist) IN
     ls' = [ls EXCEPT !.offset = @ + page.n, !.got = @ \o [i \in 1..page.n |-> ls.offset + i],
                      !.over = page.EOF /\ page.n = 0]

\* The client gets every entry once and in order before it is told the end, also from
\* a directory whose last page is full.
ListedOnce ==
  /\ ls.got = [i \in 1..ls.offset |-> i]
  /\ ls.over => ls.offset = ls.len
=============================================================================
