----------------------------- MODULE RequestOps -----------------------------
(***************************************************************************)
(* What the two SFTP servers of the package make of one request.           *)
(* RequestServer turns it into a Request and asks a handler; Server calls  *)
(* the operating system.  Both turn the result into a reply.               *)
(*                                                                         *)
(* A path is a sequence of words, one for each component; Root stands for  *)
(* a slash at the start.                                                   *)
(***************************************************************************)
EXTENDS Wire

Root == 9
Dot == 8
DotDot == 7

\* A path made absolute and clean: "." goes, ".." takes the component before it.
cleanPath(p) ==
  <<Root>> \o FoldLeft(LAMBDA s, c : IF c \in {Root, Dot} THEN s
                                     ELSE IF c # DotDot THEN Append(s, c)
                                     ELSE IF s = << >> THEN s ELSE Front(s),
                       << >>, p)

PFlag == [Read |-> 1, Write |-> 2, Append |-> 4, Creat |-> 8, Trunc |-> 16, Excl |-> 32]

\* newFileOpenFlags, one flag at a time.
PHas(flags, name) == (flags \div PFlag[name]) % 2 = 1

-----------------------------------------------------------------------------
(* RequestServer: the Request for a packet of kind r with the fields p.    *)

Request(method, path, target, flags, attrs) ==
  [method |-> method, path |-> path, target |-> target, flags |-> flags, attrs |-> attrs]

NewRequest(method, path) == Request(method, cleanPath(path), << >>, 0, << >>)

\* The method that a packet by path stands for; open and opendir set theirs themselves.
requestMethod ==
  [setstat |-> "Setstat", rename |-> "Rename", symlink |-> "Symlink", remove |-> "Remove",
   stat |-> "Stat", lstat |-> "Lstat", rmdir |-> "Rmdir", readlink |-> "Readlink",
   mkdir |-> "Mkdir", hardlink |-> "Link", open |-> "", opendir |-> ""]

\* getPath of the packet.
getPath(r, p) ==
  CASE r = "remove" -> p.Filename
    [] r \in {"rename", "hardlink", "posixRename"} -> p.Oldpath
    [] r = "symlink" -> p.Targetpath
    [] OTHER -> p.Path

requestFromPacket(r, p) ==
  LET q == NewRequest(requestMethod[r], getPath(r, p)) IN
  CASE r = "open" -> [q EXCEPT !.flags = p.Pflags]
    [] r = "setstat" -> [q EXCEPT !.flags = p.Flags, !.attrs = p.Attrs]
    [] r = "rename" -> [q EXCEPT !.target = cleanPath(p.Newpath)]
    [] r = "symlink" -> [q EXCEPT !.target = cleanPath(p.Linkpath)]
    [] r = "hardlink" -> [q EXCEPT !.target = cleanPath(p.Newpath)]
    [] OTHER -> q

\* open: the handler that a request to open a file is for.
openMethod(flags, canOpenFile) ==
  CASE \E f \in {"Write", "Append", "Creat", "Trunc"} : PHas(flags, f) ->
         IF PHas(flags, "Read") /\ canOpenFile THEN "Open" ELSE "Put"
    [] PHas(flags, "Read") -> "Get"
    [] OTHER -> "bad flags"

\* filecmd and filestat: a handler without the optional method is asked the common one.
filecmdMethod(method, canPosixRename) ==
  IF method = "PosixRename" /\ ~canPosixRename THEN "Rename" ELSE method
filestatMethod(method, canLstat) ==
  IF method = "Lstat" /\ ~canLstat THEN "Stat" ELSE method

\* packetWorker: the Request that is put to the handlers.  h is the open request that
\* the packet's handle stands for, can the optional methods that the handlers have.
packetWorker(r, p, h, can) ==
  CASE r = "opendir" -> [NewRequest("List", p.Path) EXCEPT !.method = "List"]
    [] r = "open" -> LET q == requestFromPacket(r, p) IN
                     [q EXCEPT !.method = openMethod(q.flags, "OpenFile" \in can)]
    [] r = "fstat" -> NewRequest("Stat", h.path)
    [] r = "fsetstat" -> [NewRequest("Setstat", h.path) EXCEPT !.flags = p.Flags, !.attrs = p.Attrs]
    [] r = "posixRename" -> [NewRequest(filecmdMethod("PosixRename", "PosixRename" \in can), p.Oldpath)
                               EXCEPT !.target = p.Newpath]
    [] r \in {"read", "write", "readdir"} -> h
    [] r \in DOMAIN requestMethod -> LET q == requestFromPacket(r, p) IN
                                     [q EXCEPT !.method = filestatMethod(@, "Lstat" \in can)]
    [] OTHER -> NewRequest("unsupported", << >>)

\* call and the functions behind it: whether an open request serves a packet.
Serves(method, r) ==
  CASE method = "Get" -> r = "read"
    [] method = "Put" -> r = "write"
    [] method = "Open" -> r \in {"read", "write"}
    [] method = "List" -> r = "readdir"
    [] OTHER -> FALSE

-----------------------------------------------------------------------------
(* Replies: their type and their body.                                     *)

\* External: the errors that a handler or the operating system returns.
Errors == {"nil", "EOF", "ENOENT", "EPERM", "errno", "fxOk", "fxNoSuchFile", "fxPermission", "fxFailure", "fxUnsupported", "other"}

translateErrno(err) ==
  CASE err = "ENOENT" -> 2
    [] err = "EPERM" -> 3
    [] OTHER -> 4

\* The status code for an error: not-exist first, then error numbers, codes, and EOF.
statusFromError(err) ==
  CASE err = "nil" -> 0
    [] err \in {"ENOENT", "EPERM", "errno"} -> translateErrno(err)
    [] err = "fxOk" -> 0
    [] err = "fxNoSuchFile" -> 2
    [] err = "fxPermission" -> 3
    [] err = "fxUnsupported" -> 8
    [] err = "EOF" -> 1
    [] OTHER -> 4

Reply(typ, b) == [typ |-> typ, b |-> b]

sshFxpStatusPacket(id, err) == Reply(101, marshalUint32(marshalUint32(<< >>, id), statusFromError(err)))
sshFxpHandlePacket(id, handle) == Reply(102, marshalString(marshalUint32(<< >>, id), handle))
sshFxpDataPacket(id, data) == Reply(103, marshalUint32(marshalUint32(<< >>, id), Len(data)) \o data)

\* A name with a long name and attributes without any field.
sshFxpNameAttr(name) == marshalUint32(marshalString(marshalString(<< >>, name), name), 0)

sshFxpNamePacket(id, names) ==
  Reply(104, FoldLeft(LAMBDA b, n : b \o sshFxpNameAttr(n),
                      marshalUint32(marshalUint32(<< >>, id), Len(names)), names))

sshFxpStatResponse(id, flags, st) ==
  Reply(105, MarshalFields(marshalUint32(marshalUint32(<< >>, id), flags), marshalFileInfo(flags), st))

StatVFSReply(id) == Reply(201, marshalUint32(<< >>, id))

-----------------------------------------------------------------------------
(* Server: the call to the operating system for a packet.                  *)

OSCall(fn, path, target) == [fn |-> fn, path |-> path, target |-> target]

OpenMode(flags) ==
  CASE PHas(flags, "Read") /\ PHas(flags, "Write") -> "RDWR"
    [] PHas(flags, "Write") -> "WRONLY"
    [] PHas(flags, "Read") -> "RDONLY"
    [] OTHER -> "EINVAL"

handlePacket(r, p) ==
  CASE r = "stat" -> OSCall("Stat", p.Path, << >>)
    [] r = "lstat" -> OSCall("Lstat", p.Path, << >>)
    [] r = "mkdir" -> OSCall("Mkdir", p.Path, << >>)
    [] r = "rmdir" -> OSCall("Remove", p.Path, << >>)
    [] r = "remove" -> OSCall("Remove", p.Filename, << >>)
    [] r = "rename" -> OSCall("Rename", p.Oldpath, p.Newpath)
    [] r = "posixRename" -> OSCall("Rename", p.Oldpath, p.Newpath)
    [] r = "hardlink" -> OSCall("Link", p.Oldpath, p.Newpath)
    [] r = "symlink" -> OSCall("Symlink", p.Targetpath, p.Linkpath)
    [] r = "readlink" -> OSCall("Readlink", p.Path, << >>)
    [] r = "setstat" -> OSCall("Setstat", p.Path, << >>)
    [] r = "open" -> OSCall("OpenFile", p.Path, << >>)
    [] r = "opendir" -> OSCall("Opendir", p.Path, << >>)
    [] r = "statvfs" -> OSCall("Statfs", p.Path, << >>)
    [] r \in {"fstat", "fsetstat", "read", "write", "readdir", "close"} -> OSCall(r, p.Handle, << >>)
    [] OTHER -> OSCall("unsupported", << >>, << >>)

\* The packets that a server in read-only mode refuses.
notReadOnly ==
  {"write", "setstat", "fsetstat", "remove", "mkdir", "rmdir", "rename", "symlink", "posixRename"}

\* A hard link passes for an operation that only reads.
readonly(r, p) ==
  CASE r = "open" -> ~PHas(p.Pflags, "Write")
    [] OTHER -> r \notin notReadOnly
=============================================================================
