------------------------------ MODULE Exchange ------------------------------
(***************************************************************************)
(* One operation of the SFTP client against a server of the same package:  *)
(* the call becomes a packet, the server reads it and asks a handler or    *)
(* the operating system, the result becomes a reply, and the client reads  *)
(* that.  Every operation, argument, result and cut of the request is      *)
(* tried, with both servers; behind RequestServer is a handler that may    *)
(* return anything, or one of those of sshserv.                            *)
(***************************************************************************)
EXTENDS FileHandler, TLC

-----------------------------------------------------------------------------
(***************************************************************************)
(* The operations of the SFTP client that are one request and one reply:   *)
(* the packet each one sends, the kind of reply it wants, and what it      *)
(* returns for a reply.  a holds the arguments of the call.                *)
(***************************************************************************)

Send(req, want, p) == [req |-> req, want |-> want, p |-> p]

opendir(id, a)   == Send("opendir", "handle", [ID |-> id, Path |-> a.path])
Stat(id, a)      == Send("stat", "attrs", [ID |-> id, Path |-> a.path])
Lstat(id, a)     == Send("lstat", "attrs", [ID |-> id, Path |-> a.path])
ReadLink(id, a)  == Send("readlink", "name", [ID |-> id, Path |-> a.path])
Link(id, a)      == Send("hardlink", "status",
                         [ID |-> id, ExtendedRequest |-> Ext.hardlink, Oldpath |-> a.path, Newpath |-> a.to])
Symlink(id, a)   == Send("symlink", "status", [ID |-> id, Linkpath |-> a.to, Targetpath |-> a.path])
setfstat(id, a)  == Send("fsetstat", "status",
                         [ID |-> id, Handle |-> a.handle, Flags |-> a.flags, Attrs |-> a.attrs])
setstat(id, a)   == Send("setstat", "status",
                         [ID |-> id, Path |-> a.path, Flags |-> a.flags, Attrs |-> a.attrs])
open(id, a)      == Send("open", "handle", [ID |-> id, Path |-> a.path, Pflags |-> a.pflags, Flags |-> 0])
close(id, a)     == Send("close", "status", [ID |-> id, Handle |-> a.handle])
fstat(id, a)     == Send("fstat", "attrs", [ID |-> id, Handle |-> a.handle])
StatVFS(id, a)   == Send("statvfs", "extended",
                         [ID |-> id, ExtendedRequest |-> Ext.statvfs, Path |-> a.path])
removeFile(id, a) == Send("remove", "status", [ID |-> id, Filename |-> a.path])
RemoveDirectory(id, a) == Send("rmdir", "status", [ID |-> id, Path |-> a.path])
Rename(id, a)    == Send("rename", "status", [ID |-> id, Oldpath |-> a.path, Newpath |-> a.to])
PosixRename(id, a) == Send("posixRename", "status",
                         [ID |-> id, ExtendedRequest |-> Ext.posixRename, Oldpath |-> a.path, Newpath |-> a.to])
realpath(id, a)  == Send("realpath", "name", [ID |-> id, Path |-> a.path])
Mkdir(id, a)     == Send("mkdir", "status", [ID |-> id, Path |-> a.path, Flags |-> 0])
Sync(id, a)      == Send("fsync", "status",
                         [ID |-> id, ExtendedRequest |-> Ext.fsync, Handle |-> a.handle])

\* One turn of the loop of ReadDir.
ReadDir(id, a)   == Send("readdir", "names", [ID |-> id, Handle |-> a.handle])

\* One request of ReadAt and of Write; ClientFile has the transfers.
sendRead(id, a)  == Send("read", "data", [ID |-> id, Handle |-> a.handle, Offset |-> a.offset, Len |-> Len(a.data)])
sendWrite(id, a) == Send("write", "status",
                         [ID |-> id, Handle |-> a.handle, Offset |-> a.offset, Length |-> Len(a.data), Data |-> a.data])

Operation(op, id, a) ==
  CASE op = "opendir" -> opendir(id, a)
    [] op = "Stat" -> Stat(id, a)
    [] op = "Lstat" -> Lstat(id, a)
    [] op = "ReadLink" -> ReadLink(id, a)
    [] op = "Link" -> Link(id, a)
    [] op = "Symlink" -> Symlink(id, a)
    [] op = "setfstat" -> setfstat(id, a)
    [] op = "setstat" -> setstat(id, a)
    [] op = "open" -> open(id, a)
    [] op = "close" -> close(id, a)
    [] op = "fstat" -> fstat(id, a)
    [] op = "StatVFS" -> StatVFS(id, a)
    [] op = "removeFile" -> removeFile(id, a)
    [] op = "RemoveDirectory" -> RemoveDirectory(id, a)
    [] op = "Rename" -> Rename(id, a)
    [] op = "PosixRename" -> PosixRename(id, a)
    [] op = "realpath" -> realpath(id, a)
    [] op = "Mkdir" -> Mkdir(id, a)
    [] op = "Sync" -> Sync(id, a)
    [] op = "ReadDir" -> ReadDir(id, a)
    [] op = "sendRead" -> sendRead(id, a)
    [] op = "sendWrite" -> sendWrite(id, a)

ByPath == {"opendir", "Stat", "Lstat", "ReadLink", "Link", "Symlink", "setstat", "open", "StatVFS",
           "removeFile", "RemoveDirectory", "Rename", "PosixRename", "realpath", "Mkdir"}
ByHandle == {"setfstat", "close", "fstat", "Sync", "ReadDir", "sendRead", "sendWrite"}

-----------------------------------------------------------------------------
(* Replies.                                                                *)

\* The errors that a status code becomes.
normaliseError(code) ==
  CASE code = 1 -> "EOF"
    [] code = 2 -> "not exist"
    [] code = 3 -> "permission"
    [] code = 0 -> "nil"
    [] OTHER -> "status"

\* The message and the language are for people and are left out of the body.
unmarshalStatus(id, b) == IF b[1] # id THEN "unexpected id" ELSE normaliseError(b[2])

Nothing == << >>
Answer(value, err) == [value |-> value, err |-> err]

\* The id of a reply with a value is compared before the value is read.
IfExpected(id, b, value) == IF b[1] # id THEN Answer(Nothing, "unexpected id") ELSE Answer(value, "nil")

\* A reply of names where one is wanted.
nameReply(id, b) ==
  IF b[1] = id /\ b[2] # 1 THEN Answer(Nothing, "unexpected count")
  ELSE IfExpected(id, b, unmarshalStringSafe(SubSeq(b, 3, Len(b))).v)

\* What the operation that wants this kind of reply makes of a reply.
Decode(want, id, typ, b) ==
  CASE typ = 101 /\ want = "extended" -> Answer(Nothing, "status")
    [] typ = 101 -> Answer(Nothing, unmarshalStatus(id, b))
    [] typ = 102 /\ want = "handle" -> IfExpected(id, b, unmarshalStringSafe(Tail(b)).v)
    [] typ = 103 /\ want = "data" -> IfExpected(id, b, SubSeq(b, 3, 2 + b[2]))
    [] typ = 104 /\ want = "name" -> nameReply(id, b)
    [] typ = 104 /\ want = "names" -> IfExpected(id, b, SubSeq(b, 3, Len(b)))
    [] typ = 105 /\ want = "attrs" -> IfExpected(id, b, getFileStat(b[2], SubSeq(b, 3, Len(b))).p)
    [] typ = 201 /\ want = "extended" -> Answer(Tail(b), "nil")
    [] OTHER -> Answer(Nothing, "unimplemented")

-----------------------------------------------------------------------------
CONSTANTS Paths,    \* paths a caller passes
          Pflags,   \* flags a caller opens files with
          Offsets   \* offsets a caller reads or writes at

VARIABLE x  \* the exchange

exchangeVars == <<x>>

Id == 3
KnownHandle == <<5>>
Handles == {KnownHandle, <<6>>}

\* Attributes to set: every combination of fields, with values that differ.
AttrValues == [Size |-> 70, UID |-> 11, GID |-> 12, Mode |-> 13, Atime |-> 14, Mtime |-> 15]
AttrsOf(flags) == MarshalFields(<< >>, marshalFileInfo(flags), AttrValues)

NoArgs == [path |-> << >>, to |-> << >>, handle |-> KnownHandle, flags |-> 0, attrs |-> << >>,
           pflags |-> 1, offset |-> 0, data |-> <<1, 2>>]

\* The arguments that an operation has, varied.
Args(op) ==
  CASE op \in {"Link", "Symlink", "Rename", "PosixRename"} ->
         {[NoArgs EXCEPT !.path = p, !.to = q] : p, q \in Paths}
    [] op = "setstat" ->
         {[NoArgs EXCEPT !.path = p, !.flags = f, !.attrs = AttrsOf(f)] : p \in Paths, f \in 0..15}
    [] op = "setfstat" ->
         {[NoArgs EXCEPT !.handle = h, !.flags = f, !.attrs = AttrsOf(f)] : h \in Handles, f \in 0..15}
    [] op = "open" -> {[NoArgs EXCEPT !.path = p, !.pflags = f] : p \in Paths, f \in Pflags}
    [] op \in {"sendRead", "sendWrite"} ->
         {[NoArgs EXCEPT !.handle = h, !.offset = o] : h \in Handles, o \in Offsets}
    [] op \in ByHandle -> {[NoArgs EXCEPT !.handle = h] : h \in Handles}
    [] OTHER -> {[NoArgs EXCEPT !.path = p] : p \in Paths}

\* The request behind the known handle: what it was opened for.
OpenRequest(method) == Request(method, <<Root, 1>>, << >>, 0, << >>)

\* What is behind RequestServer: handlers with the optional methods can that return
\* anything, or a backend of sshserv, a user with the permissions perms, and whether the
\* path is there.
AnyHandler(can) == [backend |-> "any", can |-> can, perms |-> {}, there |-> FALSE]
Backends == [backend : {"disk", "hdfs"}, can : {{}}, perms : {{"*"}, {"download", "list"}}, there : BOOLEAN]

Starting(op, a, side, method, behind, ro) ==
  [at |-> "call", op |-> op, a |-> a, side |-> side, h |-> OpenRequest(method), behind |-> behind,
   did |-> << >>, ro |-> ro, closing |-> FALSE, body |-> << >>, whole |-> TRUE, got |-> << >>, asked |-> << >>,
   result |-> "nil", reply |-> << >>, answer |-> << >>]

ExchangeInit ==
  \E op \in ByPath \cup ByHandle, side \in {"RequestServer", "Server"}, method \in {"Get", "Put", "Open", "List"},
     behind \in {AnyHandler({}), AnyHandler({"Lstat", "PosixRename", "OpenFile"})} \cup Backends,
     ro \in BOOLEAN : \E a \in Args(op) :
    /\ op \in ByPath => method = "Get"
    /\ side = "Server" => behind = AnyHandler({}) /\ method = "Get"
    /\ side = "RequestServer" => ~ro
    /\ behind.backend # "any" => op \in ByPath \cup {"setfstat", "fstat"} /\ method = "Get"
    /\ behind.there => behind.backend = "hdfs" /\ op = "open"
    /\ x = Starting(op, a, side, method, behind, ro)

Op == Operation(x.op, Id, x.a)

\* sendPacket marshals the packet; the server may receive only a part of it, whatever the
\* backend is.
sendRequest ==
  /\ x.at = "call"
  /\ LET b == MarshalFields(<< >>, Requests[Op.req].m, Op.p) IN
     \E k \in (IF x.behind.backend = "any" THEN 0..Len(b) ELSE {Len(b)}) :
       x' = [x EXCEPT !.at = "sent", !.body = SubSeq(b, 1, k), !.whole = k = Len(b)]

Unpacked == makePacket(Requests[Op.req].typ, x.body)

\* serveLoop closes the connection on a packet that it cannot read.
receiveBadPacket ==
  /\ x.at = "sent" /\ Unpacked.err = "short" /\ x.side = "RequestServer"
  /\ x' = [x EXCEPT !.at = "closed", !.closing = TRUE]

\* What a packet holds where nothing was read.
ZeroOf(name) == IF name \in Words32 \cup Words64 THEN 0 ELSE << >>
Filled(p, names) == [n \in DOMAIN p \cup Range(names) |-> IF n \in DOMAIN p THEN p[n] ELSE ZeroOf(n)]

\* Server.Serve closes the connection too, but its break leaves only the switch: the
\* packet goes to a worker with the fields that were read.  A setstat stops the program
\* then, for the attributes are not there.
serveBadPacket ==
  /\ x.at = "sent" /\ Unpacked.err = "short" /\ x.side = "Server"
  /\ x' = [x EXCEPT !.at = CASE Op.req \in {"setstat", "fsetstat"} -> "panic"
                               [] "ExtendedRequest" \in DOMAIN Op.p \ DOMAIN Unpacked.p -> "replied"
                               [] OTHER -> "received",
                    !.closing = TRUE, !.got = Filled(Unpacked.p, Requests[Op.req].m)]

\* An extension that is not known is answered, under the id that was read.
receiveUnknown ==
  /\ x.at = "sent" /\ Unpacked.err = "unknown extension"
  /\ x' = [x EXCEPT !.at = "replied", !.got = Unpacked.p, !.result = "fxUnsupported",
                    !.reply = sshFxpStatusPacket(Unpacked.p.ID, "fxUnsupported")]

receivePacket ==
  /\ x.at = "sent" /\ Unpacked.err = "nil"
  /\ x' = [x EXCEPT !.at = "received", !.got = Unpacked.p]

\* A handle that is not open.
unknownHandle ==
  /\ x.at = "received" /\ x.op \in ByHandle /\ x.got.Handle # KnownHandle
  /\ x' = [x EXCEPT !.at = "replied", !.result = "errno", !.reply = sshFxpStatusPacket(x.got.ID, "errno")]

Valid == x.op \in ByHandle => x.got.Handle = KnownHandle

\* A value for a reply that carries one: attributes of a file, a link's target, data.
ReplyWith(value) ==
  LET id == x.got.ID IN
  CASE Op.req \in {"stat", "lstat", "fstat"} -> sshFxpStatResponse(id, 15, AttrValues)
    [] Op.req = "readlink" -> sshFxpNamePacket(id, <<value>>)
    [] Op.req \in {"open", "opendir"} -> sshFxpHandlePacket(id, value)
    [] Op.req = "read" -> sshFxpDataPacket(id, value)
    [] Op.req = "readdir" -> sshFxpNamePacket(id, <<value, value>>)
    [] Op.req = "statvfs" -> StatVFSReply(id)
    [] OTHER -> sshFxpStatusPacket(id, "nil")

Answered(asked, err) ==
  x' = [x EXCEPT !.at = "replied", !.asked = asked, !.result = err,
                 !.reply = IF err = "nil" THEN ReplyWith(<<4>>) ELSE sshFxpStatusPacket(x.got.ID, err)]

\* RequestServer.packetWorker: the handlers are asked, unless the open request does not
\* serve this packet or the flags make no sense.
askHandler ==
  /\ x.at = "received" /\ x.side = "RequestServer" /\ Valid
  /\ Op.req \notin {"realpath", "close", "statvfs"}
  /\ LET q == packetWorker(Op.req, x.got, x.h, x.behind.can) IN
     IF q.method = "bad flags" \/ (Op.req \in {"read", "write", "readdir"} /\ ~Serves(x.h.method, Op.req))
     THEN x' = [x EXCEPT !.at = "replied", !.result = "other", !.reply = sshFxpStatusPacket(x.got.ID, "other")]
     ELSE /\ x.behind.backend = "any"
          /\ \E err \in Errors \ {"fxOk"} : Answered(q, err)

\* A handler of sshserv makes its calls until one fails.
askBackend ==
  /\ x.at = "received" /\ x.side = "RequestServer" /\ Valid /\ x.behind.backend # "any"
  /\ Op.req \notin {"realpath", "statvfs"}
  /\ LET q == packetWorker(Op.req, x.got, x.h, {})
         plan == Handle(x.behind.backend, q, x.behind.perms, x.behind.there)
         Made(k, err) ==
           x' = [x EXCEPT !.at = "replied", !.asked = q, !.did = SubSeq(plan.calls, 1, k), !.result = err,
                          !.reply = IF err = "nil" THEN ReplyWith(<<4>>) ELSE sshFxpStatusPacket(x.got.ID, err)] IN
     /\ q.method # "bad flags"
     /\ \/ Made(Len(plan.calls), plan.result)
        \/ \E k \in 1..Len(plan.calls) : \E err \in plan.calls[k].errs : Made(k - 1, err)

\* Requests that packetWorker answers without a handler.
answerDirectly ==
  /\ x.at = "received" /\ x.side = "RequestServer" /\ Valid
  /\ \/ /\ Op.req = "realpath"
        /\ x' = [x EXCEPT !.at = "replied", !.reply = sshFxpNamePacket(x.got.ID, <<cleanPath(x.got.Path)>>)]
     \/ /\ Op.req = "close"
        /\ \E err \in {"nil", "other"} : Answered(<< >>, err)
     \/ /\ Op.req = "statvfs"
        /\ x' = [x EXCEPT !.at = "replied", !.result = "fxUnsupported",
                          !.reply = sshFxpStatusPacket(x.got.ID, "fxUnsupported")]

\* sftpServerWorker refuses to change anything in read-only mode.
refuseReadOnly ==
  /\ x.at = "received" /\ x.side = "Server" /\ Valid
  /\ x.ro /\ ~readonly(Op.req, x.got)
  /\ x' = [x EXCEPT !.at = "replied", !.result = "EPERM", !.reply = sshFxpStatusPacket(x.got.ID, "EPERM")]

\* The error of a call with two paths is not one of an error number or a path.
OSError(fn, err) == IF fn \in {"Rename", "Link", "Symlink"} /\ err \in {"EPERM", "errno"} THEN "other" ELSE err

\* External: the directory that the server runs in.
Cwd == <<Root, 4>>
Abs(p) == IF p # << >> /\ p[1] = Root THEN p ELSE Cwd \o p

callSystem ==
  /\ x.at = "received" /\ x.side = "Server" /\ Valid
  /\ ~(x.ro /\ ~readonly(Op.req, x.got))
  /\ LET c == handlePacket(Op.req, x.got) IN
     \/ /\ Op.req = "realpath"
        /\ x' = [x EXCEPT !.at = "replied", !.reply = sshFxpNamePacket(x.got.ID, <<cleanPath(Abs(x.got.Path))>>)]
     \/ /\ Op.req = "open" /\ OpenMode(x.got.Pflags) = "EINVAL"
        /\ x' = [x EXCEPT !.at = "replied", !.result = "errno", !.reply = sshFxpStatusPacket(x.got.ID, "errno")]
     \/ /\ Op.req # "realpath" /\ ~(Op.req = "open" /\ OpenMode(x.got.Pflags) = "EINVAL")
        /\ \E err \in {"nil", "EOF", "ENOENT", "EPERM", "errno"} : Answered(c, OSError(c.fn, err))

\* recv gives the reply to the operation, if the connection is still there.
readReply ==
  /\ x.at = "replied" /\ ~x.closing
  /\ x' = [x EXCEPT !.at = "done", !.answer = Decode(Op.want, Id, x.reply.typ, x.reply.b)]

ExchangeNext ==
  \/ sendRequest \/ receiveBadPacket \/ serveBadPacket \/ receiveUnknown \/ receivePacket
  \/ unknownHandle \/ askHandler \/ askBackend \/ answerDirectly \/ refuseReadOnly \/ callSystem \/ readReply

ExchangeSpec == ExchangeInit /\ [][ExchangeNext]_exchangeVars

-----------------------------------------------------------------------------
Asked == x.asked # << >>
TwoPaths == {"Link", "Symlink", "Rename", "PosixRename"}

IsClean(p) == p # << >> /\ p[1] = Root /\ \A i \in 2..Len(p) : p[i] \notin {Root, Dot, DotDot}

\* What the operations are called among the handlers' methods.
HandlerMethod ==
  [Stat |-> {"Stat"}, Lstat |-> {"Lstat", "Stat"}, ReadLink |-> {"Readlink"}, Link |-> {"Link"},
   Symlink |-> {"Symlink"}, setstat |-> {"Setstat"}, setfstat |-> {"Setstat"}, fstat |-> {"Stat"},
   removeFile |-> {"Remove"}, RemoveDirectory |-> {"Rmdir"}, Rename |-> {"Rename"},
   PosixRename |-> {"PosixRename", "Rename"}, Mkdir |-> {"Mkdir"}, opendir |-> {"List"},
   open |-> {"Get", "Put", "Open"}, sendRead |-> {"Get", "Open"}, sendWrite |-> {"Put", "Open"},
   ReadDir |-> {"List"}]

\* Packets, layouts and Requests agree from end to end: a handler is asked for the
\* operation that was called, each of its paths is in its place, and a clean path arrives
\* as it was given; the operating system is given the paths as they are.
AskedAsCalled ==
  Asked /\ ~x.closing =>
    /\ x.side = "RequestServer" /\ x.op \in DOMAIN HandlerMethod => x.asked.method \in HandlerMethod[x.op]
    /\ x.op \in ByPath /\ (IsClean(x.a.path) \/ x.side = "Server") => x.asked.path = x.a.path
    /\ x.op \in TwoPaths /\ (IsClean(x.a.to) \/ x.side = "Server") => x.asked.target = x.a.to

\* Every path that a handler sees is absolute and clean (cleanPath: "a clean POSIX (/)
\* absolute path to work with"), with one exception: packetWorker passes the new name of
\* a posix-rename on as it came.
HandlersSeeCleanPaths ==
  Asked /\ x.side = "RequestServer" /\ x.asked.method # "bad flags" =>
    /\ IsClean(x.asked.path)
    /\ x.asked.target # << >> /\ x.op # "PosixRename" => IsClean(x.asked.target)

\* The error that a caller gets for an error of the server's side.
CallerError(err) ==
  CASE x.op = "StatVFS" /\ err # "nil" -> "status"
    [] err \in {"nil", "EOF"} -> err
    [] err = "fxOk" -> "nil"
    [] err \in {"ENOENT", "fxNoSuchFile"} -> "not exist"
    [] err \in {"EPERM", "fxPermission"} -> "permission"
    [] OTHER -> "status"

ValueOf(want) ==
  CASE want \in {"handle", "name", "data"} -> <<4>>
    [] want = "attrs" -> [ID |-> 0] @@ AttrValues
    [] OTHER -> x.answer.value

\* The caller gets what the server's side returned, the class of its error included; the
\* checks of ids and of counts in the client never fire against these servers.
AnswerIsResult ==
  x.at = "done" =>
    /\ x.answer.err = CallerError(x.result)
    /\ x.answer.err = "nil" /\ x.op # "realpath" => x.answer.value = ValueOf(Op.want)

AttributesRead ==
  IF x.side = "RequestServer" THEN getFileStat(x.asked.flags, x.asked.attrs)
  ELSE UnmarshalFields(x.got.Attrs, setstatFields(x.got.Flags))

\* The attributes to set arrive as they were given, for every combination of them at
\* RequestServer.  Server reads the owner last, where the layout above marshalFileInfo has
\* it before the permissions: there an owner arrives with nothing behind it only.
AttributesArrive ==
  Asked /\ x.op \in {"setstat", "setfstat"} /\ x.whole =>
    \/ AttributesRead.err = "nil"
       /\ \A n \in DOMAIN AttributesRead.p \ {"ID"} : AttributesRead.p[n] = AttrValues[n]
    \/ /\ x.side = "Server" /\ Has(x.got.Flags, "UIDGID")
       /\ Has(x.got.Flags, "Permissions") \/ Has(x.got.Flags, "ACmodTime")

\* A request of which a part is missing is never carried out by RequestServer; only
\* attributes, which have no length of their own, can be cut unnoticed.
CutRequestIsDropped ==
  x.side = "RequestServer" /\ ~x.whole /\ x.op \notin {"setstat", "setfstat"} => ~Asked

-----------------------------------------------------------------------------
Reads == {"EvalSymlinks", "Stat", "Lstat", "Open", "ReadDir", "ScanDirContents"}
Changes == SelectSeq(x.did, LAMBDA c : c.fn \notin Reads)

\* The storage call that an operation stands for.
StorageCalls ==
  [Stat |-> {"Stat"}, Lstat |-> {"Stat"}, fstat |-> {"Stat"}, opendir |-> {"ReadDir"},
   open |-> {"Open", "Upload", "Create"}, removeFile |-> {"Remove"},
   RemoveDirectory |-> {"RemoveAll", "Remove"}, Rename |-> {"Rename"}, PosixRename |-> {"Rename"},
   Mkdir |-> {"createMissingDirs", "Mkdir"}, Symlink |-> {"Symlink"}]

\* The new name of a posix-rename comes as it was given.
TargetAsked ==
  IF x.op = "PosixRename" THEN getSFTPCmdTargetPath(x.a.to) ELSE buildPath(cleanPath(x.a.to))

Backed == x.behind.backend # "any" /\ x.at = "done"

\* From the client's call down to the disk or to HDFS: a success is reported only after the
\* storage did what was asked, with the path and the target in their places.
DoneAsCalled ==
  Backed /\ x.answer.err = "nil" /\ x.op \in DOMAIN StorageCalls =>
    \E i \in DOMAIN x.did :
      /\ x.did[i].fn \in StorageCalls[x.op]
      /\ x.op # "fstat" => x.did[i].path = buildPath(cleanPath(x.a.path))
      /\ x.op \in TwoPaths => x.did[i].target = TargetAsked

\* When the client is told of a failure, no call of the handler that succeeded has changed
\* anything, but for one case: the HDFS handler removes a file before it creates the new
\* one, and that can fail.  (A failing RemoveAll or createMissingDirs may have done a part.)
FailureChangesNothing ==
  Backed /\ x.answer.err # "nil" /\ Changes # << >> =>
    /\ x.behind.backend = "hdfs" /\ x.op = "open" /\ x.behind.there
    /\ \A i \in DOMAIN Changes : Changes[i].fn = "Remove"

AttributeGroups == {g \in {"Permissions", "UIDGID", "ACmodTime"} : Has(x.a.flags, g)}

\* Attributes that are set one kind at a time, as Chmod, Chown and Chtimes of the client do,
\* are set when success is reported.  Of several only one is, and a size (Truncate) is
\* accepted and ignored.
AttributesSet ==
  Backed /\ x.answer.err = "nil" /\ x.op \in {"setstat", "setfstat"} =>
    Len(Changes) = IF AttributeGroups = {} THEN 0 ELSE 1
=============================================================================
