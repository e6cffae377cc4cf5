-------------------------------- MODULE Scp --------------------------------
(***************************************************************************)
(* An scp command: scpCommand.handle on one side of the channel, and the   *)
(* scp program of the user (external) on the other.  An upload is driven   *)
(* by the messages T, D, C and E of the client, a download by the tree     *)
(* that the server finds; each side waits for the other's confirmation.    *)
(*                                                                         *)
(* A message is a record, a byte of data is one message, and a file is a   *)
(* number of bytes.  Either side may go away at any moment.                *)
(***************************************************************************)
EXTENDS Integers, Sequences, SequencesExt, FiniteSets, TLC

CONSTANTS Jobs,    \* what a user may ask for: see UploadJob and DownloadJob
          HomeTree \* HomeTree[p]: Dir, or the size of the file at path p

VARIABLES scp,      \* scpCommand: where handle is, and its local variables
          home,     \* the user's home directory, by path
          toServer, toClient, \* what each side has written and the other not yet read
          channel,  \* "open", or "closed" by either side
          peer      \* external: the scp program

scpVars == <<scp, home, toServer, toClient, channel, peer>>

Dir == -1
Ok == [k |-> "ok"]
Data == [k |-> "data"]
Err == [k |-> "err"]
Msg(k, name, size) == [k |-> k, name |-> name, size |-> size]

\* dest is the path on the command line, slash tells whether it ends with one.
\* A sender goes through a list of what it sends (Msg) and waits for (Await).
Await == [k |-> "await"]
SendFile(name, size) ==
  <<Msg("C", name, size), Await>> \o [i \in 1..size |-> Data] \o <<Ok, Await>>
UploadJob(dest, slash, recursive, perms, script) ==
  [op |-> "upload", dest |-> dest, slash |-> slash, recursive |-> recursive, times |-> FALSE,
   perms |-> perms, script |-> script]
DownloadJob(dest, recursive, times, perms) ==
  [op |-> "download", dest |-> dest, slash |-> FALSE, recursive |-> recursive, times |-> times,
   perms |-> perms, script |-> << >>]

ScpStart(job) ==
  /\ scp = [job |-> job, at |-> "start", dest |-> job.dest, numDirs |-> 0, file |-> << >>,
            remaining |-> 0, todo |-> << >>, transfers |-> 0, registered |-> FALSE,
            status |-> "none", lostWrite |-> FALSE, readFailed |-> FALSE]
  /\ peer = [todo |-> <<Await>> \o job.script, dir |-> << >>, sent |-> << >>,
             got |-> << >>, need |-> 0, file |-> << >>, at |-> "talk"]
  /\ home = HomeTree
  /\ toServer = << >> /\ toClient = << >> /\ channel = "open"

ScpInit == \E job \in Jobs : ScpStart(job)

Can(perm) == perm \in scp.job.perms
IsDirectory(p) == p \in DOMAIN home /\ home[p] = Dir
IsFile(p) == p \in DOMAIN home /\ home[p] # Dir

-----------------------------------------------------------------------------
(* Reading and writing the channel.  A failed read or write closes it.     *)

\* handle returns: an error closes the channel without an exit status.
Fails(s) == /\ scp' = [s EXCEPT !.at = "return", !.transfers = 0]
            /\ channel' = "closed"

\* sendErrorMessage writes an error message and closes the channel.
sendErrorMessage(s) ==
  /\ toClient' = IF channel = "open" THEN Append(toClient, Err) ELSE toClient
  /\ Fails(s)

\* sendConfirmationMessage, sendProtocolMessage: s is where handle goes after it.
Sends(m, s) ==
  IF channel = "open"
  THEN toClient' = Append(toClient, m) /\ scp' = s /\ UNCHANGED channel
  ELSE UNCHANGED toClient /\ Fails(scp)

CanRead == toServer # << >> \/ channel = "closed"

\* A read that finds the channel closed and nothing left in it.
ReadsEnd == toServer = << >> /\ channel = "closed"

\* readConfirmationMessage: ok, or the client's error, after which the channel is closed.
Confirmed == toServer # << >> /\ Head(toServer).k = "ok"

-----------------------------------------------------------------------------
(* handle.                                                                 *)

handle ==
  /\ scp.at = "start"
  /\ scp' = [scp EXCEPT !.registered = TRUE,
                        !.at = IF scp.job.op = "upload" THEN "confirm" ELSE "await",
                        !.todo = IF scp.job.op = "upload" THEN @ ELSE <<[k |-> "visit", path |-> scp.job.dest]>>]
  /\ UNCHANGED <<home, toServer, toClient, channel, peer>>

\* sendExitStatus, only when there was no error, and the deferred removeConnection.
handleReturns ==
  /\ scp.at \in {"success", "return"}
  /\ scp' = [scp EXCEPT !.at = "over", !.registered = FALSE,
                        !.status = IF scp.at = "success" /\ channel = "open" THEN "0" ELSE @]
  /\ channel' = "closed"
  /\ UNCHANGED <<home, toServer, toClient, peer>>

-----------------------------------------------------------------------------
(* Upload.                                                                 *)

\* handleRecursiveUpload ends when it is back at the top.
Looped(s) == [s EXCEPT !.at = IF s.numDirs = 0 THEN "success" ELSE "confirm"]

uploadConfirm ==
  /\ scp.at = "confirm"
  /\ Sends(Ok, [scp EXCEPT !.at = "next"])
  /\ UNCHANGED <<home, toServer, peer>>

\* Mutant: the destination stays inside the directory that has ended.
endDirStays(s) == [s EXCEPT !.numDirs = @ - 1]

\* E: the destination is the parent again, unless the upload is complete.
endDir(s) ==
  [s EXCEPT !.numDirs = @ - 1,
            !.dest = IF s.numDirs = 1 \/ s.dest = << >> THEN @ ELSE Front(@)]

\* D: handleCreateDir and createDir.  Mkdir fails when the directory is there.
startDir(name) ==
  LET p == Append(scp.dest, name) IN
  IF Can("create_dirs") /\ p \notin DOMAIN home /\ IsDirectory(Front(p))
  THEN /\ home' = (p :> Dir) @@ home
       /\ scp' = Looped([scp EXCEPT !.numDirs = @ + 1, !.dest = p])
       /\ UNCHANGED <<toClient, channel>>
  ELSE sendErrorMessage(scp) /\ UNCHANGED home

getFileUploadDestPath(name) ==
  IF scp.job.recursive \/ scp.job.slash \/ IsDirectory(scp.dest)
  THEN Append(scp.dest, name) ELSE scp.dest

\* T: confirmed and ignored.
times == Sends(Ok, scp)

\* C: handleUpload and handleUploadFile, up to the confirmation that asks for the data.
startFile(name, size) ==
  LET p == getFileUploadDestPath(name) IN
  IF /\ Can("upload") /\ ~IsDirectory(p)
     /\ IsDirectory(Front(p))
  THEN \/ /\ home' = (p :> 0) @@ home
          /\ Sends(Ok, [scp EXCEPT !.at = "data", !.file = p, !.remaining = size, !.transfers = 1])
       \/ sendErrorMessage(scp) /\ UNCHANGED home  \* no space left, or the file system fails
  ELSE sendErrorMessage(scp) /\ UNCHANGED home

\* getNextUploadProtocolMessage and parseUploadMessage.
uploadMessage ==
  /\ scp.at = "next" /\ CanRead
  /\ IF ReadsEnd THEN Fails(scp) /\ UNCHANGED <<home, toServer, toClient>>
     ELSE LET m == Head(toServer) IN
          /\ toServer' = Tail(toServer)
          /\ CASE m.k = "T" -> times /\ UNCHANGED home
               [] m.k = "E" -> /\ UNCHANGED home
                               /\ IF scp.numDirs = 1 THEN Sends(Ok, Looped(endDir(scp)))
                                  ELSE scp' = Looped(endDir(scp)) /\ UNCHANGED <<toClient, channel>>
               [] m.k = "D" -> startDir(m.name)
               [] m.k = "C" -> startFile(m.name, m.size)
               [] OTHER -> sendErrorMessage(scp) /\ UNCHANGED home
  /\ UNCHANGED peer

uploadReadFails == sendErrorMessage(scp)

\* getUploadFileData reads what has come, at most what remains; an error of WriteAt is
\* not looked at.
uploadData ==
  /\ scp.at = "data" /\ scp.remaining > 0 /\ CanRead
  /\ IF ReadsEnd THEN uploadReadFails /\ UNCHANGED <<home, toServer>>
     ELSE \E n \in 1..Len(toServer) :
            /\ n <= scp.remaining
            /\ toServer' = SubSeq(toServer, n + 1, Len(toServer))
            /\ \/ /\ home' = [home EXCEPT ![scp.file] = @ + n]
                  /\ scp' = [scp EXCEPT !.remaining = @ - n]
               \/ /\ UNCHANGED home
                  /\ scp' = [scp EXCEPT !.remaining = @ - n, !.lostWrite = TRUE]
            /\ UNCHANGED <<toClient, channel>>
  /\ UNCHANGED peer

\* The client's confirmation of its data, transfer.Close and the last confirmation.
uploadEnd ==
  /\ scp.at = "data" /\ scp.remaining = 0 /\ CanRead
  /\ toServer' = IF toServer = << >> THEN toServer ELSE Tail(toServer)
  /\ IF Confirmed THEN \/ Sends(Ok, Looped([scp EXCEPT !.transfers = 0]))
                       \/ sendErrorMessage(scp)
     ELSE Fails(scp) /\ UNCHANGED toClient
  /\ UNCHANGED <<home, peer>>

-----------------------------------------------------------------------------
(* Download.  The recursion of handleDownload is kept as a list of what is *)
(* still to do, and after each message the server waits for an ok.         *)

Top == Head(scp.todo)
Then(steps) == [scp EXCEPT !.todo = steps \o Tail(@), !.at = "work"]
Step(k, p) == [k |-> k, path |-> p]
Times(p) == IF scp.job.times THEN <<Step("T", p)>> ELSE << >>

downloadAwait ==
  /\ scp.at = "await" /\ CanRead
  /\ toServer' = IF toServer = << >> THEN toServer ELSE Tail(toServer)
  /\ IF Confirmed THEN /\ scp' = [scp EXCEPT !.at = IF scp.todo = << >> THEN "success" ELSE "work"]
                       /\ UNCHANGED channel
     ELSE Fails(scp)
  /\ UNCHANGED <<home, toClient, peer>>

\* handleDownload: refuse, open the file, or start on the directory.
downloadVisit ==
  /\ scp.at = "work" /\ Top.k = "visit"
  /\ LET p == Top.path IN
     IF Can("download") /\ p \in DOMAIN home /\ (IsDirectory(p) => scp.job.recursive)
     THEN /\ scp' = IF IsDirectory(p) THEN Then(Times(p) \o <<Step("D", p), Step("list", p), Step("E", p)>>)
                    ELSE [Then(Times(p) \o <<Step("C", p), Step("data", p)>>)
                          EXCEPT !.transfers = 1, !.remaining = home[p]]
          /\ UNCHANGED <<toClient, channel>>
     ELSE sendErrorMessage(scp)
  /\ UNCHANGED <<home, toServer, peer>>

\* T, D, C and E are sent and confirmed.
downloadSend ==
  /\ scp.at = "work" /\ Top.k \in {"T", "D", "C", "E"}
  /\ Sends(Msg(Top.k, Last(Top.path), IF Top.k = "C" THEN scp.remaining ELSE 0),
           [Then(<< >>) EXCEPT !.at = "await"])
  /\ UNCHANGED <<home, toServer, peer>>

Entries(p, dirs) == {q \in DOMAIN home : Len(q) = Len(p) + 1 /\ Front(q) = p /\ IsDirectory(q) = dirs}
Visits(S) == [i \in 1..Cardinality(S) |-> Step("visit", SetToSeq(S)[i])]

\* handleRecursiveDownload: the files first, then the directories.
downloadList ==
  /\ scp.at = "work" /\ Top.k = "list"
  /\ IF IsDirectory(Top.path)
     THEN /\ scp' = Then(Visits(Entries(Top.path, FALSE)) \o Visits(Entries(Top.path, TRUE)))
          /\ UNCHANGED <<toClient, channel>>
     ELSE sendErrorMessage(scp)
  /\ UNCHANGED <<home, toServer, peer>>

\* sendDownloadFileData reads and writes until the end of the file or an error.  The
\* error of the loop is a variable of its own: what ended it is not looked at.
downloadData ==
  /\ scp.at = "work" /\ Top.k = "data"
  /\ \/ /\ scp.remaining > 0 /\ channel = "open"
        /\ toClient' = Append(toClient, Data)
        /\ scp' = [scp EXCEPT !.remaining = @ - 1]
        /\ UNCHANGED channel
     \/ /\ scp.remaining = 0 \/ channel = "closed"
        /\ Sends(Ok, [Then(<<Step("close", Top.path)>>) EXCEPT !.at = "await"])
     \/ /\ scp.remaining > 0
        /\ Sends(Ok, [Then(<<Step("close", Top.path)>>) EXCEPT !.at = "await", !.readFailed = TRUE])
  /\ UNCHANGED <<home, toServer, peer>>

downloadClose ==
  /\ scp.at = "work" /\ Top.k = "close"
  /\ scp' = [Then(<< >>) EXCEPT !.transfers = 0, !.at = IF Len(scp.todo) = 1 THEN "success" ELSE "work"]
  /\ UNCHANGED <<home, toServer, toClient, channel, peer>>

\* Another session of the user removes a file meanwhile.
removedMeanwhile ==
  /\ scp.job.op = "download" /\ scp.at # "over"
  /\ \E p \in DOMAIN home :
       /\ IsFile(p)
       /\ home' = [q \in DOMAIN home \ {p} |-> home[q]]
  /\ UNCHANGED <<scp, toServer, toClient, channel, peer>>

-----------------------------------------------------------------------------
(* External: the scp program.                                              *)

Script == peer.todo
Says(m) == toServer' = IF channel = "open" THEN Append(toServer, m) ELSE toServer

\* The source of an upload waits, or sends its next message.
peerAwaits ==
  /\ scp.job.op = "upload" /\ peer.at = "talk" /\ Script # << >> /\ Head(Script).k = "await"
  /\ toClient # << >>
  /\ toClient' = Tail(toClient)
  /\ IF Head(toClient).k = "ok"
     THEN peer' = [peer EXCEPT !.todo = Tail(@)] /\ UNCHANGED channel
     ELSE peer' = [peer EXCEPT !.at = "gone"] /\ channel' = "closed"
  /\ UNCHANGED <<scp, home, toServer>>

Target(name) ==
  IF scp.job.recursive \/ scp.job.slash \/ (scp.job.dest \in DOMAIN HomeTree /\ HomeTree[scp.job.dest] = Dir)
  THEN scp.job.dest \o Append(peer.dir, name) ELSE scp.job.dest

peerSends ==
  /\ scp.job.op = "upload" /\ peer.at = "talk" /\ Script # << >> /\ Head(Script).k # "await"
  /\ LET m == Head(Script) IN
     /\ Says(m)
     /\ peer' = [peer EXCEPT !.todo = Tail(@),
                             !.dir = IF m.k = "D" THEN Append(@, m.name)
                                     ELSE IF m.k = "E" THEN Front(@) ELSE @,
                             !.sent = IF m.k = "C" THEN (Target(m.name) :> m.size) @@ @ ELSE @]
  /\ UNCHANGED <<scp, home, toClient, channel>>

\* The sink of a download confirms what it gets; after C it counts bytes, whatever they are.
peerSinks ==
  /\ scp.job.op = "download" /\ peer.at = "talk"
  /\ \/ /\ Script # << >>
        /\ peer' = [peer EXCEPT !.todo = << >>] /\ Says(Ok) /\ UNCHANGED <<toClient, channel>>
     \/ /\ Script = << >> /\ toClient # << >>
        /\ toClient' = Tail(toClient)
        /\ LET m == Head(toClient) IN
           CASE peer.need > 0 ->
                  /\ peer' = [peer EXCEPT !.need = @ - 1,
                                          !.got = IF m.k = "data" THEN [@ EXCEPT ![peer.file] = @ + 1] ELSE @]
                  /\ UNCHANGED <<toServer, channel>>
             [] peer.need = 0 /\ m.k = "err" ->
                  peer' = [peer EXCEPT !.at = "gone"] /\ channel' = "closed" /\ UNCHANGED toServer
             [] OTHER ->
                  /\ Says(Ok) /\ UNCHANGED channel
                  /\ peer' = CASE m.k = "D" -> [peer EXCEPT !.dir = Append(@, m.name)]
                               [] m.k = "E" -> [peer EXCEPT !.dir = Front(@)]
                               [] m.k = "C" -> [peer EXCEPT !.need = m.size, !.file = Append(peer.dir, m.name),
                                                 !.got = (Append(peer.dir, m.name) :> 0) @@ @]
                               [] OTHER -> peer
  /\ UNCHANGED <<scp, home>>

\* The user interrupts, or the connection ends.
peerLeaves ==
  /\ peer.at = "talk"
  /\ peer' = [peer EXCEPT !.at = "gone"] /\ channel' = "closed"
  /\ UNCHANGED <<scp, home, toServer, toClient>>

-----------------------------------------------------------------------------
serverSteps ==
  \/ handle \/ handleReturns
  \/ uploadConfirm \/ uploadMessage \/ uploadData \/ uploadEnd
  \/ downloadAwait \/ downloadVisit \/ downloadSend \/ downloadList \/ downloadData \/ downloadClose
peerSteps == peerAwaits \/ peerSends \/ peerSinks

ScpNext == serverSteps \/ peerSteps \/ peerLeaves \/ removedMeanwhile

-----------------------------------------------------------------------------
Written == {p \in DOMAIN home : IsFile(p) /\ (p \notin DOMAIN HomeTree \/ home[p] # HomeTree[p])}

\* An upload puts files only where the client's D and E messages have led, through
\* any nesting, and reports exit status 0 only when every file that the client sent
\* is there with all its bytes.  A write that the disk refuses is the exception:
\* getUploadFileData does not look at the error of WriteAt.
UploadsArrive ==
  scp.job.op = "upload" =>
    /\ Written \subseteq DOMAIN peer.sent
    /\ scp.status = "0" /\ ~scp.lostWrite =>
         \A p \in DOMAIN peer.sent : p \in DOMAIN home /\ home[p] = peer.sent[p]

Below(p) == {q \in DOMAIN HomeTree : IsPrefix(p, q) /\ HomeTree[q] # Dir}
Relative(p, q) == SubSeq(q, Len(p), Len(q))

\* A download reports exit status 0 only when the client has every byte of every file
\* that is still in the tree, each under the directory it belongs to.
DownloadsArrive ==
  scp.job.op = "download" /\ scp.status = "0" =>
    \A q \in Below(scp.job.dest) \cap DOMAIN home :
      LET r == Relative(scp.job.dest, q) IN r \in DOMAIN peer.got /\ peer.got[r] = HomeTree[q]

\* However a command ends, its file is closed, the connection is no longer registered
\* and the channel is closed, so the client does not wait for ever either.
ScpLeavesNothing ==
  scp.at = "over" => scp.transfers = 0 /\ ~scp.registered /\ channel = "closed"

\* Client and server never wait for each other: every command ends, unless a read of
\* the file that is sent failed, after which the client waits for the missing bytes
\* and the server for a confirmation.
ScpEnds == <>(scp.at = "over" \/ scp.readFailed)
=============================================================================
