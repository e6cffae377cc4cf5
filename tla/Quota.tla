------------------------------- MODULE Quota -------------------------------
(***************************************************************************)
(* Uploads, file commands and quota scans of one user, and the used quota  *)
(* that is kept beside the files.  Handlers run on several connections and *)
(* on several workers of a connection, so what one of them has read from   *)
(* the disk may have changed when it acts.  A handler has a step for what  *)
(* it reads first and a step for what it does then; the used quota is only *)
(* changed by differences, except by a scan, which sets it.                *)
(*                                                                         *)
(* A file is an inode; a name is a path or, in atomic mode, the temporary  *)
(* name of an upload.  Contents are reduced to sizes.                      *)
(***************************************************************************)
EXTENDS Integers, FiniteSets, FiniteSetsExt

CONSTANTS Paths,       \* paths in the home directory
          Slots,       \* requests and uploads at the same time
          Loads,       \* who works on what, with which limits and bounds
          MaxBytes     \* bound: bytes written by one upload

ASSUME QuotaAssumption ==
  /\ MaxBytes \in Nat
  /\ \A l \in Loads :
       /\ l.own \in [Slots -> SUBSET Paths]
       /\ l.quotaFiles \in Nat /\ l.quotaSize \in Nat /\ l.maxCreated \in Nat
       /\ l.ops \subseteq {"sftp", "scp", "remove", "rename", "replace", "rmdir", "mkdir",
                           "parallel", "seek", "scan"}

VARIABLES load,     \* the member of Loads; constant
          atomic,   \* upload_mode is atomic; set once at start-up
          dir,      \* dir[name]: an inode, None, or Directory
          size,     \* size[i]: bytes in file i
          slot,     \* slot[s]: the request or the upload of slot s
          used,     \* the used quota in the user store
          scan,     \* the quota scan
          created,  \* uploads opened and directories made so far
          quiet,    \* history: nothing but the scan has happened since it started
          drifted   \* history: something the code does not account for has happened

fileVars == <<dir, size>>
vars == <<load, atomic, fileVars, slot, used, scan, created, quiet, drifted>>

Own == load.own                \* Own[s]: the paths that slot s works on
Ops == load.ops                \* the operations that clients and the API use
QuotaFiles == load.quotaFiles  \* limits of the user; 0 means none
QuotaSize == load.quotaSize
MaxCreated == load.maxCreated  \* bound: uploads opened and directories made

None == 0
Directory == -1
DirSize == 1
Temps == {<<"temp", s>> : s \in Slots}
Temp(s) == <<"temp", s>>
FileNames == Paths \cup Temps
Inodes == 1..(Cardinality(Paths) + 2 * Cardinality(Slots))
Free == [st |-> "free"]
NoScan == [on |-> FALSE, left |-> {}, files |-> 0, size |-> 0]

Linked == {dir[n] : n \in FileNames} \cap Inodes
OpenFiles == {slot[s].inode : s \in {r \in Slots : slot[r].st = "open"}}
NewInode == CHOOSE i \in Inodes \ (Linked \cup OpenFiles) : TRUE

Init ==
  /\ load \in Loads
  /\ atomic \in BOOLEAN
  /\ dir = [n \in FileNames |-> None]
  /\ size = [i \in Inodes |-> 0]
  /\ slot = [s \in Slots |-> Free]
  /\ used = [files |-> 0, size |-> 0]
  /\ scan = NoScan
  /\ created = 0
  /\ quiet = FALSE /\ drifted = FALSE

\* The paths that the request or upload of slot s is about.
PathsOf(s) == IF slot[s].st = "rmdir" THEN Own[s] ELSE {slot[s].path}

\* History of a step of slot s on some paths: it ends the quiet, and the account may
\* drift when another request is busy with one of them or for the reason given.
Noting(s, paths, reason) ==
  /\ quiet' = FALSE
  /\ drifted' = \/ drifted \/ reason
                \/ \E t \in Slots \ {s} : slot[t] # Free /\ PathsOf(t) \cap paths # {}
  /\ UNCHANGED <<load, atomic>>

UpdateUserQuota(files, bytes) ==
  used' = [files |-> used.files + files, size |-> used.size + bytes]

\* Mutant: the last file or byte allowed may be exceeded by one.
hasSpaceInclusive(checkFiles) ==
  /\ checkFiles /\ QuotaFiles > 0 => used.files <= QuotaFiles
  /\ QuotaSize > 0 => used.size <= QuotaSize

hasSpace(checkFiles) ==
  /\ checkFiles /\ QuotaFiles > 0 => used.files < QuotaFiles
  /\ QuotaSize > 0 => used.size < QuotaSize

-----------------------------------------------------------------------------
(* Opening an upload.                                                      *)

\* Filewrite looks at the path and asks for space before it opens anything.
Filewrite(s, p) ==
  /\ "sftp" \in Ops
  /\ slot[s] = Free /\ created < MaxCreated /\ dir[Temp(s)] = None
  /\ dir[p] # Directory
  /\ hasSpace(dir[p] = None)
  /\ slot' = [slot EXCEPT ![s] =
       IF dir[p] = None THEN [st |-> "new", path |-> p]
       ELSE [st |-> "existing", path |-> p, size |-> size[dir[p]]]]
  /\ created' = created + 1
  /\ UNCHANGED <<fileVars, used, scan>>
  /\ Noting(s, {p}, FALSE)

\* os.Create and os.OpenFile: the file at the name, emptied, or a new one.
OpenTruncated(s, d, name, isNew) ==
  LET i == IF d[name] = None THEN NewInode ELSE d[name] IN
  /\ dir' = [d EXCEPT ![name] = i]
  /\ size' = [size EXCEPT ![i] = 0]
  /\ slot' = [slot EXCEPT ![s] = [st |-> "open", path |-> @.path, name |-> name,
                                  inode |-> i, received |-> 0, isNewFile |-> isNew]]

\* Mutant: the upload goes to the requested path.
filePathDirect(s) == slot[s].path

filePath(s) == IF atomic THEN Temp(s) ELSE slot[s].path

handleSFTPUploadToNewFile(s) ==
  /\ slot[s].st = "new"
  /\ dir[filePath(s)] # Directory
  /\ OpenTruncated(s, dir, filePath(s), TRUE)
  /\ UNCHANGED <<used, scan, created>>
  /\ Noting(s, {slot[s].path}, FALSE)

\* In atomic mode the existing file is moved to the temporary name first.
MoveAside(s) ==
  IF atomic THEN [dir EXCEPT ![Temp(s)] = dir[slot[s].path], ![slot[s].path] = None] ELSE dir

\* Mutant: the size of the file that is emptied stays in the quota.
handleSFTPUploadToExistingFileKeepQuota(s) ==
  /\ slot[s].st = "existing"
  /\ dir[slot[s].path] # Directory
  /\ atomic => dir[slot[s].path] # None
  /\ OpenTruncated(s, MoveAside(s), filePath(s), FALSE)
  /\ UNCHANGED <<used, scan, created>>
  /\ Noting(s, {slot[s].path}, FALSE)

handleSFTPUploadToExistingFile(s) ==
  /\ slot[s].st = "existing"
  /\ dir[slot[s].path] # Directory
  /\ atomic => dir[slot[s].path] # None
  /\ OpenTruncated(s, MoveAside(s), filePath(s), FALSE)
  /\ UpdateUserQuota(0, -slot[s].size)
  /\ UNCHANGED <<scan, created>>
  /\ Noting(s, {slot[s].path}, FALSE)

\* The file is gone, or the path is a directory by now.
OpenFails(s) ==
  /\ slot[s].st \in {"new", "existing"}
  /\ \/ dir[slot[s].path] = Directory /\ ~(atomic /\ slot[s].st = "new")
     \/ dir[slot[s].path] = None /\ slot[s].st = "existing"
  /\ dir' = IF slot[s].st = "existing" THEN MoveAside(s) ELSE dir
  /\ slot' = [slot EXCEPT ![s] = Free]
  /\ UNCHANGED <<size, used, scan, created>>
  /\ Noting(s, {slot[s].path}, FALSE)

\* SCP reduces the quota for an existing file, asks for space for a new one, and
\* opens every file as a new one.
scpUpload(s, p) ==
  /\ "scp" \in Ops
  /\ slot[s] = Free /\ created < MaxCreated /\ dir[Temp(s)] = None
  /\ dir[p] # Directory
  /\ LET bytes == IF dir[p] = None THEN 0 ELSE size[dir[p]]
         fits == LET after == used.size - bytes IN
                 /\ QuotaFiles > 0 => used.files < QuotaFiles
                 /\ QuotaSize > 0 => after < QuotaSize IN
     /\ UpdateUserQuota(0, -bytes)
     /\ slot' = [slot EXCEPT ![s] = IF fits THEN [st |-> "new", path |-> p] ELSE Free]
     /\ dir' = IF atomic /\ dir[p] # None
               THEN [dir EXCEPT ![Temp(s)] = dir[p], ![p] = None] ELSE dir
  /\ created' = created + 1
  /\ UNCHANGED <<size, scan>>
  /\ Noting(s, {p}, dir[p] # None)

-----------------------------------------------------------------------------
(* Writing and closing.                                                    *)

\* The offsets that a client writes at: the end of the file, or with "seek" any other.
Offsets(s) ==
  IF slot[s].st # "open" THEN {}
  ELSE {size[slot[s].inode]} \cup (IF "seek" \in Ops THEN 0..MaxBytes ELSE {})

\* Data written up to an offset: the file grows only if it was shorter.
WrittenTo(i, end) == [size EXCEPT ![i] = Max({@, end})]

\* WriteAt of one worker, at the offset that the client names.  bytesReceived
\* counts the data wherever it goes: over older data, or behind the end of the file.
WriteAt(s, off) ==
  /\ slot[s].st = "open" /\ slot[s].received < MaxBytes
  /\ size' = WrittenTo(slot[s].inode, off + 1)
  /\ slot' = [slot EXCEPT ![s].received = @ + 1]
  /\ UNCHANGED <<dir, used, scan, created>>
  /\ Noting(s, {slot[s].path}, off # size[slot[s].inode])

\* WriteAt of two workers at once: bytesReceived is not synchronised, and one of
\* the two additions may be lost.
WriteAtParallel(s, off) ==
  /\ "parallel" \in Ops
  /\ slot[s].st = "open" /\ slot[s].received < MaxBytes
  /\ size' = WrittenTo(slot[s].inode, off + 2)
  /\ \E n \in {1, 2} :
       /\ slot' = [slot EXCEPT ![s].received = @ + n]
       /\ Noting(s, {slot[s].path}, n = 1 \/ off # size[slot[s].inode])
  /\ UNCHANGED <<dir, used, scan, created>>

\* The temporary name, if any, becomes the path, whatever is there; a directory
\* there or a vanished temporary file makes the rename fail.
Close(s) ==
  /\ slot[s].st = "open"
  /\ dir' = IF /\ slot[s].name # slot[s].path
               /\ dir[slot[s].path] # Directory /\ dir[slot[s].name] # None
            THEN [dir EXCEPT ![slot[s].path] = slot[s].inode, ![slot[s].name] = None]
            ELSE dir
  /\ UpdateUserQuota(IF slot[s].isNewFile THEN 1 ELSE 0, slot[s].received)
  /\ slot' = [slot EXCEPT ![s] = Free]
  /\ UNCHANGED <<size, scan, created>>
  /\ Noting(s, {slot[s].path}, FALSE)

-----------------------------------------------------------------------------
(* Commands.                                                               *)

\* Lstat first, os.Remove and the quota then.  An empty directory is removed too.
RemoveStat(s, p) ==
  /\ "remove" \in Ops
  /\ slot[s] = Free /\ dir[p] # None
  /\ slot' = [slot EXCEPT ![s] = [st |-> "remove", path |-> p,
                size |-> IF dir[p] = Directory THEN DirSize ELSE size[dir[p]]]]
  /\ UNCHANGED <<fileVars, used, scan, created>>
  /\ Noting(s, {p}, FALSE)

handleSFTPRemove(s) ==
  /\ slot[s].st = "remove"
  /\ IF dir[slot[s].path] = None
     THEN UNCHANGED <<dir, used>>
     ELSE /\ dir' = [dir EXCEPT ![slot[s].path] = None]
          /\ UpdateUserQuota(-1, -slot[s].size)
  /\ slot' = [slot EXCEPT ![s] = Free]
  /\ UNCHANGED <<size, scan, created>>
  /\ Noting(s, {slot[s].path}, dir[slot[s].path] = Directory)

FilesIn(names) == {n \in names : dir[n] \in Inodes}
BytesIn(names) == MapThenSumSet(LAMBDA n : size[dir[n]], FilesIn(names))

\* What is in the directory of the paths of slot s, temporary files included.
Below(s) ==
  Own[s] \cup {Temp(t) : t \in {r \in Slots : slot[r].st = "open" /\ slot[r].path \in Own[s]}}

\* The directory that holds the paths of the slot: scanned, then removed.
RmdirScan(s) ==
  /\ "rmdir" \in Ops
  /\ slot[s] = Free
  /\ slot' = [slot EXCEPT ![s] = [st |-> "rmdir", files |-> Cardinality(FilesIn(Below(s))),
                                  size |-> BytesIn(Below(s))]]
  /\ UNCHANGED <<fileVars, used, scan, created>>
  /\ Noting(s, Own[s], FALSE)

handleSFTPRmdir(s) ==
  /\ slot[s].st = "rmdir"
  /\ dir' = [n \in FileNames |-> IF n \in Below(s) THEN None ELSE dir[n]]
  /\ UpdateUserQuota(-slot[s].files, -slot[s].size)
  /\ slot' = [slot EXCEPT ![s] = Free]
  /\ UNCHANGED <<size, scan, created>>
  /\ Noting(s, Own[s], FALSE)

\* os.Rename replaces a file; a file and a directory do not replace each other.
handleSFTPRename(s, p, q) ==
  /\ slot[s] = Free /\ p # q /\ dir[p] # None
  /\ \/ "rename" \in Ops /\ dir[q] = None
     \/ "replace" \in Ops /\ dir[q] # None /\ (dir[p] = Directory <=> dir[q] = Directory)
  /\ dir' = [dir EXCEPT ![q] = dir[p], ![p] = None]
  /\ UNCHANGED <<size, slot, used, scan, created>>
  /\ Noting(s, {p, q}, dir[q] \in Inodes)

handleSFTPMkdir(s, p) ==
  /\ "mkdir" \in Ops
  /\ slot[s] = Free /\ dir[p] = None /\ created < MaxCreated
  /\ dir' = [dir EXCEPT ![p] = Directory]
  /\ created' = created + 1
  /\ UNCHANGED <<size, slot, used, scan>>
  /\ Noting(s, {p}, FALSE)

-----------------------------------------------------------------------------
(* The quota scan: a walk over the names, then one update that sets.       *)

startQuotaScan ==
  /\ "scan" \in Ops
  /\ ~scan.on
  /\ scan' = [NoScan EXCEPT !.on = TRUE, !.left = FileNames]
  /\ quiet' = TRUE
  /\ UNCHANGED <<load, atomic, fileVars, slot, used, created, drifted>>

CountsAsFile(n) == dir[n] \in Inodes

ScanDirContents ==
  /\ scan.on /\ scan.left # {}
  /\ LET n == CHOOSE m \in scan.left : TRUE IN
     scan' = [scan EXCEPT !.left = @ \ {n},
                !.files = @ + (IF CountsAsFile(n) THEN 1 ELSE 0),
                !.size = @ + (IF dir[n] \in Inodes THEN size[dir[n]] ELSE 0)]
  /\ UNCHANGED <<load, atomic, fileVars, slot, used, created, quiet, drifted>>

\* A file that vanishes during the walk ends it without an update.
ScanFails ==
  /\ scan.on /\ scan.left # {} /\ ~quiet
  /\ scan' = NoScan
  /\ UNCHANGED <<load, atomic, fileVars, slot, used, created, quiet, drifted>>

ScanEnd ==
  /\ scan.on /\ scan.left = {}
  /\ used' = [files |-> scan.files, size |-> scan.size]
  /\ scan' = NoScan
  /\ drifted' = ~(quiet /\ \A s \in Slots : slot[s] = Free)
  /\ UNCHANGED <<load, atomic, fileVars, slot, created, quiet>>

Next ==
  \/ \E s \in Slots :
       \/ \E p \in Own[s] : \/ Filewrite(s, p) \/ scpUpload(s, p)
                            \/ RemoveStat(s, p) \/ handleSFTPMkdir(s, p)
                            \/ \E q \in Own[s] : handleSFTPRename(s, p, q)
       \/ handleSFTPUploadToNewFile(s) \/ handleSFTPUploadToExistingFile(s) \/ OpenFails(s)
       \/ \E off \in Offsets(s) : WriteAt(s, off) \/ WriteAtParallel(s, off)
       \/ Close(s) \/ handleSFTPRemove(s) \/ RmdirScan(s) \/ handleSFTPRmdir(s)
  \/ startQuotaScan \/ ScanDirContents \/ ScanFails \/ ScanEnd

Spec == Init /\ [][Next]_vars

-----------------------------------------------------------------------------
(* Properties.                                                             *)

AtRest == (\A s \in Slots : slot[s] = Free) /\ ~scan.on

Exact ==
  /\ used.files = Cardinality(FilesIn(FileNames))
  /\ used.size = BytesIn(FileNames)

\* When no request is served and no upload is open, the used quota is the number and
\* the size of the files, unless one of these has happened since the last scan that
\* nothing disturbed: two requests met at a path, a rename replaced a file, SCP
\* uploaded over a file, a client wrote elsewhere than at the end of its upload, an
\* addition of two workers was lost, a directory was removed as a file, or a scan was
\* disturbed.
QuotaExact == AtRest /\ ~drifted => Exact

\* hasSpace looks at closed uploads only, so the limit can be passed, but by no more
\* than the uploads that were open with the last one that it let in.
OvershootBounded ==
  QuotaFiles > 0 /\ ~drifted =>
    Cardinality(FilesIn(FileNames)) <= QuotaFiles - 1 + Cardinality(Slots)

\* In atomic mode no path shows a file that an upload is still writing, whatever
\* other uploads, renames and removals of the path do.
AtomicInvisible == atomic => \A p \in Paths : dir[p] \notin OpenFiles

\* README: "used size and number of files are updated each time a file is
\* added/removed", so at rest the account is always exact.
QuotaAlwaysExact == AtRest => Exact
=============================================================================
