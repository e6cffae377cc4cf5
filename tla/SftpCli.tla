------------------------------ MODULE SftpCli -------------------------------
(***************************************************************************)
(* The transfer client: FileTran copies a file or a directory between the  *)
(* local file system and SFTP servers in the four combinations, and send   *)
(* and recv copy the newest entry of a directory.  The source and the      *)
(* destination are trees of their own; the source may shrink while it is   *)
(* walked.  A tree maps a path to Folder or to the content of a file.      *)
(***************************************************************************)
EXTENDS Integers, Sequences, SequencesExt, FiniteSetsExt, TLC

CONSTANTS CliJobs,     \* the commands that may be given
          SourceTree,  \* external: the source at the start
          DestTrees,   \* external: what the destination may be at the start
          CliNames,    \* the names of the source, in lexical order
          MaxCliFaults \* bound: entries that vanish, connections and copies that fail

ASSUME CliAssumption == MaxCliFaults \in Nat

VARIABLES from, to,  \* the two trees
          cli,       \* the running command
          toFirst,   \* history: the destination at the start
          cliFaults

cliVars == <<from, to, cli, toFirst, cliFaults>>

Folder == 0
Emptied == -1

Tran(srcRemote, dstRemote, src, dst) ==
  [kind |-> "tran", srcRemote |-> srcRemote, dstRemote |-> dstRemote, src |-> src, dst |-> dst, stamp |-> << >>]
Send(src, dst, stamp) ==
  [kind |-> "send", srcRemote |-> FALSE, dstRemote |-> TRUE, src |-> src, dst |-> dst, stamp |-> stamp]
Recv(src, dst, stamp) ==
  [kind |-> "recv", srcRemote |-> TRUE, dstRemote |-> FALSE, src |-> src, dst |-> dst, stamp |-> stamp]

CliStart(job) ==
  /\ from = SourceTree /\ to \in DestTrees /\ toFirst = to /\ cliFaults = 0
  /\ cli = [at |-> "connect", job |-> job, src |-> job.src, target |-> job.dst, stack |-> << >>,
            listed |-> {}, status |-> 0, lost |-> FALSE]

CliInit == \E job \in CliJobs : CliStart(job)

-----------------------------------------------------------------------------
(* The file systems.                                                       *)

\* What Stat finds; below a file it fails with another error than "not found".
Stat(tree, p) ==
  IF p \in DOMAIN tree THEN IF tree[p] = Folder THEN "dir" ELSE "file"
  ELSE IF \E q \in DOMAIN tree : IsPrefix(q, p) /\ tree[q] # Folder THEN "failed" ELSE "not found"

MkdirAll(tree, p) ==
  IF Stat(tree, p) # "not found" THEN tree
  ELSE [q \in {SubSeq(p, 1, k) : k \in 0..Len(p)} \ DOMAIN tree |-> Folder] @@ tree

CanCreate(tree, p) == Stat(tree, Front(p)) = "dir" /\ Stat(tree, p) # "dir"

\* The entries of a directory in lexical order.
Entries(tree, p) == SelectSeq(CliNames, LAMBDA n : Append(p, n) \in DOMAIN tree)

-----------------------------------------------------------------------------
(* Where a path of the source goes.                                        *)

Base(p) == <<Last(p)>>
PathTo(p) == cli.target \o SubSeq(p, Len(cli.src) + 1, Len(p))

exits(status) == [cli EXCEPT !.at = "exit", !.status = status]

\* FileTran declares err anew where the destination is remote: the error is lost there.
returnsErr == IF cli.job.dstRemote THEN [exits(0) EXCEPT !.lost = TRUE] ELSE exits(1)

targetOf(job, srcStat, dStat) ==
  IF dStat = "not found" \/ (srcStat = "file" /\ dStat = "file")
  THEN job.dst ELSE job.dst \o Base(job.src)

\* A file is copied without a walk; a walk looks at its root again.
starts(srcStat) ==
  [cli EXCEPT !.stack = <<[path |-> cli.src, kind |-> "root"]>>,
              !.at = IF srcStat = "dir" THEN "step" ELSE IF cli.job.kind = "tran" THEN "open" ELSE "create"]

connect ==
  /\ cli.at = "connect"
  /\ cli' = [cli EXCEPT !.at = IF cli.job.kind = "tran" THEN "check" ELSE "newest"]
  /\ UNCHANGED <<from, to, toFirst, cliFaults>>

\* Connect ends the program; an address of the wrong form is an error that is returned,
\* that of the destination before the err of FileTran is hidden.
connectFails ==
  /\ cli.at = "connect" /\ cliFaults < MaxCliFaults
  /\ cliFaults' = cliFaults + 1
  /\ cli.job.srcRemote \/ cli.job.dstRemote
  /\ cli' = exits(1)
  /\ UNCHANGED <<from, to, toFirst>>

badSourceAddress ==
  /\ cli.at = "connect" /\ cliFaults < MaxCliFaults
  /\ cli.job.kind = "tran" /\ cli.job.srcRemote
  /\ cliFaults' = cliFaults + 1
  /\ cli' = returnsErr
  /\ UNCHANGED <<from, to, toFirst>>

\* checkDstPath and the Stat of the source.  A source that is not there is no error.
checkDstPath ==
  LET job == cli.job
      dStat == Stat(to, job.dst)
      srcStat == Stat(from, job.src) IN
  /\ cli.at = "check"
  /\ cli' = IF srcStat \notin {"dir", "file"} THEN [exits(0) EXCEPT !.lost = TRUE]
            ELSE IF dStat = "failed" \/ (srcStat = "dir" /\ dStat = "file") THEN returnsErr
            ELSE [starts(srcStat) EXCEPT !.target = targetOf(job, srcStat, dStat)]
  /\ UNCHANGED <<from, to, toFirst, cliFaults>>

newer(time, a, b) == time[a] > time[b]

\* findLocalNewestFile and findSftpNewestFile.
findNewestFile ==
  LET dir == cli.job.src
      files == Entries(from, dir) IN
  /\ cli.at = "newest"
  /\ cli' = IF Stat(from, dir) # "dir" \/ files = << >> THEN exits(1)
            ELSE LET f0 == FoldLeft(LAMBDA b, f : IF newer(cli.job.stamp, f, b) THEN f ELSE b, Head(files), files) IN
                 [cli EXCEPT !.at = "found", !.listed = ToSet(files),
                             !.src = Append(dir, f0), !.target = Append(cli.job.dst, f0)]
  /\ UNCHANGED <<from, to, toFirst, cliFaults>>

\* UploadDir and DownloadDir.
startDir ==
  /\ cli.at = "found"
  /\ cli' = IF Stat(from, cli.src) \in {"dir", "file"} THEN starts(Stat(from, cli.src)) ELSE exits(1)
  /\ UNCHANGED <<from, to, toFirst, cliFaults>>

-----------------------------------------------------------------------------
(* The walk.  The SFTP walker has the kind of an entry from the listing of *)
(* its directory; filepath.Walk looks at the entry when it comes to it.    *)

KindOf(item) == IF cli.job.srcRemote /\ item.kind # "root" THEN item.kind ELSE Stat(from, item.path)

Found(p) ==
  LET names == Entries(from, p) IN
  [k \in DOMAIN names |-> [path |-> Append(p, names[k]), kind |-> Stat(from, Append(p, names[k]))]]

\* Mutant: the entries of a directory take the place of those that are left.
descendsOnly(p) == Found(p)

descends(p) == Found(p) \o Tail(cli.stack)

\* FileTran leaves out directories; UploadDir and DownloadDir make them.  A directory that
\* cannot be read any more is passed over.
stepDir ==
  LET item == Head(cli.stack) IN
  /\ cli.at = "step" /\ cli.stack # << >>
  /\ KindOf(item) = "dir"
  /\ to' = IF cli.job.kind = "tran" THEN to ELSE MkdirAll(to, PathTo(item.path))
  /\ cli' = IF Stat(from, item.path) = "dir"
            THEN [cli EXCEPT !.stack = descends(item.path)]
            ELSE [cli EXCEPT !.stack = Tail(@), !.lost = TRUE]
  /\ UNCHANGED <<from, toFirst, cliFaults>>

stepFile ==
  /\ cli.at = "step" /\ cli.stack # << >>
  /\ KindOf(Head(cli.stack)) = "file"
  /\ cli' = [cli EXCEPT !.at = IF cli.job.kind = "tran" THEN "open" ELSE "create"]
  /\ UNCHANGED <<from, to, toFirst, cliFaults>>

\* The walk function gets no FileInfo for an entry that has vanished, and panics.
stepVanished ==
  /\ cli.at = "step" /\ cli.stack # << >>
  /\ KindOf(Head(cli.stack)) \notin {"dir", "file"}
  /\ cli' = exits(2)
  /\ UNCHANGED <<from, to, toFirst, cliFaults>>

walkEnds ==
  /\ cli.at = "step" /\ cli.stack = << >>
  /\ cli' = exits(0)
  /\ UNCHANGED <<from, to, toFirst, cliFaults>>

-----------------------------------------------------------------------------
(* One file.  FileTran opens the source first, Upload and Download create  *)
(* the destination first.                                                  *)

Item == Head(cli.stack).path
Opened == IF cli.job.kind = "tran" THEN "create" ELSE "copy"
Created == IF cli.job.kind = "tran" THEN "copy" ELSE "open"

openSource ==
  /\ cli.at = "open"
  /\ cli' = IF Stat(from, Item) = "file" THEN [cli EXCEPT !.at = Opened]
            ELSE IF cli.job.kind = "tran" /\ ~cli.job.srcRemote THEN returnsErr
            ELSE exits(1)
  /\ UNCHANGED <<from, to, toFirst, cliFaults>>

\* The directory of the destination is a file.
parentIsFile(dir) ==
  IF cli.job.kind = "recv" THEN [cli EXCEPT !.at = "step", !.stack = Tail(@), !.lost = TRUE]
  ELSE returnsErr

\* toLocal, toRemote, and the same lines of Upload and Download.
createDest ==
  LET path == PathTo(Item)
      made == MkdirAll(to, Front(path)) IN
  /\ cli.at = "create"
  /\ IF ~cli.job.dstRemote /\ Stat(to, Front(path)) = "file"
     THEN cli' = parentIsFile(Front(path)) /\ UNCHANGED to
     ELSE IF CanCreate(made, path)
     THEN to' = (path :> Emptied) @@ made /\ cli' = [cli EXCEPT !.at = Created]
     ELSE to' = made /\ cli' = exits(1)
  /\ UNCHANGED <<from, toFirst, cliFaults>>

\* What was opened can be read to its end even if it is removed meanwhile.
copyFile ==
  /\ cli.at = "copy"
  /\ to' = [to EXCEPT ![PathTo(Item)] = SourceTree[Item]]
  /\ cli' = [cli EXCEPT !.at = "step", !.stack = Tail(@)]
  /\ UNCHANGED <<from, toFirst, cliFaults>>

copyFails ==
  /\ cli.at = "copy" /\ cliFaults < MaxCliFaults
  /\ cliFaults' = cliFaults + 1
  /\ cli' = IF cli.job.kind = "tran" THEN returnsErr ELSE exits(1)
  /\ UNCHANGED <<from, to, toFirst>>

-----------------------------------------------------------------------------
\* Somebody removes a file or a directory of the source.
vanish(p) ==
  /\ cli.at # "exit" /\ cliFaults < MaxCliFaults
  /\ p \in DOMAIN from \ {<< >>}
  /\ from' = [q \in {r \in DOMAIN from : ~IsPrefix(p, r)} |-> from[q]]
  /\ cliFaults' = cliFaults + 1
  /\ UNCHANGED <<to, cli, toFirst>>

cliSteps ==
  \/ connect \/ connectFails \/ badSourceAddress \/ checkDstPath \/ findNewestFile \/ startDir
  \/ stepDir \/ stepFile \/ stepVanished \/ walkEnds
  \/ openSource \/ createDest \/ copyFile \/ copyFails

CliNext == cliSteps \/ \E p \in DOMAIN SourceTree : vanish(p)

-----------------------------------------------------------------------------
(* Properties.                                                             *)

\* The first of the newest entries that were listed.
Newest(job) ==
  SelectSeq(CliNames, LAMBDA n : n \in cli.listed /\ \A m \in cli.listed : job.stamp[m] <= job.stamp[n])[1]
SourceOf(job) == IF job.kind = "tran" THEN job.src ELSE Append(job.src, Newest(job))

\* The table above fromRemote: a source onto a path that is not there takes the path, onto
\* a directory it goes below it under its own name, and a file replaces a file.
TableTarget(job) ==
  IF job.kind # "tran" \/ Stat(toFirst, job.dst) = "dir" THEN Append(job.dst, Last(SourceOf(job))) ELSE job.dst
DueAt(job, f) == TableTarget(job) \o SubSeq(f, Len(SourceOf(job)) + 1, Len(f))
FilesOf(p) == {f \in DOMAIN SourceTree : IsPrefix(p, f) /\ SourceTree[f] # Folder}

\* A command that ends with status 0, and did not pass over an error, has brought every
\* file that stayed in the source to the place that the table gives, with its content.
Delivered ==
  cli.at = "exit" /\ cli.status = 0 /\ ~cli.lost =>
    \A f \in FilesOf(SourceOf(cli.job)) \cap DOMAIN from :
      DueAt(cli.job, f) \in DOMAIN to /\ to[DueAt(cli.job, f)] = SourceTree[f]

\* An error is passed over only where the code drops it: the source was missing or has
\* shrunk, the destination of FileTran is remote, or Download meets a file where a
\* directory should be.  To a local destination FileTran reports every other error.
LostOnly ==
  cli.lost => \/ cli.job.dstRemote \/ cli.job.kind = "recv"
              \/ cli.job.src \notin DOMAIN from \/ from # SourceTree

\* Nothing changes but the target, what is below it, and directories that lead to it.
OnlyTheTarget ==
  \A p \in DOMAIN to :
    (IF p \in DOMAIN toFirst THEN to[p] # toFirst[p] ELSE TRUE) =>
      IsPrefix(TableTarget(cli.job), p) \/ (IsPrefix(p, TableTarget(cli.job)) /\ to[p] = Folder)
=============================================================================
