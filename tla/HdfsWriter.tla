----------------------------- MODULE HdfsWriter -----------------------------
(***************************************************************************)
(* Writing a file of HDFS: FileWriter cuts what it is given into blocks,   *)
(* which the namenode allocates and BlockWriter sends to a datanode over   *)
(* a blockWriteStream (BlockWriteStream), whose promise is used here: when *)
(* finish returns no error on a stream none of whose writes has failed,    *)
(* everything that was written is stored.                                  *)
(*                                                                         *)
(* Data is a number of units.  Every call to the namenode may fail, before *)
(* or after it has had its effect.  The field closed of FileWriter is never*)
(* set, so every call may follow every other.                              *)
(***************************************************************************)
EXTENDS Integers, Sequences, SequencesExt

CONSTANTS BlockSize, \* blockSize of the file
          Sizes,     \* lengths of the writes
          OldFiles,  \* the lengths that a file to append to may have
          MaxFile    \* bound: units given to Write

ASSUME HdfsWriterAssumption ==
  BlockSize \in Nat \ {0} /\ Sizes \subseteq Nat \ {0} /\ OldFiles \subseteq 0..MaxFile

VARIABLES w,     \* FileWriter: the call in progress, where it is, the block it names next
          bw,    \* its blockWriter, NoWriter for nil
          hdfs,  \* external: the blocks of the file, and whether a client has it open
          out    \* what the last call returned, and whether any has failed

writeVars == <<w, bw, hdfs, out>>

NoWriter == [id |-> 0]
NewWriter(id, off) == [id |-> id, off |-> off, stream |-> "none", buffered |-> 0]

\* External: a block has the length the namenode was told, and the units that are stored.
Block(n) == [len |-> n, stored |-> n, committed |-> TRUE]
Fresh == [len |-> 0, stored |-> 0, committed |-> FALSE]
BlocksOf == hdfs.blocks
Count == Len(BlocksOf)

WriteInit ==
  /\ w = [call |-> "none", at |-> "new", rest |-> 0, prev |-> 0, given |-> 0]
  /\ bw = NoWriter
  /\ hdfs = [blocks |-> << >>, open |-> FALSE]
  /\ out = [call |-> "none", ok |-> TRUE, clean |-> TRUE]

Returns(ok) ==
  /\ w' = [w EXCEPT !.call = "none", !.at = "idle", !.rest = 0]
  /\ out' = [call |-> w.call, ok |-> ok, clean |-> out.clean /\ ok]
Fails == Returns(FALSE) /\ UNCHANGED <<bw, hdfs>>
At(s) == w' = [w EXCEPT !.at = s] /\ UNCHANGED out

-----------------------------------------------------------------------------
(* Opening.                                                                *)

CreateFile ==
  /\ w.at = "new"
  /\ hdfs' = [hdfs EXCEPT !.open = TRUE]
  /\ At("idle") /\ UNCHANGED bw

OldBlocks(n) ==
  [i \in 1..((n + BlockSize - 1) \div BlockSize) |->
     Block(IF i * BlockSize <= n THEN BlockSize ELSE n % BlockSize)]

appendOffset(b) == b.len

\* Append: the last block is continued if it is not full.
AppendFile ==
  /\ w.at = "new"
  /\ \E n \in OldFiles :
       LET old == OldBlocks(n)
           partial == n % BlockSize # 0 IN
       /\ hdfs' = [blocks |-> IF partial THEN [old EXCEPT ![Len(old)].committed = FALSE] ELSE old,
                   open |-> TRUE]
       /\ bw' = IF partial THEN NewWriter(Len(old), appendOffset(Last(old))) ELSE NoWriter
       /\ w' = [w EXCEPT !.at = "idle", !.given = n]
  /\ UNCHANGED out

-----------------------------------------------------------------------------
(* Write.                                                                  *)

WriteFile(n) ==
  /\ w.at = "idle" /\ w.given + n <= MaxFile
  /\ w' = [w EXCEPT !.call = "Write", !.rest = n, !.given = @ + n, !.prev = 0,
                    !.at = IF bw = NoWriter THEN "addBlock" ELSE "write"]
  /\ UNCHANGED <<bw, hdfs, out>>

\* External: the namenode adds a block after the one the client names, or after one that
\* is committed (or none) if it names none, and commits the one that is named.
AcceptsBytes(prev) ==
  /\ hdfs.open
  /\ IF prev # 0 THEN prev = Count ELSE \A i \in DOMAIN BlocksOf : BlocksOf[i].committed
Commit(prev) ==
  IF prev = 0 THEN BlocksOf ELSE [BlocksOf EXCEPT ![prev].committed = TRUE]

\* The rest of startNewBlock, after finalizeBlock.
addBlock ==
  /\ w.at = "addBlock"
  /\ \/ /\ AcceptsBytes(w.prev)
        /\ hdfs' = [hdfs EXCEPT !.blocks = Append(Commit(w.prev), Fresh)]
        /\ \/ bw' = NewWriter(Count + 1, 0) /\ At("write")
           \/ Returns(FALSE) /\ UNCHANGED bw  \* the answer is lost
     \/ Fails

Room == BlockSize - bw.off

\* What FileWriter.Write does on ErrEndOfBlock: startNewBlock.
endOfBlock == "finalize"

\* BlockWriter.Write: a block that is full, or what there is room for, on a new stream if
\* there is none.  A write on a stream that fails has counted its bytes.
blockWrite ==
  /\ w.at = "write"
  /\ LET n == IF w.rest < Room THEN w.rest ELSE Room IN
     CASE Room <= 0 -> At(endOfBlock) /\ UNCHANGED <<bw, hdfs>>
       [] Room > 0 /\ bw.stream = "closed" -> Fails
       [] OTHER ->
            \/ /\ bw' = [bw EXCEPT !.off = @ + n, !.buffered = @ + n,
                                   !.stream = IF @ = "none" THEN "open" ELSE @]
               /\ IF n = w.rest THEN Returns(TRUE)
                  ELSE w' = [w EXCEPT !.rest = @ - n, !.at = endOfBlock] /\ UNCHANGED out
               /\ UNCHANGED hdfs
            \/ bw.stream = "none" /\ Fails
            \/ /\ bw' = [bw EXCEPT !.off = @ + n, !.buffered = @ + n, !.stream = "broken"]
               /\ Returns(FALSE) /\ UNCHANGED hdfs

\* Flush sends what is buffered and does not wait for the acknowledgements.
FlushFile ==
  /\ w.at = "idle" /\ bw # NoWriter /\ bw.stream \in {"open", "broken"}
  /\ bw' = [bw EXCEPT !.stream = "broken"]
  /\ out' = [call |-> "Flush", ok |-> FALSE, clean |-> FALSE]
  /\ UNCHANGED <<w, hdfs>>

-----------------------------------------------------------------------------
(* Close, and finalizeBlock for it and for startNewBlock.                  *)

CloseFile ==
  /\ w.at = "idle"
  /\ w' = [w EXCEPT !.call = "Close", !.prev = 0,
                    !.at = IF bw = NoWriter THEN "complete" ELSE "finalize"]
  /\ UNCHANGED <<bw, hdfs, out>>

\* BlockWriter.Close: a stream that has been closed before returns no error.
closeBlock ==
  /\ w.at = "finalize"
  /\ IF bw.stream \in {"none", "closed"} THEN At("update") /\ UNCHANGED <<bw, hdfs>>
     ELSE /\ bw' = [bw EXCEPT !.stream = "closed"]
          /\ \E kept \in 0..bw.buffered :
               hdfs' = [hdfs EXCEPT !.blocks[bw.id].stored = @ + kept]
          /\ \/ Returns(FALSE)
             \/ /\ bw.stream = "open" => hdfs'.blocks[bw.id].stored = BlocksOf[bw.id].stored + bw.buffered
                /\ At("update")

\* updateBlockForPipeline.  blockWriter is nil then, and the block that the next call
\* names has its length.
updateBlock ==
  /\ w.at = "update"
  /\ \/ /\ w' = [w EXCEPT !.prev = bw.id, !.at = IF w.call = "Close" THEN "complete" ELSE "addBlock"]
        /\ hdfs' = [hdfs EXCEPT !.blocks[bw.id].len = bw.off]
        /\ bw' = NoWriter /\ UNCHANGED out
     \/ Fails

\* The rest of Close.
complete ==
  /\ w.at = "complete"
  /\ \/ /\ hdfs.open
        /\ hdfs' = [blocks |-> Commit(w.prev), open |-> FALSE]
        /\ \E ok \in BOOLEAN : Returns(ok)
        /\ UNCHANGED bw
     \/ Fails

writerSteps == addBlock \/ blockWrite \/ closeBlock \/ updateBlock \/ complete

WriteNext ==
  \/ CreateFile \/ AppendFile \/ FlushFile \/ CloseFile \/ writerSteps
  \/ \E n \in Sizes : WriteFile(n)

-----------------------------------------------------------------------------
StoredUpTo[i \in Nat] == IF i = 0 THEN 0 ELSE StoredUpTo[i - 1] + BlocksOf[i].stored

\* "Close closes the file, writing any remaining data out to disk and waiting for
\* acknowledgements": if no call has returned an error, then after Close the file is what
\* was there before and all that was given to Write, with the lengths that the namenode
\* was told.
CloseMeansStored ==
  out.call = "Close" /\ out.clean /\ w.at = "idle" =>
    /\ StoredUpTo[Count] = w.given
    /\ \A i \in DOMAIN BlocksOf : BlocksOf[i].committed /\ BlocksOf[i].len = BlocksOf[i].stored

\* Whatever fails, no block grows past BlockSize, a block is followed by another only
\* when it is full, and only the last one is open: startNewBlock names the block it follows.
BlocksInOrder ==
  \A i \in DOMAIN BlocksOf :
    /\ BlocksOf[i].stored <= BlockSize
    /\ i < Count => BlocksOf[i].committed /\ BlocksOf[i].len = BlockSize

\* A call that must return: ErrEndOfBlock leads to a block that has room.
WritePending == w.at \notin {"new", "idle"}
=============================================================================
