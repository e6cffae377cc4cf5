----------------------------- MODULE HdfsReader -----------------------------
(***************************************************************************)
(* Reading a file of HDFS: FileReader goes from block to block, BlockReader*)
(* from datanode to datanode, blockReadStream through the packets of one   *)
(* datanode and the chunks of a packet, each of which has a checksum.      *)
(*                                                                         *)
(* A byte is the offset in the file that it was written at; a byte that    *)
(* does not agree with its checksum, or was never data, is Bad.            *)
(***************************************************************************)
EXTENDS Integers, Sequences, SequencesExt, FiniteSets, TLC

CONSTANTS BlockSizes,  \* external: the sizes of the blocks of the file, in order
          Locations,   \* external: Locations[k], the datanodes of block k, in order
          ChunkSize,   \* external: bytes per checksum
          PacketChunks,\* external: chunks in a full packet
          Damaged,     \* external: chunks <<datanode, block, index>> that may be damaged
          Lengths,     \* buffer lengths of the caller
          Offsets,     \* offsets that the caller may ask for
          MaxCalls     \* bound: calls in a behaviour

ASSUME HdfsReaderAssumption ==
  /\ ChunkSize \in Nat \ {0} /\ PacketChunks \in Nat \ {0} /\ Lengths \subseteq Nat \ {0}
  /\ Offsets \subseteq Nat
  /\ DOMAIN BlockSizes = DOMAIN Locations /\ \A k \in DOMAIN BlockSizes : BlockSizes[k] > 0

VARIABLES file,     \* FileReader: offset, closed and the call in progress
          block,    \* its blockReader, NoBlock for nil
          failures, \* datanodeFailures: the datanodes that failed, the latest failure last
          damaged,  \* external: the chunks that are damaged
          returned  \* what the last call returned

readVars == <<file, block, failures, damaged, returned>>

Bad == -1
Blocks == DOMAIN BlockSizes
Datanodes == UNION {Range(Locations[k]) : k \in Blocks}
Offset[k \in Nat] == IF k <= 1 THEN 0 ELSE Offset[k - 1] + BlockSizes[k - 1]
Size == Offset[Len(BlockSizes)] + BlockSizes[Len(BlockSizes)]

NoStream == [on |-> FALSE]
NoBlock == [k |-> 0]
Nothing == [op |-> "none", from |-> 0, want |-> 0, bytes |-> << >>, err |-> "nil"]

ReadInit ==
  /\ file = [offset |-> 0, closed |-> FALSE, op |-> "none", want |-> 0, got |-> << >>, from |-> 0, calls |-> 0]
  /\ block = NoBlock /\ failures = << >> /\ returned = Nothing
  /\ damaged \in SUBSET Damaged

-----------------------------------------------------------------------------
(* blockReadStream.  off is the place in the block of the next byte of the *)
(* connection, packet the place where the current packet starts; the       *)
(* packets cover the block from a chunk boundary on, and an empty one is   *)
(* the last.                                                               *)

Start(off) ==
  [on |-> TRUE, off |-> off, packet |-> off, length |-> 0, index |-> 0, num |-> 0, last |-> FALSE, chunk |-> << >>]

startPacket(k, s) ==
  LET length == Min({PacketChunks * ChunkSize, BlockSizes[k] - s.off}) IN
  [s EXCEPT !.packet = s.off, !.length = length, !.index = 0, !.last = length = 0,
            !.num = (length + ChunkSize - 1) \div ChunkSize]

\* n bytes from the connection.  What comes after the data of the packet is no data.
Take(dn, k, s, n) ==
  [i \in 1..n |-> LET b == s.off + i - 1 IN
     IF b < s.packet + s.length /\ <<dn, k, b \div ChunkSize>> \notin damaged
     THEN Offset[k] + b ELSE Bad]

\* validateChecksum compares with the checksum number index: the bytes must be intact, and
\* the chunk's own.
Valid(s, bytes) == Bad \notin Range(bytes) /\ s.off = s.packet + s.index * ChunkSize

\* A read returns bytes, an error, and the stream after it.
Got(bytes, err, s) == [bytes |-> bytes, err |-> err, s |-> s]

FromChunk(s, n, err) ==
  Got(SubSeq(s.chunk, 1, Min({n, Len(s.chunk)})), err, [s EXCEPT !.chunk = SubSeq(@, n + 1, Len(@))])

\* A read of less than a chunk buffers one.  If it is damaged the error is dropped: the
\* read returns nothing, and the chunk stays in the buffer.
SmallRead(dn, k, s, n) ==
  LET size == Min({ChunkSize, s.length - s.index * ChunkSize})
      bytes == Take(dn, k, s, size)
      after == [s EXCEPT !.off = @ + size, !.chunk = bytes]
  IN IF Valid(s, bytes) THEN FromChunk([after EXCEPT !.index = @ + 1], n, "nil") ELSE Got(<< >>, "nil", after)

\* A larger one goes to the caller's buffer, by whole chunks; all of it is returned even if
\* a chunk is damaged.
LargeRead(dn, k, s, n) ==
  LET remaining == s.length - s.index * ChunkSize
      chunks == IF n > remaining THEN s.num - s.index ELSE n \div ChunkSize
      bytes == Take(dn, k, s, IF n > remaining THEN remaining ELSE chunks * ChunkSize)
      after == [s EXCEPT !.off = @ + Len(bytes)]
  IN IF ~Valid(s, bytes) THEN Got(bytes, "checksum", after)
     ELSE Got(bytes, IF s.index + chunks = s.num /\ s.last THEN "EOF" ELSE "nil", [after EXCEPT !.index = @ + chunks])

StreamRead(dn, k, s0, n) ==
  IF s0.index = s0.num /\ s0.last THEN Got(<< >>, "EOF", s0)
  ELSE LET s == IF s0.index = s0.num THEN startPacket(k, s0) ELSE s0 IN
       IF s.chunk # << >> THEN FromChunk(s, n, "nil")
       ELSE IF n < ChunkSize THEN SmallRead(dn, k, s, n) ELSE LargeRead(dn, k, s, n)

\* The datanode starts at a chunk boundary: connectNext reads up to the offset, a second
\* time if the first read returns nothing.
Connected(dn, k, off) ==
  LET skip == off % ChunkSize
      first == StreamRead(dn, k, Start(off - skip), skip)
      second == IF first.bytes = << >> THEN StreamRead(dn, k, first.s, skip) ELSE first
  IN IF skip = 0 THEN Start(off) ELSE second.s

-----------------------------------------------------------------------------
(* datanodeFailover.                                                       *)

Age(dn) == IF Contains(failures, dn) THEN SelectInSeq(failures, LAMBDA d : d = dn) ELSE 0

\* The first that has never failed, or the one whose failure is the oldest.
pick(left) ==
  CHOOSE i \in DOMAIN left : \A j \in DOMAIN left : Age(left[i]) < Age(left[j]) \/ (Age(left[i]) = Age(left[j]) /\ i <= j)

recordFailure(dn) == failures' = Append(SelectSeq(failures, LAMBDA d : d # dn), dn)

-----------------------------------------------------------------------------
(* Returning to the caller.  Read returns what one read of a block gave it;*)
(* ReadAt (io.ReadFull) goes on until its buffer is full.                  *)

Return(got, err) ==
  /\ returned' = [op |-> file.op, from |-> file.from, want |-> file.want, bytes |-> got, err |-> err]
  /\ file' = [file EXCEPT !.op = "none", !.got = << >>, !.offset = @ + Len(got) - Len(file.got)]

Delivered(bytes) ==
  LET got == file.got \o bytes IN
  IF file.op = "Read" \/ Len(got) = file.want THEN Return(got, "nil")
  ELSE file' = [file EXCEPT !.got = got, !.offset = @ + Len(bytes)] /\ UNCHANGED returned

Reading == file.op \in {"Read", "ReadAt"}
Idle == file.op = "none" /\ file.calls < MaxCalls

Call(op, n, off) ==
  file' = [file EXCEPT !.op = op, !.want = n, !.from = off, !.offset = off, !.calls = @ + 1]

Read(n) ==
  /\ Idle /\ ~file.closed
  /\ Call("Read", n, file.offset)
  /\ UNCHANGED <<block, failures, damaged, returned>>

Seek(off) == block' = IF off = file.offset THEN block ELSE NoBlock

\* An offset past the end is refused by Seek.
ReadAt(n, off) ==
  /\ Idle /\ ~file.closed /\ off <= Size
  /\ Seek(off) /\ Call("ReadAt", n, off)
  /\ UNCHANGED <<failures, damaged, returned>>

Close ==
  /\ Idle
  /\ file' = [file EXCEPT !.closed = TRUE, !.calls = MaxCalls]
  /\ UNCHANGED <<block, failures, damaged, returned>>

endOfFile ==
  /\ Reading /\ file.offset >= Size
  /\ Return(file.got, "EOF")
  /\ UNCHANGED <<block, failures, damaged>>

\* Mutant: the block after the one that has ended starts where it ended.
getNewBlockReaderFromStart ==
  /\ Reading /\ file.offset < Size /\ block = NoBlock
  /\ \E k \in Blocks :
       /\ Offset[k] <= file.offset /\ file.offset < Offset[k] + BlockSizes[k]
       /\ block' = [k |-> k, off |-> 0, left |-> Locations[k], cur |-> 0, stream |-> NoStream]
  /\ UNCHANGED <<file, failures, damaged, returned>>

getNewBlockReader ==
  /\ Reading /\ file.offset < Size /\ block = NoBlock
  /\ \E k \in Blocks :
       /\ Offset[k] <= file.offset /\ file.offset < Offset[k] + BlockSizes[k]
       /\ block' = [k |-> k, off |-> file.offset - Offset[k], left |-> Locations[k], cur |-> 0, stream |-> NoStream]
  /\ UNCHANGED <<file, failures, damaged, returned>>

\* The end of a block that is not the end of the file closes the BlockReader.
blockEnds ==
  /\ Reading /\ block # NoBlock /\ file.offset < Size /\ block.off >= BlockSizes[block.k]
  /\ block' = NoBlock
  /\ UNCHANGED <<file, failures, damaged, returned>>

InBlock == Reading /\ block # NoBlock /\ file.offset < Size /\ block.off < BlockSizes[block.k]

Picked == [block EXCEPT !.left = RemoveAt(@, pick(@)), !.cur = block.left[pick(block.left)]]

\* connectNext fails to dial, to ask, or to get an answer.
connectFails ==
  /\ InBlock /\ ~block.stream.on /\ block.left # << >>
  /\ block' = Picked /\ recordFailure(Picked.cur)
  /\ UNCHANGED <<file, damaged, returned>>

connectNext ==
  /\ InBlock /\ ~block.stream.on /\ block.left # << >>
  /\ block' = [Picked EXCEPT !.stream = Connected(Picked.cur, block.k, block.off)]
  /\ UNCHANGED <<file, failures, damaged, returned>>

\* "In the case that all the datanodes fail": the BlockReader is dropped.
allFailed ==
  /\ InBlock /\ ~block.stream.on /\ block.left = << >>
  /\ block' = NoBlock /\ Return(file.got, "failed")
  /\ UNCHANGED <<failures, damaged>>

Failed(b) == [b EXCEPT !.stream = NoStream]

\* The connection breaks: nothing was read, or a part that is returned.
streamFails ==
  /\ InBlock /\ block.stream.on
  /\ recordFailure(block.cur)
  /\ \/ block' = Failed(block) /\ UNCHANGED <<file, returned>>
     \/ /\ file.want - Len(file.got) > ChunkSize /\ block.stream.chunk = << >>
        /\ LET s == block.stream
               got == StreamRead(block.cur, block.k, s, file.want - Len(file.got)).bytes
           IN /\ Len(got) > 1
              /\ block' = Failed([block EXCEPT !.off = @ + 1])
              /\ Delivered(SubSeq(got, 1, 1))
  /\ UNCHANGED damaged

streamRead ==
  /\ InBlock /\ block.stream.on
  /\ LET r == StreamRead(block.cur, block.k, block.stream, file.want - Len(file.got))
         b == [block EXCEPT !.off = @ + Len(r.bytes), !.stream = r.s]
     IN CASE r.err = "checksum" -> block' = Failed(b) /\ recordFailure(block.cur) /\ Delivered(r.bytes)
          [] r.err # "checksum" /\ r.bytes # << >> -> block' = b /\ Delivered(r.bytes) /\ UNCHANGED failures
          [] OTHER -> block' = NoBlock /\ UNCHANGED <<file, failures, returned>>
  /\ UNCHANGED damaged

\* Other readers fail on the same datanodes.
otherFails ==
  /\ \E dn \in Datanodes : ~Contains(failures, dn) /\ recordFailure(dn)
  /\ UNCHANGED <<file, block, damaged, returned>>

-----------------------------------------------------------------------------
readSteps ==
  \/ endOfFile \/ getNewBlockReader \/ blockEnds \/ connectFails \/ connectNext \/ allFailed
  \/ streamFails \/ streamRead

ReadNext ==
  \/ \E n \in Lengths : Read(n) \/ \E off \in Offsets : ReadAt(n, off)
  \/ Close \/ readSteps \/ otherFails

-----------------------------------------------------------------------------
\* Whatever datanodes fail and wherever, each call returns the bytes of the file
\* from its offset on, none left out, repeated or from elsewhere; a byte may only be
\* damaged.  ReadAt fills its buffer unless the file ends or all datanodes fail, and
\* Read returns at least one byte.
ReadsFollowFile ==
  LET r == returned IN
  /\ \A i \in DOMAIN r.bytes : r.bytes[i] \in {r.from + i - 1, Bad}
  /\ r.err = "nil" /\ r.op = "Read" => r.bytes # << >>
  /\ r.err = "nil" /\ r.op = "ReadAt" => Len(r.bytes) = r.want
  /\ r.err = "EOF" => r.from + Len(r.bytes) = Size

\* A call that must return, however datanodes fail, and also when a stream ends before the block
\* does (a small read of the last chunk); a damaged chunk is the exception.
ReadPending == Reading /\ damaged = {}

-----------------------------------------------------------------------------
(***************************************************************************)
(* FileReader.Checksum: the checksum of each block from one of its         *)
(* datanodes (ChecksumReader), and the padding of the whole.  A checksum   *)
(* of a block is its number; lengths are counted in block checksums, of    *)
(* which two are the least length.                                         *)
(***************************************************************************)

CONSTANT Replicas \* external: Replicas[k], the number of datanodes of block k

VARIABLE sum \* Checksum: the block it is at, the datanodes left to it, and the lengths

checksumVars == <<sum>>

SumInit ==
  sum = [at |-> "block", k |-> 1, left |-> Replicas[1], md5s |-> << >>, total |-> 0, padded |-> 2,
         err |-> FALSE, asked |-> FALSE]

More == sum.at = "block" /\ sum.k <= Len(Replicas)

lengthened(s) == [s EXCEPT !.total = @ + 1, !.padded = IF @ < s.total + 1 THEN @ * 2 ELSE @]

NextBlock(s) ==
  [s EXCEPT !.k = @ + 1, !.asked = FALSE, !.left = IF s.k < Len(Replicas) THEN Replicas[s.k + 1] ELSE 0]

readChecksum ==
  /\ More /\ sum.left > 0
  /\ sum' = NextBlock(lengthened([sum EXCEPT !.md5s = Append(@, sum.k)]))

readChecksumFails == More /\ sum.left > 0 /\ sum' = [sum EXCEPT !.left = @ - 1, !.asked = TRUE]

\* No datanode is left.  There is an error only if one was asked: without any, the
\* checksum of the block is empty.
noDatanode ==
  /\ More /\ sum.left = 0
  /\ sum' = IF sum.asked THEN [sum EXCEPT !.at = "returned", !.err = TRUE] ELSE NextBlock(sum)

checksumReturns ==
  /\ sum.at = "block" /\ sum.k > Len(Replicas)
  /\ sum' = [sum EXCEPT !.at = "returned"]

SumNext == readChecksum \/ readChecksumFails \/ noDatanode \/ checksumReturns

-----------------------------------------------------------------------------
Located == SelectSeq([k \in DOMAIN Replicas |-> k], LAMBDA k : Replicas[k] > 0)
PowersOfTwo == {2^i : i \in 1..Len(Replicas)}

\* "padded with zeroes out to the next power of 2 (with a minimum of 32)": a checksum that
\* is returned without an error covers every block that has a datanode, in order, and
\* its padding is the least that the comment allows, so the length of the zeroes is never
\* negative.
ChecksumCoversFile ==
  sum.at = "returned" /\ ~sum.err =>
    /\ sum.md5s = Located
    /\ sum.padded \in PowersOfTwo /\ sum.padded >= sum.total
    /\ \A p \in PowersOfTwo : p >= sum.total => p >= sum.padded
=============================================================================
