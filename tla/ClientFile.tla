----------------------------- MODULE ClientFile -----------------------------
(***************************************************************************)
(* The transfers of a remote file that an SFTP client has open: ReadAt,    *)
(* WriteTo, Write and ReadFrom split the data into packets, keep a growing *)
(* window of requests outstanding and put the answers together, which come *)
(* in any order and may be short, an error, or a lost connection.          *)
(*                                                                         *)
(* The byte at offset i of the data is i + 1, so a misplaced byte shows.   *)
(* A request is taken from t.reqs when its answer is; inFlight is the size *)
(* of that set.                                                            *)
(***************************************************************************)
EXTENDS Integers, Sequences, FiniteSets, TLC

CONSTANTS MaxPacket,     \* maxPacket
          MaxConcurrent, \* maxConcurrentRequests
          MaxSize        \* bound: the largest file, buffer or source

ASSUME ClientFileAssumption ==
  /\ MaxPacket \in Nat \ {0} /\ MaxConcurrent \in Nat \ {0} /\ MaxSize \in Nat

VARIABLES t,       \* the transfer: the local variables of the method
          fOffset, \* f.offset
          remote   \* external: the bytes of the remote file, by offset

fileVars == <<t, fOffset, remote>>

NoErr == [off |-> 0, err |-> "nil"]

Bytes(from, n) == [k \in 1..n |-> from + k]

\* A file that is read has its bytes from the start; one that is written has none.
FileOf(n) == [i \in 0..(n - 1) |-> i + 1]

\* source is the file's size, the length of the buffer to write, or of the reader;
\* room is what the writer given to WriteTo accepts before it fails.
Transfer(op, start, length, source, room) ==
  [op |-> op, at |-> "run", start |-> start, offset |-> start, left |-> length,
   source |-> source, room |-> room, reqs |-> {}, desired |-> 1, n |-> 0, first |-> NoErr,
   buf |-> << >>, pending |-> << >>, writeOffset |-> start, out |-> << >>,
   short |-> FALSE, hidden |-> FALSE]

FileInit ==
  /\ fOffset \in {0, 1}
  /\ \/ \E size, l \in 0..MaxSize :
          t = Transfer("ReadAt", fOffset, l, size, 0) /\ remote = FileOf(size)
     \/ \E size, room \in 0..MaxSize :
          t = Transfer("WriteTo", fOffset, 0, size, room) /\ remote = FileOf(size)
     \/ \E l \in 0..MaxSize : t = Transfer("Write", fOffset, l, l, 0) /\ remote = << >>
     \/ \E l \in 0..MaxSize : t = Transfer("ReadFrom", fOffset, 0, l, 0) /\ remote = << >>

Running(op) == t.at = "run" /\ t.op = op
InFlight == Cardinality(t.reqs)
Failed == t.first.err # "nil"

Least(a, b) == IF a < b THEN a ELSE b
Grow(d) == IF d < MaxConcurrent THEN d + 1 ELSE d

\* firstErr keeps the error of the lowest offset; one without an offset counts as 0.
Earlier(r, e) == IF ~Failed \/ r.off < t.first.off THEN [off |-> r.off, err |-> e] ELSE t.first
NoOffset(e) == [off |-> 0, err |-> e]

-----------------------------------------------------------------------------
(* What a server makes of a request.                                       *)

\* The bytes that a read of r can return; the server may return fewer of them.
Available(r) == Least(r.len, t.source - r.off)

-----------------------------------------------------------------------------
(* ReadAt.                                                                 *)

ReadAtMaySend == InFlight < t.desired /\ t.left > 0 /\ ~Failed

ReadAtSend ==
  /\ Running("ReadAt") /\ ReadAtMaySend
  /\ LET l == Least(t.left, MaxPacket) IN
     t' = [t EXCEPT !.reqs = @ \cup {[off |-> t.offset, len |-> l]},
                    !.offset = @ + l, !.left = @ - l]
  /\ UNCHANGED <<fOffset, remote>>

ReadAtError(r, first) ==
  t' = [t EXCEPT !.reqs = @ \ {r}, !.first = first]

\* The rest of a short answer is asked for again, whatever else has failed.
ReadAtData(r, l) ==
  t' = [t EXCEPT !.reqs = (@ \ {r}) \cup
                   (IF l < r.len THEN {[off |-> r.off + l, len |-> r.len - l]} ELSE {}),
                 !.n = @ + l, !.desired = Grow(@),
                 !.buf = [i \in r.off..(r.off + l - 1) |-> i + 1] @@ @]

ReadAtReply ==
  /\ Running("ReadAt") /\ ~ReadAtMaySend
  /\ \E r \in t.reqs :
       \/ ReadAtError(r, NoOffset("lost"))
       \/ ReadAtError(r, Earlier(r, "failure"))
       \/ Available(r) <= 0 /\ ReadAtError(r, Earlier(r, "EOF"))
       \/ \E l \in 1..Available(r) : ReadAtData(r, l)
  /\ UNCHANGED <<fOffset, remote>>

\* The caller is Read, which moves the offset by what ReadAt returns.
ReadAtReturn ==
  /\ Running("ReadAt") /\ ~ReadAtMaySend /\ InFlight = 0
  /\ LET read == IF t.first.err \in {"nil", "EOF"} THEN t.n ELSE 0 IN
     /\ t' = [t EXCEPT !.at = "done", !.n = read]
     /\ fOffset' = fOffset + read
  /\ UNCHANGED remote

-----------------------------------------------------------------------------
(* WriteTo.                                                                *)

WriteToMaySend == ~Failed /\ InFlight + Cardinality(DOMAIN t.pending) < t.desired

\* t.source is the size that Stat returned before the first request.
WriteToSend ==
  /\ Running("WriteTo") /\ WriteToMaySend
  /\ t' = [t EXCEPT !.reqs = @ \cup {[off |-> t.offset, len |-> MaxPacket]},
                    !.offset = @ + MaxPacket,
                    !.desired = IF t.offset + MaxPacket > t.source THEN 1 ELSE @]
  /\ UNCHANGED <<fOffset, remote>>

\* External: w.Write takes what it has room for and fails if that is not all.
Accepted(x, data) == Least(Len(data), x.room - Len(x.out))

\* w.Write(data), whose count is added to copied when counted.
WriteOut(x, data, counted) ==
  LET k == Accepted(x, data) IN
  [x EXCEPT !.out = @ \o SubSeq(data, 1, k), !.n = IF counted THEN @ + k ELSE @,
            !.first = IF k < Len(data) THEN [off |-> x.writeOffset + k, err |-> "write"] ELSE @,
            !.writeOffset = IF k < Len(data) THEN @ ELSE @ + k]

\* Data that came early follows once the data before it is written.
RECURSIVE FlushPending(_)
FlushPending(x) ==
  IF x.writeOffset \notin DOMAIN x.pending \/ x.first.err = "write" THEN x
  ELSE FlushPending(WriteOut([x EXCEPT !.pending = [o \in DOMAIN @ \ {x.writeOffset} |-> @[o]]],
                             x.pending[x.writeOffset], FALSE))

\* Mutant: data is written as it comes.
WriteToDataUnordered(r, l) ==
  t' = WriteOut([t EXCEPT !.reqs = @ \ {r}], Bytes(r.off, l), TRUE)

\* An answer shorter than the request is not asked for again.
WriteToData(r, l) ==
  LET x == [t EXCEPT !.reqs = @ \ {r}, !.short = @ \/ l < Available(r)]
      data == Bytes(r.off, l)
      y == WriteOut(x, data, TRUE) IN
  t' = CASE r.off # t.writeOffset ->
              [x EXCEPT !.pending = (r.off :> data) @@ @]
         [] Accepted(x, data) < l -> y
         [] OTHER -> FlushPending([y EXCEPT !.desired = IF t.offset > t.source THEN 1 ELSE Grow(@)])

WriteToReply ==
  /\ Running("WriteTo") /\ ~WriteToMaySend
  /\ \E r \in t.reqs :
       \/ ReadAtError(r, NoOffset("lost"))
       \/ ReadAtError(r, Earlier(r, "failure"))
       \/ Available(r) <= 0 /\ ReadAtError(r, Earlier(r, "EOF"))
       \/ \E l \in 1..Available(r) : WriteToData(r, l)
  /\ UNCHANGED <<fOffset, remote>>

WriteToReturn ==
  /\ Running("WriteTo") /\ ~WriteToMaySend /\ InFlight = 0
  /\ t' = [t EXCEPT !.at = "done",
                    !.first = IF ~Failed THEN NoOffset("inconsistent")
                              ELSE IF @.err = "EOF" THEN NoErr ELSE @]
  /\ UNCHANGED <<fOffset, remote>>

-----------------------------------------------------------------------------
(* Write and ReadFrom.                                                     *)

\* External: the server stores the data of r and says so, or does neither; when the
\* connection is lost it may have stored it.
Stored(r) == [i \in r.off..(r.off + r.len - 1) |-> r.from + (i - r.off)] @@ remote

\* A failure counts when it is the first error; afterwards it widens the window.
AfterStatus(r, failed) ==
  [t EXCEPT !.reqs = @ \ {r},
            !.first = IF failed /\ ~Failed THEN NoOffset("failure") ELSE @,
            !.hidden = @ \/ (failed /\ t.first.err = "EOF"),
            !.desired = IF failed /\ ~Failed THEN @ ELSE Grow(@)]

WriteReply(r) ==
  \/ /\ remote' = Stored(r)
     /\ t' = AfterStatus(r, FALSE)
  \/ /\ UNCHANGED remote
     /\ t' = AfterStatus(r, TRUE)
  \/ /\ remote' \in {remote, Stored(r)}
     /\ t' = [t EXCEPT !.reqs = @ \ {r}, !.first = NoOffset("lost")]

WriteMaySend == InFlight < t.desired /\ t.left > 0 /\ ~Failed

WriteSend ==
  /\ Running("Write") /\ WriteMaySend
  /\ LET l == Least(t.left, MaxPacket) IN
     t' = [t EXCEPT !.reqs = @ \cup {[off |-> t.offset, len |-> l, from |-> t.source - t.left + 1]},
                    !.offset = @ + l, !.left = @ - l]
  /\ UNCHANGED <<fOffset, remote>>

WriteTakes ==
  /\ Running("Write") /\ ~WriteMaySend
  /\ \E r \in t.reqs : WriteReply(r)
  /\ UNCHANGED fOffset

WriteReturn ==
  /\ Running("Write") /\ ~WriteMaySend /\ InFlight = 0
  /\ LET written == IF Failed THEN 0 ELSE t.source IN
     /\ t' = [t EXCEPT !.at = "done", !.n = written]
     /\ fOffset' = fOffset + written
  /\ UNCHANGED remote

ReadFromMaySend == InFlight < t.desired /\ ~Failed

\* r.Read gives some bytes, the end with or after the last ones, or an error; what it
\* gave is sent in each case.
ReadFromSend ==
  /\ Running("ReadFrom") /\ ReadFromMaySend
  /\ \E k \in 0..Least(MaxPacket, t.source - t.n), e \in {"nil", "EOF", "read"} :
       /\ e = "EOF" => t.n + k = t.source
       /\ e = "nil" => k > 0
       /\ t' = [t EXCEPT !.reqs = @ \cup {[off |-> t.offset, len |-> k, from |-> t.n + 1]},
                         !.first = IF e = "nil" THEN @ ELSE NoOffset(e),
                         !.offset = @ + k, !.n = @ + k]
  /\ UNCHANGED <<fOffset, remote>>

ReadFromTakes ==
  /\ Running("ReadFrom") /\ ~ReadFromMaySend
  /\ \E r \in t.reqs : WriteReply(r)
  /\ UNCHANGED fOffset

ReadFromReturn ==
  /\ Running("ReadFrom") /\ ~ReadFromMaySend /\ InFlight = 0
  /\ LET e == IF t.first.err = "EOF" THEN NoErr ELSE t.first
         read == IF e.err = "nil" THEN t.n ELSE 0 IN
     /\ t' = [t EXCEPT !.at = "done", !.first = e, !.n = read]
     /\ fOffset' = fOffset + read
  /\ UNCHANGED remote

-----------------------------------------------------------------------------
TransferSteps ==
  \/ ReadAtSend \/ ReadAtReply \/ ReadAtReturn
  \/ WriteToSend \/ WriteToReply \/ WriteToReturn
  \/ WriteSend \/ WriteTakes \/ WriteReturn
  \/ ReadFromSend \/ ReadFromTakes \/ ReadFromReturn

FileNext == TransferSteps

\* The method runs; every request is answered, if only by the end of the connection
\* (ClientConn).
FileSpec == FileInit /\ [][FileNext]_fileVars /\ WF_fileVars(TransferSteps)

-----------------------------------------------------------------------------
Done(op, errs) == t.at = "done" /\ t.op = op /\ t.first.err \in errs

\* ReadAt never claims a byte that it did not get: without an error the buffer is the
\* file's content and is full, with EOF it is the content up to the end of the file,
\* with any other error nothing is claimed, in whatever order answers, short answers and
\* errors came.
ReadAtExact ==
  /\ Done("ReadAt", {"nil"}) => t.left = 0 /\ t.n = t.offset - t.start
  /\ Done("ReadAt", {"EOF"}) => t.n = IF t.source > t.start THEN t.source - t.start ELSE 0
  /\ Done("ReadAt", {"nil", "EOF"}) =>
       \A i \in t.start..(t.start + t.n - 1) : i \in DOMAIN t.buf /\ t.buf[i] = remote[i]
  /\ Done("ReadAt", {"failure", "lost"}) => t.n = 0

\* WriteTo hands its writer the file from the offset on, in order and without a gap, and
\* returns no error only when that was all of it.  A server that answers a read in the
\* middle of the file short is the exception: nothing asks for the missing bytes again.
WriteToInOrder ==
  t.op = "WriteTo" /\ ~t.short =>
    /\ t.out = Bytes(t.start, Len(t.out))
    /\ Done("WriteTo", {"nil"}) => t.start + Len(t.out) >= t.source
    /\ t.first.err # "inconsistent"

\* Write and ReadFrom return a count and no error only when the server has stored every
\* byte at its place, and the offset moves by exactly what is returned.  A failure that
\* ReadFrom receives after its reader has reached the end is the exception.
StoredWhenReported ==
  Done("Write", {"nil"}) \/ (Done("ReadFrom", {"nil"}) /\ ~t.hidden) =>
    /\ t.n = t.source
    /\ \A i \in 0..(t.n - 1) : t.start + i \in DOMAIN remote /\ remote[t.start + i] = i + 1
    /\ fOffset = t.start + t.n

\* A transfer never has more requests outstanding than its channel is made for.
WindowBounded == InFlight <= MaxConcurrent
=============================================================================
