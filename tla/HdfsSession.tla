---------------------------- MODULE HdfsSession -----------------------------
(***************************************************************************)
(* One file of HDFS in an SFTP session: HTransfer.ReadAt and WriteAt,      *)
(* called by the workers of the request server for the reads or writes of  *)
(* one handle.  The client keeps up to Window requests under way; the      *)
(* workers serve them side by side, on one FileReader or FileWriter.       *)
(* (Their own steps are in HdfsReader and HdfsWriter.)  A byte is the      *)
(* offset that it belongs to.                                              *)
(***************************************************************************)
EXTENDS Integers, Sequences, SequencesExt, FiniteSets, FiniteSetsExt

CONSTANTS FileSize, \* external: bytes of the file, or bytes that the client uploads
          Length,   \* bytes per request
          Window    \* external: requests that the client has under way at a time

ASSUME HdfsTransferAssumption == FileSize \in Nat /\ Length \in Nat \ {0} /\ Window \in Nat \ {0}

VARIABLES transfer, \* HTransfer: its kind, whether it is open, and the counters
          cursor,   \* FileReader.offset
          uploaded, \* the bytes that FileWriter has got, in order
          reqs,     \* reqs[off]: the request for offset off: where it is, and its bytes
          closing   \* the client has asked to close the handle

transferVars == <<transfer, cursor, uploaded, reqs, closing>>

Starts == {off \in 0..FileSize : off % Length = 0}

TransferStart(kind) ==
  /\ transfer = [kind |-> kind, open |-> TRUE, sent |-> 0, received |-> 0]
  /\ cursor = 0 /\ uploaded = << >>
  /\ reqs = [off \in Starts |-> [at |-> "none", bytes |-> << >>]]
  /\ closing = FALSE

TransferInit == TransferStart("download") \/ TransferStart("upload")

Min2(a, b) == IF a < b THEN a ELSE b
Piece(off) == [i \in 1..Min2(Length, FileSize - off) |-> off + i - 1]
UnderWay == {off \in Starts : reqs[off].at \notin {"none", "done"}}

-----------------------------------------------------------------------------
(* External: the client uploads one piece after the other, or asks for     *)
(* pieces of a file in any order, and closes when all are answered.        *)

clientRequest ==
  /\ ~closing /\ Cardinality(UnderWay) < Window
  /\ \E off \in Starts :
       /\ reqs[off].at = "none"
       /\ transfer.kind = "upload" => off < FileSize /\ \A o \in Starts : o < off => reqs[o].at # "none"
       /\ reqs' = [reqs EXCEPT ![off].at = "sent"]
  /\ UNCHANGED <<transfer, cursor, uploaded, closing>>

clientCloses ==
  /\ ~closing /\ UnderWay = {}
  /\ closing' = TRUE
  /\ UNCHANGED <<transfer, cursor, uploaded, reqs>>

-----------------------------------------------------------------------------
(* A worker serves a request.                                              *)

Answered(off, bytes) == reqs' = [reqs EXCEPT ![off] = [at |-> "done", bytes |-> bytes]]

\* HTransfer.ReadAt: the end of the file at its size or after it, or Seek.
readAt(off) ==
  /\ transfer.kind = "download" /\ reqs[off].at = "sent"
  /\ IF off >= FileSize THEN Answered(off, << >>) /\ UNCHANGED cursor
     ELSE cursor' = off /\ reqs' = [reqs EXCEPT ![off].at = "reading"]
  /\ UNCHANGED <<transfer, uploaded, closing>>

\* One Read of io.ReadFull: some bytes from the cursor, wherever it is by now.
readMore(off) ==
  /\ reqs[off].at = "reading" /\ Len(reqs[off].bytes) < Length /\ cursor < FileSize
  /\ \E n \in 1..Min2(Length - Len(reqs[off].bytes), FileSize - cursor) :
       /\ reqs' = [reqs EXCEPT ![off].bytes = @ \o [i \in 1..n |-> cursor + i - 1]]
       /\ cursor' = cursor + n
  /\ UNCHANGED <<transfer, uploaded, closing>>

\* Full, or the end of the file, which is not an error when there are bytes.
readAtReturns(off) ==
  /\ reqs[off].at = "reading" /\ (Len(reqs[off].bytes) = Length \/ cursor >= FileSize)
  /\ Answered(off, reqs[off].bytes)
  /\ transfer' = [transfer EXCEPT !.sent = @ + Len(reqs[off].bytes)]
  /\ UNCHANGED <<cursor, uploaded, closing>>

\* HTransfer.WriteAt does not look at the offset: "can not move cursor".
writeAt(off) ==
  /\ transfer.kind = "upload" /\ reqs[off].at = "sent"
  /\ uploaded' = uploaded \o Piece(off)
  /\ Answered(off, << >>)
  /\ transfer' = [transfer EXCEPT !.received = @ + Len(Piece(off))]
  /\ UNCHANGED <<cursor, closing>>

closeTransfer ==
  /\ closing /\ transfer.open /\ UnderWay = {}
  /\ transfer' = [transfer EXCEPT !.open = FALSE]
  /\ UNCHANGED <<cursor, uploaded, reqs, closing>>

TransferNext ==
  \/ clientRequest \/ clientCloses \/ closeTransfer
  \/ \E off \in Starts : readAt(off) \/ readMore(off) \/ readAtReturns(off) \/ writeAt(off)

-----------------------------------------------------------------------------
Answers == {off \in Starts : reqs[off].at = "done"}

\* "ReadAt reads len(p) bytes from the File to download starting at byte offset off" and
\* "WriteAt writes len(p) bytes to the uploaded file starting at byte offset off"
\* (hdfshandler.go): the bytes of an answer are those of its offset, and the file on HDFS
\* is what was uploaded.  It takes a client that waits for each answer.
AtTheirOffset ==
  /\ transfer.kind = "download" => \A off \in Answers : reqs[off].bytes = Piece(off)
  /\ transfer.kind = "upload" => \A i \in DOMAIN uploaded : uploaded[i] = i - 1

-----------------------------------------------------------------------------
(***************************************************************************)
(* Listing a directory of HDFS while others change it: the namenode hands  *)
(* out the entries in batches, Readdir(n) makes parts of n entries of them *)
(* (or one of all), and the handler's ListAt makes pages for the SFTP      *)
(* client.  A name is a positive number, the empty name is 0.              *)
(***************************************************************************)

CONSTANTS Names,      \* names that may be in the directory
          Batch,      \* external: the most entries in an answer of the namenode
          Parts,      \* what n may be; 0 for everything
          Page,       \* entries that the SFTP server asks ListAt for
          MaxChanges  \* bound: changes of the directory during the listing

VARIABLES dir,     \* external: the directory, and what it has kept since the listing began
          lister,  \* FileReader: readdirLast; and the call: n, res
          listed,  \* what the calls have returned so far, and whether the end was seen
          pages    \* the pages that the SFTP client has got of it

listVars == <<dir, lister, listed, pages>>

ListInit ==
  /\ \E S \in SUBSET Names, n \in Parts :
       /\ dir = [now |-> S, kept |-> S, changes |-> 0]
       /\ lister = [last |-> 0, n |-> n, res |-> << >>, at |-> "batch"]
  /\ listed = [names |-> << >>, over |-> FALSE]
  /\ pages = [names |-> << >>, off |-> 0, over |-> FALSE]

Sorted(S) == SetToSortSeq(S, <)

\* External: somebody creates or removes an entry.
changeDir ==
  /\ dir.changes < MaxChanges /\ ~listed.over
  /\ \E x \in Names :
       dir' = IF x \in dir.now
              THEN [now |-> dir.now \ {x}, kept |-> dir.kept \ {x}, changes |-> dir.changes + 1]
              ELSE [dir EXCEPT !.now = @ \cup {x}, !.changes = @ + 1]
  /\ UNCHANGED <<lister, listed, pages>>

\* readdir: the entries after readdirLast, and how many remain.
After(x) == {y \in dir.now : y > x}
Answer(k) == SubSeq(Sorted(After(lister.last)), 1, k)

\* Mutant: what the truncation leaves out is skipped by the next call.
cutAtOnce(l) == [l EXCEPT !.res = SubSeq(@, 1, l.n)]

\* Readdir throws away what is more than n, and the next call starts after the n-th.
cutAt(l) == [l EXCEPT !.res = SubSeq(@, 1, l.n), !.last = l.res[l.n]]

readdir ==
  /\ lister.at = "batch" /\ ~listed.over
  /\ \E k \in 0..Batch :
       /\ k <= Cardinality(After(lister.last)) /\ (After(lister.last) # {} => k > 0)
       /\ LET batch == Answer(k)
              res == lister.res \o batch
              l == [lister EXCEPT !.res = res, !.last = IF batch = << >> THEN @ ELSE Last(batch)]
              more == k < Cardinality(After(lister.last)) /\ ~(lister.n > 0 /\ Len(res) >= lister.n)
          IN lister' = IF more THEN l
                       ELSE [IF lister.n > 0 /\ Len(res) > lister.n THEN cutAt(l) ELSE l EXCEPT !.at = "return"]
  /\ UNCHANGED <<dir, listed, pages>>

\* The caller goes on until the end: nothing left for n > 0, the first answer otherwise.
readdirReturns ==
  /\ lister.at = "return"
  /\ listed' = [names |-> listed.names \o lister.res, over |-> lister.n = 0 \/ lister.res = << >>]
  /\ lister' = [lister EXCEPT !.res = << >>, !.at = "batch"]
  /\ UNCHANGED <<dir, pages>>

\* A page that is not filled is the last.
endOfPages(n) == n < Page

ListAt ==
  /\ listed.over /\ ~pages.over
  /\ LET n == Min({Page, Len(listed.names) - pages.off}) IN
     pages' = [names |-> pages.names \o SubSeq(listed.names, pages.off + 1, pages.off + n),
               off |-> pages.off + n, over |-> endOfPages(n)]
  /\ UNCHANGED <<dir, lister, listed>>

ListNext == changeDir \/ readdir \/ readdirReturns \/ ListAt

-----------------------------------------------------------------------------
\* "Subsequent calls on the same file will yield further os.FileInfos": whatever the
\* batches are and whatever changes meanwhile, no name is returned twice, the order is
\* that of the directory, and a name that was there all the time is returned.
ListsWhatStays ==
  /\ \A i, j \in DOMAIN listed.names : i < j => listed.names[i] < listed.names[j]
  /\ listed.over => dir.kept \subseteq Range(listed.names)

\* The SFTP client sees the listing as it was read: ListAt cuts it into pages and
\* reports the end neither early nor never.
PagesAreTheListing ==
  /\ pages.names = SubSeq(listed.names, 1, pages.off)
  /\ pages.over => pages.names = listed.names
=============================================================================
