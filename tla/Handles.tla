------------------------------ MODULE Handles ------------------------------
(***************************************************************************)
(* The handles of one SFTP session, on top of the packet pipeline: what    *)
(* packetWorker does with openRequests between taking a packet and         *)
(* posting its reply.  Opens and closes are served one at a time by the    *)
(* command worker, reads and writes by the others, so a read can meet the  *)
(* handle before its file is open, or after it is closed.  A client may    *)
(* name any handle, also one it has not been told yet or has closed.       *)
(*                                                                         *)
(* A packet of kind "cmd" is an open (or opendir); requests without a      *)
(* handle touch none of this state.  A behaviour of SessionSpec is one     *)
(* session, seen with its handles or with its pages (PageAllocator).       *)
(***************************************************************************)
EXTENDS PageAllocator

CONSTANT Named   \* bound: the handles that packets name

VARIABLES target,        \* target[p]: the handle that packet p names
          openRequests,  \* the registered handles; handleCount is the largest so far
          handleCount,
          file,          \* file[h]: the reader or writer that Request h holds
          step,          \* step[w]: how far worker w is with its packet
          lateIO,        \* history: packets whose I/O met a file that was closed
          cleaned,       \* Serve has closed what was left open
          part           \* "handles" or "pages": what of the session is followed

handleVars == <<target, openRequests, handleCount, file, step, lateIO, cleaned>>

HandleNumbers == 1..MaxPackets

HandlesInit ==
  /\ Init
  /\ target = <<>> /\ openRequests = {} /\ handleCount = 0
  /\ file = [h \in HandleNumbers |-> "none"]
  /\ step = [w \in Workers |-> "start"]
  /\ lateIO = {} /\ cleaned = FALSE

\* A packet arrives; reads, writes and closes name a handle.
RecvHandle(k, h) ==
  /\ Recv(k)
  /\ target' = Append(target, h)
  /\ UNCHANGED <<openRequests, handleCount, file, step, lateIO, cleaned>>

----------------------------------------------------------------------------
(* packetWorker, with packet p in the hands of worker w.                   *)

Serving(w, k) == worker[w].st = "busy" /\ kind[worker[w].pkt] = k

nextRequest(w) ==
  /\ Serving(w, "cmd") /\ step[w] = "start"
  /\ handleCount' = handleCount + 1
  /\ openRequests' = openRequests \cup {handleCount + 1}
  /\ step' = [step EXCEPT ![w] = "registered"]
  /\ UNCHANGED <<vars, target, file, lateIO, cleaned>>

\* Fileread or Filewrite succeeds, and the request holds an open file.
open(w) ==
  /\ Serving(w, "cmd") /\ step[w] = "registered"
  /\ file' = [file EXCEPT ![handleCount] = "open"]
  /\ step' = [step EXCEPT ![w] = "done"]
  /\ UNCHANGED <<vars, target, openRequests, handleCount, lateIO, cleaned>>

\* It fails, and the handle is taken out again by closeRequest.
openFails(w) ==
  /\ Serving(w, "cmd") /\ step[w] = "registered"
  /\ openRequests' = openRequests \ {handleCount}
  /\ step' = [step EXCEPT ![w] = "done"]
  /\ UNCHANGED <<vars, target, handleCount, file, lateIO, cleaned>>

Closed(handles) ==
  [h \in HandleNumbers |-> IF h \in handles /\ file[h] = "open" THEN "closed" ELSE file[h]]

\* Under the lock the handle is deleted and its file closed; EBADF otherwise.
closeRequest(w) ==
  /\ Serving(w, "close") /\ step[w] = "start"
  /\ LET h == target[worker[w].pkt] IN
     /\ openRequests' = openRequests \ {h}
     /\ file' = Closed({h} \cap openRequests)
  /\ step' = [step EXCEPT ![w] = "done"]
  /\ UNCHANGED <<vars, target, handleCount, lateIO, cleaned>>

\* The request is looked up under the lock and used after it.
getRequest(w) ==
  /\ Serving(w, "rw") /\ step[w] = "start"
  /\ step' = [step EXCEPT ![w] = IF target[worker[w].pkt] \in openRequests
                                 THEN "found" ELSE "done"]
  /\ UNCHANGED <<vars, target, openRequests, handleCount, file, lateIO, cleaned>>

\* fileget, fileput: ReadAt or WriteAt, or an error when there is no file yet.
readOrWrite(w) ==
  /\ Serving(w, "rw") /\ step[w] = "found"
  /\ lateIO' = IF file[target[worker[w].pkt]] = "closed"
               THEN lateIO \cup {worker[w].pkt} ELSE lateIO
  /\ step' = [step EXCEPT ![w] = "done"]
  /\ UNCHANGED <<vars, target, openRequests, handleCount, file, cleaned>>

\* The reply is posted.
Reply(w) ==
  /\ step[w] = "done"
  /\ WorkerReady(w)
  /\ step' = [step EXCEPT ![w] = "start"]
  /\ UNCHANGED <<target, openRequests, handleCount, file, lateIO, cleaned>>

----------------------------------------------------------------------------
\* Mutant: Serve does not wait for its workers first.
closeOpenRequestsEarly ==
  /\ reader = "closed" /\ ~cleaned
  /\ openRequests' = {}
  /\ file' = Closed(openRequests)
  /\ cleaned' = TRUE
  /\ UNCHANGED <<vars, target, handleCount, step, lateIO>>

\* "make sure all open requests are properly closed", after wg.Wait.
closeOpenRequests ==
  /\ serve = "returned" /\ ~cleaned
  /\ openRequests' = {}
  /\ file' = Closed(openRequests)
  /\ cleaned' = TRUE
  /\ UNCHANGED <<vars, target, handleCount, step, lateIO>>

PipelineStep ==
  /\ \/ RecvError \/ ServeReturn \/ Dispatcher \/ Controller \/ Finished
     \/ \E w \in Workers : WorkerTake(w) \/ WorkerDone(w) \/ WorkerExit(w)
  /\ UNCHANGED handleVars

HandlesNext ==
  \/ \E k \in Kinds, h \in Named : RecvHandle(k, h)
  \/ \E w \in Workers : \/ nextRequest(w) \/ open(w) \/ openFails(w) \/ closeRequest(w)
                        \/ getRequest(w) \/ readOrWrite(w) \/ Reply(w)
  \/ closeOpenRequests
  \/ PipelineStep

SessionInit == part \in {"handles", "pages"} /\ HandlesInit /\ PagesInit

SessionNext ==
  \/ part = "handles" /\ HandlesNext /\ UNCHANGED <<part, pageVars>>
  \/ part = "pages" /\ PagesNext /\ UNCHANGED <<part, handleVars>>

SessionSpec == SessionInit /\ [][SessionNext]_<<part, vars, handleVars, pageVars>>

----------------------------------------------------------------------------
(* Properties.                                                             *)

\* A file that is open can be found and closed: its handle is registered before
\* Fileread or Filewrite runs and leaves openRequests only with its file.
OpenIsRegistered == \A h \in HandleNumbers : file[h] = "open" => h \in openRequests

\* A read or write meets a closed file only if the client sent it after a close of
\* the same handle: what was sent before the close is served before it.
IOBeforeClose ==
  \A p \in lateIO : \E q \in 1..(p - 1) : kind[q] = "close" /\ target[q] = target[p]

\* After Serve has closed what the client left open no file is open and no handle is
\* registered, and none appears later.
LeftoversClosed ==
  cleaned => openRequests = {} /\ \A h \in HandleNumbers : file[h] # "open"

\* The handles of a session and the files behind them stay together, whichever worker is
\* first: a file is open only under its handle, reads and writes sent before a close find
\* it open, and a session that has ended has closed them all.
HandlesKept == OpenIsRegistered /\ IOBeforeClose /\ LeftoversClosed

\* The pages of a request are its own until its reply is on the wire, and none is lost.
PagesKept == PagesIntact /\ PagesAccounted
============================================================================
