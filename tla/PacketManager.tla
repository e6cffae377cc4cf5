--------------------------- MODULE PacketManager ---------------------------
(***************************************************************************)
(* The packet pipeline of one SFTP session: RequestServer.serveLoop reads  *)
(* packets, the dispatcher goroutine of workerChan registers them and      *)
(* hands them to the workers, and the controller goroutine sends the       *)
(* replies.  A packet is its arrival number; what a handler computes is    *)
(* left out, only the kind that decides its route is kept.                 *)
(*                                                                         *)
(* A Go channel is a sequence with the channel's capacity in the guard of  *)
(* the send.  The unbuffered cmdChan is a rendezvous of dispatcher and     *)
(* command worker.  A closed channel is a fact about its closer: pktChan   *)
(* is closed once the reader has stopped, rwChan and cmdChan once the      *)
(* dispatcher is past its loop, fini once the dispatcher is done.          *)
(***************************************************************************)
EXTENDS Integers, Sequences, FiniteSets

CONSTANTS WorkerCount,  \* SftpServerWorkerCount: rw workers and channel capacity
          MaxPackets,   \* bound: packets a client sends in one session
          IdMod         \* 2^32 in the code: order ids are uint32

ASSUME PacketManagerAssumption ==
  /\ WorkerCount \in Nat \ {0}
  /\ MaxPackets \in Nat
  /\ IdMod \in Nat \ {0}

VARIABLES kind,       \* kind[p]: what packet p is; its length is packetCount
          reader,     \* serveLoop: "serving" or "closed"
          pktChan, rwChan, requests, responses,  \* the buffered channels
          dpc, dpkt,  \* dispatcher: position, and the packet it took last
          working,    \* the WaitGroup counter
          worker,     \* the rw workers 1..WorkerCount and the command worker 0
          incoming, outgoing,  \* the controller's two lists, sorted by order id
          ctl,        \* controller: "select", "send" or "exited"
          sent,       \* history: the replies passed to sendPacket, in order
          serve       \* Serve: "running", or "returned" after wg.Wait

dispVars == <<dpc, dpkt, pktChan>>
ctlVars == <<incoming, outgoing, ctl, sent>>
vars == <<kind, reader, pktChan, rwChan, requests, responses, dpc, dpkt,
          working, worker, incoming, outgoing, ctl, sent, serve>>

Kinds == {"rw", "close", "cmd"}
Packets == 1..MaxPackets
RwWorkers == 1..WorkerCount
CmdWorker == 0
Workers == RwWorkers \cup {CmdWorker}

Idle == [st |-> "idle", pkt |-> 0]
Exited == [st |-> "exited", pkt |-> 0]
Busy(p) == [st |-> "busy", pkt |-> p]
Posted(p) == [st |-> "posted", pkt |-> p]

\* The uint32 order id of a packet: newOrderID counts the packets received.
OrderID(p) == p % IdMod

\* Mutant: the lists are not sorted, any entry may be at the head.
IsHeadUnsorted(p, list) == p \in list

\* p is the first entry of a list that Sort keeps ordered by order id.
IsHead(p, list) ==
  /\ p \in list
  /\ \A q \in list : OrderID(p) <= OrderID(q)

ChannelsClosed == dpc \in {"closing", "done"}

Init ==
  /\ kind = <<>> /\ reader = "serving"
  /\ pktChan = <<>> /\ rwChan = <<>> /\ requests = <<>> /\ responses = <<>>
  /\ dpc = "range" /\ dpkt = 0 /\ working = 0
  /\ worker = [w \in Workers |-> Idle]
  /\ incoming = {} /\ outgoing = {} /\ ctl = "select" /\ sent = <<>>
  /\ serve = "running"

----------------------------------------------------------------------------
(* serveLoop: receive, number and queue a packet; or stop on any error.    *)

Recv(k) ==
  /\ reader = "serving"
  /\ Len(kind) < MaxPackets
  /\ Len(pktChan) < WorkerCount
  /\ kind' = Append(kind, k)
  /\ pktChan' = Append(pktChan, Len(kind) + 1)
  /\ UNCHANGED <<reader, rwChan, requests, responses, dpc, dpkt, working,
                 worker, ctlVars, serve>>

RecvError ==
  /\ reader = "serving"
  /\ reader' = "closed"
  /\ UNCHANGED <<kind, rwChan, requests, responses, dispVars, working,
                 worker, ctlVars, serve>>

(* Serve: wg.Wait for every worker after serveLoop has returned.           *)
ServeReturn ==
  /\ reader = "closed" /\ serve = "running"
  /\ \A w \in Workers : worker[w] = Exited
  /\ serve' = "returned"
  /\ UNCHANGED <<kind, reader, rwChan, requests, responses, dispVars, working,
                 worker, ctlVars>>

----------------------------------------------------------------------------
(* The dispatcher goroutine of workerChan.                                 *)

DispTake ==
  /\ dpc = "range" /\ pktChan # <<>>
  /\ dpkt' = Head(pktChan)
  /\ pktChan' = Tail(pktChan)
  /\ dpc' = IF kind[Head(pktChan)] = "close" THEN "wait" ELSE "register"
  /\ UNCHANGED <<kind, reader, rwChan, requests, responses, working, worker,
                 ctlVars, serve>>

\* Mutant: a close packet does not wait.
DispWaitNot ==
  /\ dpc = "wait"
  /\ dpc' = "register"
  /\ UNCHANGED <<kind, reader, pktChan, rwChan, requests, responses, dpkt,
                 working, worker, ctlVars, serve>>

\* A close packet waits for every registered packet: working.Wait().
DispWait ==
  /\ dpc = "wait" /\ working = 0
  /\ dpc' = "register"
  /\ UNCHANGED <<kind, reader, pktChan, rwChan, requests, responses, dpkt,
                 working, worker, ctlVars, serve>>

\* incomingPacket.
DispRegister ==
  /\ dpc = "register"
  /\ Len(requests) < WorkerCount
  /\ working' = working + 1
  /\ requests' = Append(requests, dpkt)
  /\ dpc' = "forward"
  /\ UNCHANGED <<kind, reader, pktChan, rwChan, responses, dpkt, worker,
                 ctlVars, serve>>

DispForwardRw ==
  /\ dpc = "forward" /\ kind[dpkt] = "rw"
  /\ Len(rwChan) < WorkerCount
  /\ rwChan' = Append(rwChan, dpkt)
  /\ dpc' = "range"
  /\ UNCHANGED <<kind, reader, pktChan, requests, responses, dpkt, working,
                 worker, ctlVars, serve>>

DispForwardCmd ==
  /\ dpc = "forward" /\ kind[dpkt] # "rw"
  /\ worker[CmdWorker] = Idle
  /\ worker' = [worker EXCEPT ![CmdWorker] = Busy(dpkt)]
  /\ dpc' = "range"
  /\ UNCHANGED <<kind, reader, pktChan, rwChan, requests, responses, dpkt,
                 working, ctlVars, serve>>

\* pktChan is closed and drained: close rwChan and cmdChan.
DispClose ==
  /\ dpc = "range" /\ pktChan = <<>> /\ reader = "closed"
  /\ dpc' = "closing"
  /\ UNCHANGED <<kind, reader, pktChan, rwChan, requests, responses, dpkt,
                 working, worker, ctlVars, serve>>

\* packetManager.close: wait for the registered packets, close fini.
DispFini ==
  /\ dpc = "closing" /\ working = 0
  /\ dpc' = "done"
  /\ UNCHANGED <<kind, reader, pktChan, rwChan, requests, responses, dpkt,
                 working, worker, ctlVars, serve>>

----------------------------------------------------------------------------
(* The workers: packetWorker, ending each packet with readyPacket.         *)

WorkerTake(w) ==
  /\ w # CmdWorker
  /\ worker[w] = Idle /\ rwChan # <<>>
  /\ worker' = [worker EXCEPT ![w] = Busy(Head(rwChan))]
  /\ rwChan' = Tail(rwChan)
  /\ UNCHANGED <<kind, reader, requests, responses, dispVars, working,
                 ctlVars, serve>>

WorkerReady(w) ==
  /\ worker[w].st = "busy"
  /\ Len(responses) < WorkerCount
  /\ responses' = Append(responses, worker[w].pkt)
  /\ worker' = [worker EXCEPT ![w] = Posted(worker[w].pkt)]
  /\ UNCHANGED <<kind, reader, rwChan, requests, dispVars, working, ctlVars,
                 serve>>

WorkerDone(w) ==
  /\ worker[w].st = "posted"
  /\ working' = working - 1
  /\ worker' = [worker EXCEPT ![w] = Idle]
  /\ UNCHANGED <<kind, reader, rwChan, requests, responses, dispVars, ctlVars,
                 serve>>

WorkerExit(w) ==
  /\ worker[w] = Idle /\ ChannelsClosed
  /\ w # CmdWorker => rwChan = <<>>
  /\ worker' = [worker EXCEPT ![w] = Exited]
  /\ UNCHANGED <<kind, reader, rwChan, requests, responses, dispVars, working,
                 ctlVars, serve>>

----------------------------------------------------------------------------
(* The controller goroutine: one select case, then maybeSendPackets.       *)

\* Mutant: maybeSendPackets runs only after a response.
CtlRequestNoSend ==
  /\ ctl = "select" /\ requests # <<>>
  /\ incoming' = incoming \cup {Head(requests)}
  /\ requests' = Tail(requests)
  /\ UNCHANGED <<kind, reader, rwChan, responses, dispVars, working, worker,
                 outgoing, ctl, sent, serve>>

CtlRequest ==
  /\ ctl = "select" /\ requests # <<>>
  /\ incoming' = incoming \cup {Head(requests)}
  /\ requests' = Tail(requests)
  /\ ctl' = "send"
  /\ UNCHANGED <<kind, reader, rwChan, responses, dispVars, working, worker,
                 outgoing, sent, serve>>

CtlResponse ==
  /\ ctl = "select" /\ responses # <<>>
  /\ outgoing' = outgoing \cup {Head(responses)}
  /\ responses' = Tail(responses)
  /\ ctl' = "send"
  /\ UNCHANGED <<kind, reader, rwChan, requests, dispVars, working, worker,
                 incoming, sent, serve>>

\* select picks any ready case, so fini wins even while replies are queued.
CtlFini ==
  /\ ctl = "select" /\ dpc = "done"
  /\ ctl' = "exited"
  /\ UNCHANGED <<kind, reader, rwChan, requests, responses, dispVars, working,
                 worker, incoming, outgoing, sent, serve>>

HeadsMatch(p) == IsHead(p, incoming) /\ IsHead(p, outgoing)

CtlSend ==
  /\ ctl = "send"
  /\ \E p \in outgoing :
       /\ HeadsMatch(p)
       /\ sent' = Append(sent, p)
       /\ incoming' = incoming \ {p}
       /\ outgoing' = outgoing \ {p}
  /\ UNCHANGED <<kind, reader, rwChan, requests, responses, dispVars, working,
                 worker, ctl, serve>>

CtlBreak ==
  /\ ctl = "send"
  /\ \A p \in outgoing : ~HeadsMatch(p)
  /\ ctl' = "select"
  /\ UNCHANGED <<kind, reader, rwChan, requests, responses, dispVars, working,
                 worker, incoming, outgoing, sent, serve>>

----------------------------------------------------------------------------
Dispatcher ==
  DispTake \/ DispWait \/ DispRegister \/ DispForwardRw \/ DispForwardCmd
  \/ DispClose \/ DispFini

Worker(w) == WorkerTake(w) \/ WorkerReady(w) \/ WorkerDone(w) \/ WorkerExit(w)

Controller == CtlRequest \/ CtlResponse \/ CtlFini \/ CtlSend \/ CtlBreak

Terminated == serve = "returned" /\ dpc = "done" /\ ctl = "exited"

\* Every goroutine of the session has returned; nothing is left to do.
Finished == Terminated /\ UNCHANGED vars

Next ==
  \/ \E k \in Kinds : Recv(k)
  \/ RecvError
  \/ ServeReturn
  \/ Dispatcher
  \/ \E w \in Workers : Worker(w)
  \/ Controller
  \/ Finished

Spec == Init /\ [][Next]_vars

\* The Go scheduler runs every goroutine that can run; handlers return.  The
\* client is not assumed to send anything or to hang up.
Fairness ==
  /\ WF_vars(ServeReturn) /\ WF_vars(Dispatcher) /\ WF_vars(Controller)
  /\ \A w \in Workers : WF_vars(Worker(w))

FairSpec == Spec /\ Fairness

----------------------------------------------------------------------------
WorkerState == [st : {"idle", "exited", "busy", "posted"}, pkt : 0..MaxPackets]

\* Worker w has taken a packet and is not done with it.
Holds(w) == worker[w].st \in {"busy", "posted"}

\* Every channel and list holds packets of the session, and every goroutine
\* is at a known place.
PlacesOK ==
  /\ kind \in Seq(Kinds) /\ Len(kind) <= MaxPackets
  /\ reader \in {"serving", "closed"}
  /\ pktChan \in Seq(Packets) /\ rwChan \in Seq(Packets)
  /\ requests \in Seq(Packets) /\ responses \in Seq(Packets)
  /\ dpc \in {"range", "wait", "register", "forward", "closing", "done"}
  /\ dpkt \in 0..MaxPackets
  /\ dpc \in {"wait", "register", "forward"} => dpkt # 0
  /\ worker \in [Workers -> WorkerState]
  /\ \A w \in Workers : Holds(w) => worker[w].pkt # 0
  /\ incoming \in SUBSET Packets /\ outgoing \in SUBSET Packets
  /\ ctl \in {"select", "send", "exited"}
  /\ sent \in Seq(Packets)
  /\ serve \in {"running", "returned"}

\* The session's state is well formed; in particular the WaitGroup counter
\* never goes negative, which would make working.Done() panic.
TypeOK == PlacesOK /\ working \in Nat

\* "keep the outgoing packets in the same order as the incoming": the replies
\* passed to sendPacket are those of packets 1, 2, 3, ... without a gap or a
\* repetition, whatever order the workers finish in.
RepliesInOrder == \A i \in 1..Len(sent) : sent[i] = i

\* The packets that are registered and not yet done: on their way to a worker
\* or in the hands of one.
Unfinished ==
  {rwChan[i] : i \in 1..Len(rwChan)}
  \cup {worker[w].pkt : w \in {v \in Workers : Holds(v)}}
  \cup (IF dpc = "forward" THEN {dpkt} ELSE {})

\* "wait for reads/writes to finish when file is closed": while the handler of
\* a close packet runs, no packet received before it is still to be handled.
CloseAfterEarlier ==
  (/\ worker[CmdWorker].st = "busy"
   /\ kind[worker[CmdWorker].pkt] = "close")
  => \A p \in Unfinished : p >= worker[CmdWorker].pkt

\* Once a client's packet is received it is answered, or the session ends and
\* the controller is told to stop: no goroutine waits for another for ever.
EveryPacketAnswered ==
  \A p \in Packets : Len(kind) >= p ~> (Len(sent) >= p \/ dpc = "done")

\* When the client hangs up, every goroutine of the session returns.
SessionEnds == reader = "closed" ~> Terminated

Promise == INSTANCE OrderedReplies
             WITH received <- Len(kind), replied <- sent,
                  stopped <- (ctl = "exited")

\* The pipeline of reader, dispatcher, workers and controller implements the
\* numbered request/reply session: every sendPacket call answers the oldest
\* unanswered request, and none comes after the controller has stopped.
ImplementsOrderedReplies == Promise!RepliesSpec

\* No session hangs: what is received is answered, and what is hung up ends.
SessionProgresses == EveryPacketAnswered /\ SessionEnds
============================================================================
