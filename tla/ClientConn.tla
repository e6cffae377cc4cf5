----------------------------- MODULE ClientConn -----------------------------
(***************************************************************************)
(* The connection of an SFTP client, which many goroutines share.  A call  *)
(* registers each of its requests in inflight under a fresh id, sends it   *)
(* and waits on its own channel.  One goroutine reads the replies, finds   *)
(* the channel by id, and when the connection ends tells every channel     *)
(* that is still registered.                                               *)
(*                                                                         *)
(* A call is one sendPacket (a window of one request) or one transfer of   *)
(* a file (a window of several requests on one channel).                   *)
(***************************************************************************)
EXTENDS Integers, Sequences, FiniteSets

CONSTANTS Calls,      \* the calls that goroutines make
          Window,     \* Window[c]: requests of call c outstanding at a time
          MaxRequests \* bound: MaxRequests[c], requests that call c makes at most

ASSUME ClientConnAssumption ==
  /\ Window \in [Calls -> Nat \ {0}] /\ MaxRequests \in [Calls -> Nat \ {0}]

VARIABLES setup,       \* where NewClient is: "loop" when the client is up, "none" when it failed
          call,        \* call[c]: where call c is, and its counters
          ch,          \* ch[c]: the results in the channel of call c
          nextid,
          inflight,    \* inflight[id]: the call that waits for the reply
          writeClosed, \* the writing side of the connection is closed
          recvLoop,    \* the goroutine that reads replies, and what it holds
          closed,      \* the channel "closed" that Wait waits for
          wire,        \* external: ids of requests that the server has
          replies,     \* external: ids of replies on their way back
          hungUp       \* external: the server has ended the connection

connVars == <<setup, call, ch, nextid, inflight, writeClosed, recvLoop, closed, wire, replies, hungUp>>

NoCall == [at |-> "new", id |-> 0, inFlight |-> 0, made |-> 0, failed |-> FALSE]
Reading == [at |-> "read", id |-> 0, to |-> {}]

ConnInit ==
  /\ setup = "options"
  /\ call = [c \in Calls |-> NoCall]
  /\ ch = [c \in Calls |-> << >>]
  /\ nextid = 0 /\ inflight = << >>
  /\ writeClosed = FALSE /\ recvLoop = [Reading EXCEPT !.at = "off"] /\ closed = FALSE
  /\ wire = {} /\ replies = << >> /\ hungUp = FALSE

Drop(f, x) == [y \in DOMAIN f \ {x} |-> f[y]]

\* make(chan result, 2) for one request, maxConcurrentRequests + 1 for a transfer.
Capacity(c) == Window[c] + 1

-----------------------------------------------------------------------------
(* NewClient: options, the version exchange, then the reading goroutine.   *)

\* The error of an option.  A size is a number of bytes, n a number of requests.
MaxPacketChecked(size) == size < 1 \/ size > 32768
MaxPacketUnchecked(size) == size < 1
MaxConcurrentRequestsPerFile(n) == n < 1

\* Setup goes on to the next stage, or closes the writer and fails.
Stage(next, err) ==
  /\ setup' = IF err THEN "none" ELSE next
  /\ writeClosed' = (writeClosed \/ err)
  /\ UNCHANGED <<call, ch, nextid, inflight, closed, wire, replies, hungUp>>

applyOptions ==
  /\ setup = "options"
  /\ \E size \in {0, 32768, 32769}, n \in 0..1 :
       \/ Stage("init", MaxPacketChecked(size) \/ MaxConcurrentRequestsPerFile(n))
       \/ Stage("init", MaxPacketUnchecked(size) \/ MaxConcurrentRequestsPerFile(n))
  /\ UNCHANGED recvLoop

sendInit ==
  /\ setup = "init"
  /\ \/ Stage("version", FALSE)
     \/ hungUp /\ Stage("version", TRUE)
  /\ UNCHANGED recvLoop

\* The answer is version 3 with extensions; or another packet, another version, a list of
\* extensions that is cut short, or nothing at all.
recvVersion ==
  /\ setup = "version"
  /\ \/ Stage("loop", FALSE) /\ recvLoop' = Reading
     \/ Stage("loop", TRUE) /\ UNCHANGED recvLoop

-----------------------------------------------------------------------------
(* A call.                                                                 *)

nextID == nextid + 1

\* dispatchRequest registers the request before it sends it.
dispatchRequest(c) ==
  /\ setup = "loop" /\ call[c].at \in {"new", "waiting"}
  /\ call[c].inFlight < Window[c] /\ call[c].made < MaxRequests[c] /\ ~call[c].failed
  /\ nextid' = nextID
  /\ inflight' = [i \in DOMAIN inflight \cup {nextID} |-> IF i = nextID THEN c ELSE inflight[i]]
  /\ call' = [call EXCEPT ![c].at = "registered", ![c].id = nextID, ![c].made = @ + 1]
  /\ UNCHANGED <<setup, ch, writeClosed, recvLoop, closed, wire, replies, hungUp>>

sendPacket(c) ==
  /\ call[c].at = "registered" /\ ~writeClosed
  /\ wire' = IF hungUp THEN wire ELSE wire \cup {call[c].id}
  /\ call' = [call EXCEPT ![c].at = "waiting", ![c].inFlight = @ + 1]
  /\ UNCHANGED <<setup, ch, nextid, inflight, writeClosed, recvLoop, closed, replies, hungUp>>

\* Mutant: the request stays registered and the call is not told.
sendFailsSilent(c) ==
  /\ call[c].at = "registered" /\ (writeClosed \/ hungUp)
  /\ inflight' = Drop(inflight, call[c].id)
  /\ call' = [call EXCEPT ![c].at = "waiting", ![c].inFlight = @ + 1]
  /\ UNCHANGED <<setup, ch, nextid, writeClosed, recvLoop, closed, wire, replies, hungUp>>

\* A write to a connection that is closed or gone fails.
sendFails(c) ==
  /\ call[c].at = "registered" /\ (writeClosed \/ hungUp)
  /\ inflight' = Drop(inflight, call[c].id)
  /\ call' = [call EXCEPT ![c].at = "failing"]
  /\ UNCHANGED <<setup, ch, nextid, writeClosed, recvLoop, closed, wire, replies, hungUp>>

tellFailure(c) ==
  /\ call[c].at = "failing" /\ Len(ch[c]) < Capacity(c)
  /\ ch' = [ch EXCEPT ![c] = Append(@, [id |-> call[c].id, err |-> TRUE])]
  /\ call' = [call EXCEPT ![c].at = "waiting", ![c].inFlight = @ + 1]
  /\ UNCHANGED <<setup, nextid, inflight, writeClosed, recvLoop, closed, wire, replies, hungUp>>

\* The call takes a result; it returns with the last one that it expects.
takeResult(c) ==
  /\ call[c].at = "waiting" /\ ch[c] # << >>
  /\ ch' = [ch EXCEPT ![c] = Tail(@)]
  /\ LET failed == call[c].failed \/ Head(ch[c]).err
         over == call[c].inFlight = 1 /\ (failed \/ call[c].made = MaxRequests[c]) IN
     call' = [call EXCEPT ![c].inFlight = @ - 1, ![c].failed = failed,
                          ![c].at = IF over THEN "returned" ELSE "waiting"]
  /\ UNCHANGED <<setup, nextid, inflight, writeClosed, recvLoop, closed, wire, replies, hungUp>>

Close ==
  /\ setup = "loop" /\ ~writeClosed
  /\ writeClosed' = TRUE
  /\ UNCHANGED <<setup, call, ch, nextid, inflight, recvLoop, closed, wire, replies, hungUp>>

-----------------------------------------------------------------------------
(* The reading goroutine: recv, and broadcastErr when recv has returned.   *)

recv ==
  /\ recvLoop.at = "read" /\ replies # << >>
  /\ LET sid == Head(replies) IN
     /\ inflight' = Drop(inflight, sid)
     /\ recvLoop' = IF sid \in DOMAIN inflight
                    THEN [at |-> "deliver", id |-> sid, to |-> {inflight[sid]}]
                    ELSE [Reading EXCEPT !.at = "close"]
  /\ replies' = Tail(replies)
  /\ UNCHANGED <<setup, call, ch, nextid, writeClosed, closed, wire, hungUp>>

deliver ==
  /\ recvLoop.at = "deliver"
  /\ \E c \in recvLoop.to :
       /\ Len(ch[c]) < Capacity(c)
       /\ ch' = [ch EXCEPT ![c] = Append(@, [id |-> recvLoop.id, err |-> FALSE])]
  /\ recvLoop' = Reading
  /\ UNCHANGED <<setup, call, nextid, inflight, writeClosed, closed, wire, replies, hungUp>>

\* Mutant: a read that fails is tried again.
recvErrorRetried ==
  /\ recvLoop.at = "read" /\ replies = << >> /\ hungUp
  /\ UNCHANGED connVars

recvError ==
  /\ recvLoop.at = "read" /\ replies = << >> /\ hungUp
  /\ recvLoop' = [Reading EXCEPT !.at = "close"]
  /\ UNCHANGED <<setup, call, ch, nextid, inflight, writeClosed, closed, wire, replies, hungUp>>

\* recv closes the connection before it returns to loop.
recvReturns ==
  /\ recvLoop.at = "close"
  /\ writeClosed' = TRUE
  /\ recvLoop' = [Reading EXCEPT !.at = "collect"]
  /\ UNCHANGED <<setup, call, ch, nextid, inflight, closed, wire, replies, hungUp>>

\* The channels registered at this moment, one for each request.
collectListeners ==
  /\ recvLoop.at = "collect"
  /\ recvLoop' = [at |-> "tell", id |-> 0, to |-> {<<i, inflight[i]>> : i \in DOMAIN inflight}]
  /\ UNCHANGED <<setup, call, ch, nextid, inflight, writeClosed, closed, wire, replies, hungUp>>

broadcastErr ==
  /\ recvLoop.at = "tell"
  /\ \/ /\ recvLoop.to = {}
        /\ closed' = TRUE
        /\ recvLoop' = [Reading EXCEPT !.at = "done"]
        /\ UNCHANGED ch
     \/ \E l \in recvLoop.to :
          /\ Len(ch[l[2]]) < Capacity(l[2])
          /\ ch' = [ch EXCEPT ![l[2]] = Append(@, [id |-> l[1], err |-> TRUE])]
          /\ recvLoop' = [recvLoop EXCEPT !.to = @ \ {l}]
          /\ UNCHANGED closed
  /\ UNCHANGED <<setup, call, nextid, inflight, writeClosed, wire, replies, hungUp>>

-----------------------------------------------------------------------------
(* External: the server answers in any order, may send an id that nobody   *)
(* asked for, and may end the connection at any time.                      *)

serverReplies ==
  /\ ~hungUp
  /\ \E i \in wire : wire' = wire \ {i} /\ replies' = Append(replies, i)
  /\ UNCHANGED <<setup, call, ch, nextid, inflight, writeClosed, recvLoop, closed, hungUp>>

serverHangsUp ==
  /\ ~hungUp
  /\ hungUp' = TRUE /\ wire' = {}
  /\ replies' \in {replies, Append(replies, 0)}
  /\ UNCHANGED <<setup, call, ch, nextid, inflight, writeClosed, recvLoop, closed>>

-----------------------------------------------------------------------------
\* A call that has begun goes on by itself.
callSteps(c) ==
  \/ call[c].at # "new" /\ dispatchRequest(c)
  \/ sendPacket(c) \/ sendFails(c) \/ tellFailure(c) \/ takeResult(c)

recvSteps ==
  recv \/ deliver \/ recvError \/ recvReturns \/ collectListeners \/ broadcastErr

setupSteps == applyOptions \/ sendInit \/ recvVersion

ConnNext ==
  \/ setupSteps
  \/ \E c \in Calls : dispatchRequest(c) \/ callSteps(c)
  \/ recvSteps \/ Close \/ serverReplies \/ serverHangsUp

\* Every goroutine that can run does; nothing is assumed of the server.
ConnFairness == WF_connVars(recvSteps) /\ \A c \in Calls : WF_connVars(callSteps(c))

ConnSpec == ConnInit /\ [][ConnNext]_connVars /\ ConnFairness

-----------------------------------------------------------------------------
\* The channels are sized for the worst flood (client.go: "One extra result in
\* case of an error"): no goroutine ever finds the channel it is about to send on
\* full, although a request can get one result from broadcastErr and a second one
\* from its own failed send, and nobody may be left to take either.
ChannelHasRoom ==
  /\ recvLoop.at = "deliver" => \A c \in recvLoop.to : Len(ch[c]) < Capacity(c)
  /\ recvLoop.at = "tell" => \A l \in recvLoop.to : Len(ch[l[2]]) < Capacity(l[2])
  /\ \A c \in Calls : call[c].at = "failing" => Len(ch[c]) < Capacity(c)

\* A request that its call still waits for has exactly one place it can be answered
\* from: registered in inflight while the reading goroutine runs, in the hands of
\* that goroutine, or already in the channel.  None is lost between the map, the
\* delivery and the broadcast.
WaitingIsAnswerable ==
  \A c \in Calls :
    call[c].at = "waiting" /\ call[c].inFlight > 0 =>
      Len(ch[c]) + Cardinality({i \in DOMAIN inflight : inflight[i] = c /\ recvLoop.at \notin {"tell", "done"}})
        + Cardinality({x \in recvLoop.to : (recvLoop.at = "deliver" /\ x = c) \/ (recvLoop.at = "tell" /\ x[2] = c)})
        >= call[c].inFlight

\* When the connection ends every call returns, whatever it was doing: one that is
\* registered too late for broadcastErr is told by its own failed send, because recv
\* closes the connection before the listeners are collected.
HangUpEndsCalls ==
  \A c \in Calls : (hungUp /\ call[c].at # "new") ~> (call[c].at = "returned")

\* A client that could not be set up leaves nothing behind: its writer is closed and no
\* goroutine reads; and no call is made before the reading goroutine runs.
FailedSetupIsClosed ==
  /\ setup = "none" => writeClosed
  /\ setup # "loop" => recvLoop.at = "off" /\ \A c \in Calls : call[c].at = "new"
=============================================================================
