------------------------ MODULE PacketManagerProofs ------------------------
(***************************************************************************)
(* For any number of workers and packets: the replies of a session leave   *)
(* in arrival order, a close is handled after every earlier packet, the    *)
(* WaitGroup counter never goes negative, and the pipeline implements      *)
(* OrderedReplies.  All of it under the hypothesis that the uint32 order   *)
(* id does not wrap within the session (MaxPackets < IdMod).               *)
(***************************************************************************)
EXTENDS PacketManager, FiniteSetTheorems, TLAPS

\* The packets the dispatcher has registered with the controller: all it took,
\* but for one it still holds.
Registered == IF dpc \in {"wait", "register"} THEN dpkt - 1 ELSE dpkt

\* The reader's queue continues where the dispatcher is.
QueueInv ==
  /\ dpkt + Len(pktChan) = Len(kind)
  /\ \A i \in 1..Len(pktChan) : pktChan[i] = dpkt + i

\* The replies sent, the incoming list (up to k) and the requests channel
\* follow each other without a gap, up to the registered packets.
ChainUpTo(k) ==
  /\ Len(sent) <= k
  /\ incoming = (Len(sent) + 1)..k
  /\ k + Len(requests) = Registered
  /\ \A i \in 1..Len(requests) : requests[i] = k + i

\* The inductive invariant behind RepliesInOrder.
OrderInv == RepliesInOrder /\ QueueInv /\ \E k \in Nat : ChainUpTo(k)

LEMMA OrderIDIsNumber ==
  ASSUME MaxPackets < IdMod, NEW p \in Packets
  PROVE  OrderID(p) = p
BY PacketManagerAssumption, SMT DEF OrderID, Packets

\* Appending to a list leaves the entries it had, as kind grows in serveLoop.
LEMMA AppendKeeps ==
  ASSUME NEW S, NEW s \in Seq(S), NEW x \in S, NEW i \in 1..Len(s)
  PROVE  Append(s, x)[i] = s[i]
<1> QED
  OBVIOUS

\* A run of consecutive numbers stays one when its successor is appended.
LEMMA AppendSuccessor ==
  ASSUME NEW S, NEW s \in Seq(S), NEW x \in S, NEW b \in Int, x = b + Len(s) + 1,
         \A i \in 1..Len(s) : s[i] = b + i
  PROVE  /\ Len(Append(s, x)) = Len(s) + 1
         /\ \A i \in 1..(Len(s) + 1) : Append(s, x)[i] = b + i
<1>1. ASSUME NEW i \in 1..(Len(s) + 1) PROVE Append(s, x)[i] = b + i
  <2>1. CASE i = Len(s) + 1
    BY <2>1
  <2>2. CASE i \in 1..Len(s)
    BY <2>2
  <2> QED
    BY <2>1, <2>2
<1> QED
  BY <1>1

LEMMA InitPlaces == Init => PlacesOK /\ working \in Nat
BY SMTT(60), PacketManagerAssumption DEF Init, PlacesOK, WorkerState, Packets, Holds, Idle

LEMMA NextPlaces == PlacesOK /\ [Next]_vars => PlacesOK'
<1> SUFFICES ASSUME PlacesOK, [Next]_vars PROVE PlacesOK'
  OBVIOUS
<1> USE PacketManagerAssumption DEF PlacesOK, dispVars, ctlVars, Packets, WorkerState,
              Holds, Idle, Exited, Busy, Posted
<1>1. ASSUME NEW k \in Kinds, Recv(k) PROVE PlacesOK'
  BY <1>1 DEF Recv
<1>2. CASE RecvError
  BY <1>2 DEF RecvError
<1>3. CASE ServeReturn
  BY <1>3 DEF ServeReturn
<1>4. CASE DispTake
  BY <1>4 DEF DispTake
<1>5. CASE DispWait \/ DispClose \/ DispFini
  BY ZenonT(60), <1>5 DEF DispWait, DispClose, DispFini
<1>6. CASE DispRegister
  BY <1>6 DEF DispRegister
<1>7. CASE DispForwardRw
  BY <1>7 DEF DispForwardRw
<1>8. CASE DispForwardCmd
  BY <1>8 DEF DispForwardCmd, Workers, CmdWorker
<1>9. ASSUME NEW w \in Workers, WorkerTake(w) PROVE PlacesOK'
  BY SMTT(60), <1>9 DEF WorkerTake
<1>10. ASSUME NEW w \in Workers, WorkerReady(w) PROVE PlacesOK'
  <2>1. worker[w].pkt \in Packets
    BY <1>10 DEF WorkerReady
  <2>2. responses' \in Seq(Packets)
    BY <1>10, <2>1 DEF WorkerReady
  <2>3. worker' \in [Workers -> WorkerState]
    BY <1>10, <2>1 DEF WorkerReady
  <2> QED
    BY <1>10, <2>1, <2>2, <2>3 DEF WorkerReady
<1>11. ASSUME NEW w \in Workers, WorkerDone(w) PROVE PlacesOK'
  BY <1>11 DEF WorkerDone
<1>12. ASSUME NEW w \in Workers, WorkerExit(w) PROVE PlacesOK'
  BY <1>12 DEF WorkerExit
<1>13. CASE CtlRequest \/ CtlResponse
  <2>1. CASE CtlRequest
    <3>1. Head(requests) \in Packets /\ Tail(requests) \in Seq(Packets)
      BY <2>1 DEF CtlRequest
    <3> QED
      BY ZenonT(60), <2>1, <3>1 DEF CtlRequest
  <2>2. CASE CtlResponse
    <3>1. Head(responses) \in Packets /\ Tail(responses) \in Seq(Packets)
      BY <2>2 DEF CtlResponse
    <3> QED
      BY ZenonT(60), <2>2, <3>1 DEF CtlResponse
  <2> QED
    BY SMTT(60), <1>13, <2>1, <2>2
<1>14. CASE CtlFini \/ CtlBreak
  BY ZenonT(60), <1>14 DEF CtlFini, CtlBreak
<1>15. CASE CtlSend
  BY <1>15 DEF CtlSend
<1>16. CASE UNCHANGED vars
  BY <1>16 DEF vars
<1> QED
  BY ZenonT(60), <1>1, <1>2, <1>3, <1>4, <1>5, <1>6, <1>7, <1>8, <1>9, <1>10, <1>11,
     <1>12, <1>13, <1>14, <1>15, <1>16
     DEF Next, Dispatcher, Worker, Controller, Finished

----------------------------------------------------------------------------
LEMMA InitOrder == Init => OrderInv
<1> SUFFICES ASSUME Init PROVE OrderInv
  OBVIOUS
<1>1. ChainUpTo(0)
  BY DEF Init, ChainUpTo, Registered
<1> QED
  BY <1>1 DEF Init, OrderInv, QueueInv, RepliesInOrder

\* The controller's send step answers the oldest unanswered packet: the head
\* of the incoming list is Len(sent) + 1, and it sends only on equal heads.
LEMMA SendsNext ==
  ASSUME MaxPackets < IdMod, PlacesOK, NEW k \in Nat, ChainUpTo(k), CtlSend
  PROVE  /\ Len(sent) + 1 <= k
         /\ sent' = Append(sent, Len(sent) + 1)
         /\ incoming' = incoming \ {Len(sent) + 1}
<1>1. PICK p \in outgoing :
        /\ HeadsMatch(p)
        /\ sent' = Append(sent, p)
        /\ incoming' = incoming \ {p}
  BY DEF CtlSend
<1>2. p \in incoming /\ \A q \in incoming : OrderID(p) <= OrderID(q)
  BY <1>1 DEF HeadsMatch, IsHead
<1>3. Len(sent) + 1 <= k /\ Len(sent) + 1 \in incoming
  BY <1>2 DEF ChainUpTo, PlacesOK
<1>4. OrderID(p) = p /\ OrderID(Len(sent) + 1) = Len(sent) + 1
  BY <1>2, <1>3, OrderIDIsNumber DEF PlacesOK
<1>5. p = Len(sent) + 1
  <2>1. p <= Len(sent) + 1
    BY <1>2, <1>3, <1>4
  <2>2. Len(sent) \in Nat /\ p \in (Len(sent) + 1)..k
    BY <1>2 DEF ChainUpTo, PlacesOK
  <2> QED
    BY <2>1, <2>2
<1> QED
  BY <1>1, <1>3, <1>5

LEMMA NextOrder ==
  ASSUME MaxPackets < IdMod
  PROVE  PlacesOK /\ OrderInv /\ [Next]_vars => OrderInv'
<1> SUFFICES ASSUME PlacesOK, OrderInv, [Next]_vars PROVE OrderInv'
  OBVIOUS
<1>k. PICK k \in Nat : ChainUpTo(k)
  BY DEF OrderInv
<1> USE PacketManagerAssumption DEF dispVars, ctlVars
<1>1. ASSUME NEW kd \in Kinds, Recv(kd) PROVE OrderInv'
  <2>1. QueueInv'
    <3>1. Len(kind') = Len(kind) + 1 /\ Len(kind) + 1 \in Packets
      BY <1>1 DEF Recv, PlacesOK, Packets
    <3>2. pktChan' = Append(pktChan, Len(kind) + 1)
      BY <1>1 DEF Recv
    <3>3. /\ pktChan \in Seq(Packets) /\ dpkt \in Int
          /\ Len(kind) + 1 = dpkt + Len(pktChan) + 1
          /\ \A i \in 1..Len(pktChan) : pktChan[i] = dpkt + i
      BY DEF PlacesOK, OrderInv, QueueInv
    <3>4. /\ Len(pktChan') = Len(pktChan) + 1
          /\ \A i \in 1..(Len(pktChan) + 1) : pktChan'[i] = dpkt + i
      BY ONLY <3>1, <3>2, <3>3, AppendSuccessor
    <3>5. dpkt' = dpkt /\ Len(pktChan) \in Nat /\ Len(kind) \in Nat
      BY <1>1 DEF Recv, PlacesOK
    <3> QED
      BY <3>1, <3>3, <3>4, <3>5 DEF QueueInv
  <2>2. ChainUpTo(k)' /\ RepliesInOrder'
    BY <1>1, <1>k DEF Recv, ChainUpTo, Registered, OrderInv, RepliesInOrder
  <2> QED
    BY <2>1, <2>2 DEF OrderInv
<1>2. CASE DispTake
  <2>1. dpkt' = dpkt + 1 /\ Len(pktChan') = Len(pktChan) - 1
    BY <1>2 DEF DispTake, OrderInv, QueueInv, PlacesOK
  <2>2. QueueInv'
    BY SMTT(60), <1>2, <2>1 DEF DispTake, OrderInv, QueueInv, PlacesOK
  <2>3. Registered' = Registered
    BY <1>2, <2>1 DEF DispTake, Registered, PlacesOK
  <2>4. ChainUpTo(k)' /\ RepliesInOrder'
    BY <1>2, <1>k, <2>3 DEF DispTake, ChainUpTo, OrderInv, RepliesInOrder
  <2> QED
    BY <2>2, <2>4 DEF OrderInv
<1>3. CASE DispWait \/ DispClose \/ DispFini
  <2>1. QueueInv' /\ RepliesInOrder' /\ ChainUpTo(k)'
    BY SMTT(60), <1>3, <1>k DEF DispWait, DispClose, DispFini, OrderInv, QueueInv,
                      ChainUpTo, Registered, RepliesInOrder
  <2> QED
    BY <2>1 DEF OrderInv
<1>4. CASE DispRegister
  <2>1. Registered' = Registered + 1 /\ Registered' = dpkt
    BY <1>4 DEF DispRegister, Registered, PlacesOK
  <2>2. /\ requests \in Seq(Packets) /\ dpkt \in Packets
        /\ requests' = Append(requests, dpkt)
    BY <1>4 DEF DispRegister, PlacesOK, Packets
  <2>3. /\ Len(requests') = Len(requests) + 1
        /\ \A i \in 1..(Len(requests) + 1) : requests'[i] = k + i
    <3>1. dpkt = k + Len(requests) + 1
      BY <1>k, <2>1 DEF ChainUpTo
    <3>2. \A i \in 1..Len(requests) : requests[i] = k + i
      BY <1>k DEF ChainUpTo
    <3>3. k \in Int
      OBVIOUS
    <3> QED
      BY ONLY SMTT(60), <2>2, <3>1, <3>2, <3>3, AppendSuccessor
  <2>4. ChainUpTo(k)'
    BY SMTT(60), <1>4, <1>k, <2>1, <2>2, <2>3 DEF DispRegister, ChainUpTo, PlacesOK
  <2>5. QueueInv' /\ RepliesInOrder'
    BY <1>4 DEF DispRegister, OrderInv, QueueInv, RepliesInOrder
  <2> QED
    BY <2>4, <2>5 DEF OrderInv
<1>5. CASE DispForwardRw \/ DispForwardCmd
  <2>1. QueueInv' /\ RepliesInOrder' /\ ChainUpTo(k)'
    BY SMTT(60), <1>5, <1>k DEF DispForwardRw, DispForwardCmd, OrderInv, QueueInv,
                      ChainUpTo, Registered, RepliesInOrder
  <2> QED
    BY <2>1 DEF OrderInv
<1>6. ASSUME NEW w \in Workers, Worker(w) PROVE OrderInv'
  <2>1. QueueInv' /\ RepliesInOrder' /\ ChainUpTo(k)'
    BY ZenonT(60), <1>6, <1>k DEF Worker, WorkerTake, WorkerReady, WorkerDone, WorkerExit,
                      OrderInv, QueueInv, ChainUpTo, Registered, RepliesInOrder
  <2> QED
    BY <2>1 DEF OrderInv
<1>7. CASE CtlRequest
  <2>1. Head(requests) = k + 1 /\ Len(requests') = Len(requests) - 1
    BY <1>7, <1>k DEF CtlRequest, ChainUpTo, PlacesOK
  <2>2. incoming' = (Len(sent') + 1)..(k + 1)
    BY SMTT(60), <1>7, <1>k, <2>1 DEF CtlRequest, ChainUpTo, PlacesOK
  <2>3. \A i \in 1..Len(requests') : requests'[i] = (k + 1) + i
    BY <1>7, <1>k, <2>1 DEF CtlRequest, ChainUpTo, PlacesOK
  <2>4. Registered' = Registered
    BY <1>7 DEF CtlRequest, Registered
  <2>5. ChainUpTo(k + 1)'
    BY <1>7, <1>k, <2>1, <2>2, <2>3, <2>4 DEF CtlRequest, ChainUpTo, PlacesOK
  <2>6. QueueInv' /\ RepliesInOrder'
    BY <1>7 DEF CtlRequest, OrderInv, QueueInv, RepliesInOrder
  <2> QED
    BY <2>5, <2>6 DEF OrderInv
<1>8. CASE CtlResponse \/ CtlFini \/ CtlBreak
  <2>1. QueueInv' /\ RepliesInOrder' /\ ChainUpTo(k)'
    BY ZenonT(60), <1>8, <1>k DEF CtlResponse, CtlFini, CtlBreak, OrderInv, QueueInv,
                      ChainUpTo, Registered, RepliesInOrder
  <2> QED
    BY <2>1 DEF OrderInv
<1>9. CASE CtlSend
  <2>1. Len(sent) + 1 <= k /\ sent' = Append(sent, Len(sent) + 1)
        /\ incoming' = incoming \ {Len(sent) + 1}
    BY <1>9, <1>k, SendsNext
  <2>2. Len(sent') = Len(sent) + 1 /\ RepliesInOrder'
    <3>1. sent \in Seq(Nat) /\ Len(sent) + 1 \in Nat
      BY DEF PlacesOK, Packets
    <3>2. \A i \in 1..Len(sent) : sent[i] = 0 + i
      BY DEF OrderInv, RepliesInOrder
    <3>3. /\ Len(sent') = Len(sent) + 1
          /\ \A i \in 1..(Len(sent) + 1) : sent'[i] = 0 + i
      BY <2>1, <3>1, <3>2, AppendSuccessor
    <3> QED
      BY <3>3 DEF RepliesInOrder
  <2>3. ChainUpTo(k)'
    BY SMTT(60), <1>9, <1>k, <2>1, <2>2 DEF CtlSend, ChainUpTo, Registered, PlacesOK
  <2>4. QueueInv'
    BY <1>9 DEF CtlSend, OrderInv, QueueInv
  <2> QED
    BY <2>2, <2>3, <2>4 DEF OrderInv
<1>10. CASE RecvError \/ ServeReturn \/ UNCHANGED vars
  <2>1. QueueInv' /\ RepliesInOrder' /\ ChainUpTo(k)'
    BY SMTT(60), <1>10, <1>k DEF RecvError, ServeReturn, vars, OrderInv, QueueInv,
                       ChainUpTo, Registered, RepliesInOrder
  <2> QED
    BY <2>1 DEF OrderInv
<1> QED
  BY <1>1, <1>2, <1>3, <1>4, <1>5, <1>6, <1>7, <1>8, <1>9, <1>10
     DEF Next, Dispatcher, Controller, Finished

\* For any number of workers and any channel capacity, the replies of a
\* session that does not wrap the order id are sent in arrival order, each
\* once: the goal stated at the top of packet-manager.go.
THEOREM RepliesStayInOrder ==
  ASSUME MaxPackets < IdMod
  PROVE  Spec => []RepliesInOrder
<1>1. Init => PlacesOK /\ OrderInv
  BY InitPlaces, InitOrder
<1>2. PlacesOK /\ OrderInv /\ [Next]_vars => (PlacesOK /\ OrderInv)'
  BY NextPlaces, NextOrder
<1>3. PlacesOK /\ OrderInv => RepliesInOrder
  BY DEF OrderInv
<1> QED
  BY <1>1, <1>2, <1>3, PTL DEF Spec

\* The pipeline implements OrderedReplies: every step of reader, dispatcher,
\* workers and controller is a step of the abstract session or leaves it alone.
THEOREM PipelineImplementsOrderedReplies ==
  ASSUME MaxPackets < IdMod
  PROVE  Spec => ImplementsOrderedReplies
<1> USE DEF ctlVars, Promise!repliesVars
<1>1. Init => Promise!RepliesInit
  BY DEF Init, Promise!RepliesInit
<1>2. PlacesOK /\ OrderInv /\ [Next]_vars => [Promise!RepliesNext]_Promise!repliesVars
  <2> SUFFICES ASSUME PlacesOK, OrderInv, [Next]_vars
               PROVE  [Promise!RepliesNext]_Promise!repliesVars
    OBVIOUS
  <2>1. ASSUME NEW k \in Kinds, Recv(k) PROVE Promise!Request
    BY <2>1 DEF Recv, Promise!Request, PlacesOK
  <2>2. CASE CtlFini
    BY <2>2 DEF CtlFini, Promise!RepliesNext, Promise!Stop
  <2>3. CASE CtlSend
    <3>1. PICK k \in Nat : ChainUpTo(k)
      BY DEF OrderInv
    <3>2. Len(sent) + 1 <= k /\ sent' = Append(sent, Len(sent) + 1)
      BY <2>3, <3>1, SendsNext
    <3>3. Len(sent) < Len(kind)
      BY SMTT(60), <3>1, <3>2 DEF ChainUpTo, Registered, OrderInv, QueueInv, PlacesOK
    <3>4. ctl = "send" /\ UNCHANGED <<ctl, kind>>
      BY <2>3 DEF CtlSend
    <3> QED
      BY <3>2, <3>3, <3>4 DEF Promise!RepliesNext, Promise!Reply
  <2>4. CASE CtlRequest \/ CtlResponse \/ CtlBreak
    BY <2>4 DEF CtlRequest, CtlResponse, CtlBreak
  <2>5. CASE Dispatcher
    BY <2>5 DEF Dispatcher, DispTake, DispWait, DispRegister, DispForwardRw,
                DispForwardCmd, DispClose, DispFini
  <2>6. ASSUME NEW w \in Workers, Worker(w) PROVE UNCHANGED Promise!repliesVars
    BY <2>6 DEF Worker, WorkerTake, WorkerReady, WorkerDone, WorkerExit
  <2>7. CASE RecvError \/ ServeReturn \/ UNCHANGED vars
    BY <2>7 DEF RecvError, ServeReturn, vars
  <2> QED
    BY <2>1, <2>2, <2>3, <2>4, <2>5, <2>6, <2>7
       DEF Next, Controller, Finished, Promise!RepliesNext
<1>3. Init => PlacesOK /\ OrderInv
  BY InitPlaces, InitOrder
<1>4. PlacesOK /\ OrderInv /\ [Next]_vars => (PlacesOK /\ OrderInv)'
  BY NextPlaces, NextOrder
<1> QED
  BY <1>1, <1>2, <1>3, <1>4, PTL
     DEF Spec, ImplementsOrderedReplies, Promise!RepliesSpec

----------------------------------------------------------------------------
\* The packets the dispatcher has handed to a worker or to rwChan.
Handed == IF dpc \in {"wait", "register", "forward"} THEN dpkt - 1 ELSE dpkt

\* No packet is in two places between the dispatcher and readyPacket.
DistinctInv ==
  /\ \A i, j \in 1..Len(rwChan) : i # j => rwChan[i] # rwChan[j]
  /\ \A v, w \in Workers : v # w /\ Holds(v) /\ Holds(w) => worker[v].pkt # worker[w].pkt
  /\ \A w \in Workers : \A i \in 1..Len(rwChan) : Holds(w) => worker[w].pkt # rwChan[i]
  /\ \A i \in 1..Len(rwChan) : rwChan[i] <= Handed
  /\ \A w \in Workers : Holds(w) => worker[w].pkt <= Handed

LEMMA InitDistinct == Init => DistinctInv
BY DEF Init, DistinctInv, Holds, Idle

LEMMA NextDistinct ==
  PlacesOK /\ OrderInv /\ DistinctInv /\ [Next]_vars => DistinctInv'
<1> SUFFICES ASSUME PlacesOK, OrderInv, DistinctInv, [Next]_vars PROVE DistinctInv'
  OBVIOUS
<1> USE PacketManagerAssumption DEF dispVars, ctlVars, Holds
<1>1. CASE DispTake
  <2>1. Handed' = Handed
    <3>1. dpkt' = dpkt + 1
      BY <1>1 DEF DispTake, OrderInv, QueueInv, PlacesOK
    <3>2. dpkt \in Nat
      BY SMTT(60) DEF PlacesOK
    <3> QED
      BY <1>1, <3>1, <3>2 DEF DispTake, Handed
  <2> QED
    BY <1>1, <2>1 DEF DispTake, DistinctInv
<1>2. CASE DispWait \/ DispClose \/ DispFini \/ DispRegister
  <2>1. Handed' = Handed
    BY SMTT(60), <1>2 DEF DispWait, DispClose, DispFini, DispRegister, Handed
  <2> QED
    BY <1>2, <2>1 DEF DispWait, DispClose, DispFini, DispRegister, DistinctInv
<1>3. CASE DispForwardRw
  <2>1. Handed = dpkt - 1 /\ Handed' = dpkt /\ dpkt \in Nat
    BY <1>3 DEF DispForwardRw, Handed, PlacesOK
  <2>2. rwChan \in Seq(Nat) /\ rwChan' = Append(rwChan, dpkt) /\ worker' = worker
    BY <1>3 DEF DispForwardRw, PlacesOK, Packets
  <2>3. /\ Len(rwChan') = Len(rwChan) + 1 /\ rwChan'[Len(rwChan) + 1] = dpkt
        /\ \A i \in 1..Len(rwChan) : rwChan'[i] = rwChan[i]
    BY <2>1, <2>2
  <2>4. /\ \A w \in Workers : worker[w].pkt \in Nat
        /\ \A i \in 1..Len(rwChan) : rwChan[i] \in Nat
    BY <2>2 DEF PlacesOK, WorkerState
  <2>5. \A i \in 1..Len(rwChan') : IF i \in 1..Len(rwChan) THEN rwChan'[i] = rwChan[i] /\ rwChan'[i] < dpkt
                                                         ELSE i = Len(rwChan) + 1 /\ rwChan'[i] = dpkt
    BY SMTT(60), <2>1, <2>2, <2>3, <2>4 DEF DistinctInv
  <2>6. \A w \in Workers : Holds(w) => worker[w].pkt < dpkt
    BY <2>1, <2>4 DEF DistinctInv
  <2>7. \A i, j \in 1..Len(rwChan') : i # j => rwChan'[i] # rwChan'[j]
    BY SMTT(60), <2>1, <2>4, <2>5 DEF DistinctInv
  <2>8. \A w \in Workers : \A i \in 1..Len(rwChan') : Holds(w) => worker[w].pkt # rwChan'[i]
    BY SMTT(60), <2>1, <2>4, <2>5, <2>6 DEF DistinctInv
  <2>9. \A i \in 1..Len(rwChan') : rwChan'[i] <= Handed'
    BY SMTT(60), <2>1, <2>4, <2>5
  <2>10. \A w \in Workers : Holds(w) => worker[w].pkt <= Handed'
    BY <2>1, <2>4, <2>6
  <2> QED
    BY ZenonT(60), <2>2, <2>7, <2>8, <2>9, <2>10 DEF DistinctInv
<1>4. CASE DispForwardCmd
  <2>1. Handed = dpkt - 1 /\ Handed' = dpkt /\ dpkt \in Nat
    BY <1>4 DEF DispForwardCmd, Handed, PlacesOK
  <2>2. rwChan \in Seq(Nat) /\ rwChan' = rwChan /\ CmdWorker \in Workers
    BY <1>4 DEF DispForwardCmd, PlacesOK, Packets, Workers
  <2>3. \A w \in Workers : worker'[w] = IF w = CmdWorker THEN Busy(dpkt) ELSE worker[w]
    BY <1>4 DEF DispForwardCmd, PlacesOK
  <2>4. \A w \in Workers : worker[w].pkt \in Nat
    BY DEF PlacesOK, WorkerState
  <2> QED
    BY SMTT(60), <2>1, <2>2, <2>3, <2>4 DEF DistinctInv, Busy
<1>5. ASSUME NEW w \in Workers, WorkerTake(w) PROVE DistinctInv'
  <2>1. Handed' = Handed
    BY <1>5 DEF WorkerTake, Handed
  <2>2. rwChan \in Seq(Nat) /\ rwChan # <<>> /\ rwChan' = Tail(rwChan)
    BY <1>5 DEF WorkerTake, PlacesOK, Packets
  <2>3. /\ Len(rwChan') = Len(rwChan) - 1 /\ Len(rwChan) >= 1
        /\ \A i \in 1..Len(rwChan') : rwChan'[i] = rwChan[i + 1]
    BY <2>2
  <2>4. \A v \in Workers : worker'[v] = IF v = w THEN Busy(rwChan[1]) ELSE worker[v]
    BY SMTT(60), <1>5, <2>2 DEF WorkerTake, PlacesOK
  <2> QED
    BY SMTT(60), <2>1, <2>2, <2>3, <2>4 DEF DistinctInv, Busy
<1>6. ASSUME NEW w \in Workers, WorkerReady(w) \/ WorkerDone(w) \/ WorkerExit(w)
      PROVE DistinctInv'
  <2>1. Handed' = Handed /\ rwChan' = rwChan
    BY SMTT(60), <1>6 DEF WorkerReady, WorkerDone, WorkerExit, Handed
  <2>2. \A v \in Workers : Holds(v)' => Holds(v) /\ worker'[v].pkt = worker[v].pkt
    <3>1. worker \in [Workers -> WorkerState]
      BY DEF PlacesOK
    <3>2. CASE WorkerReady(w)
      BY <3>1, <3>2 DEF WorkerReady, Posted
    <3>3. CASE WorkerDone(w)
      BY <3>1, <3>3 DEF WorkerDone, Idle
    <3>4. CASE WorkerExit(w)
      BY SMTT(60), <3>1, <3>4 DEF WorkerExit, Exited
    <3> QED
      BY <1>6, <3>2, <3>3, <3>4
  <2> QED
    BY <2>1, <2>2 DEF DistinctInv
<1>7. CASE \/ \E k \in Kinds : Recv(k)
           \/ RecvError \/ ServeReturn \/ Controller \/ UNCHANGED vars
  <2>1. UNCHANGED <<dpc, dpkt, rwChan, worker>>
    BY <1>7 DEF Recv, RecvError, ServeReturn, Controller, CtlRequest,
                CtlResponse, CtlFini, CtlSend, CtlBreak, vars
  <2> QED
    BY SMTT(60), <2>1 DEF DistinctInv, Handed
<1> QED
  BY <1>1, <1>2, <1>3, <1>4, <1>5, <1>6, <1>7
     DEF Next, Dispatcher, Worker, Finished

----------------------------------------------------------------------------
\* Membership in Unfinished, spelled out for the provers.
LEMMA UnfinishedMember ==
  ASSUME NEW p
  PROVE  p \in Unfinished <=>
           \/ \E i \in 1..Len(rwChan) : p = rwChan[i]
           \/ \E w \in Workers : Holds(w) /\ p = worker[w].pkt
           \/ dpc = "forward" /\ p = dpkt
BY DEF Unfinished

LEMMA UnfinishedMemberNext ==
  ASSUME NEW p
  PROVE  p \in Unfinished' <=>
           \/ \E i \in 1..Len(rwChan') : p = rwChan'[i]
           \/ \E w \in Workers : Holds(w)' /\ p = worker'[w].pkt
           \/ dpc' = "forward" /\ p = dpkt'
BY DEF Unfinished, Holds

LEMMA UnfinishedPackets == PlacesOK => Unfinished \subseteq Packets /\ IsFiniteSet(Unfinished)
<1> SUFFICES ASSUME PlacesOK PROVE Unfinished \subseteq Packets /\ IsFiniteSet(Unfinished)
  OBVIOUS
<1>1. ASSUME NEW p \in Unfinished PROVE p \in Packets
  <2>1. \A i \in 1..Len(rwChan) : rwChan[i] \in Packets
    BY DEF PlacesOK
  <2>2. \A w \in Workers : Holds(w) => worker[w].pkt \in Packets
    BY PacketManagerAssumption DEF PlacesOK, WorkerState, Packets
  <2>3. dpc = "forward" => dpkt \in Packets
    BY PacketManagerAssumption DEF PlacesOK, Packets
  <2> QED
    BY <2>1, <2>2, <2>3, UnfinishedMember
<1>2. IsFiniteSet(Packets)
  BY SMTT(60), FS_Interval, PacketManagerAssumption DEF Packets
<1> QED
  BY <1>1, <1>2, FS_Subset

\* A step registers one new packet, finishes one, or leaves both the set of
\* unfinished packets and the WaitGroup counter alone.
LEMMA UnfinishedStep ==
  ASSUME PlacesOK, OrderInv, DistinctInv, [Next]_vars
  PROVE  \/ Unfinished' = Unfinished /\ working' = working
         \/ /\ DispRegister
            /\ dpkt \notin Unfinished /\ Unfinished' = Unfinished \cup {dpkt}
         \/ \E w \in Workers :
              /\ WorkerDone(w)
              /\ worker[w].pkt \in Unfinished
              /\ Unfinished' = Unfinished \ {worker[w].pkt}
<1> USE PacketManagerAssumption DEF dispVars, ctlVars
<1>1. CASE DispRegister
  <2>1. dpkt \notin Unfinished
    <3>1. dpc = "register" /\ Handed = dpkt - 1 /\ dpkt \in Nat
      BY <1>1 DEF DispRegister, Handed, PlacesOK
    <3>2. \A i \in 1..Len(rwChan) : rwChan[i] # dpkt
      BY <3>1 DEF DistinctInv
    <3>3. \A w \in Workers : Holds(w) => worker[w].pkt # dpkt
      BY <3>1 DEF DistinctInv
    <3> QED
      BY <3>1, <3>2, <3>3, UnfinishedMember
  <2>2. UNCHANGED <<rwChan, worker, dpkt>> /\ dpc = "register" /\ dpc' = "forward"
    BY <1>1 DEF DispRegister
  <2>3. ASSUME NEW p PROVE p \in Unfinished' <=> p \in Unfinished \cup {dpkt}
    BY <2>2, UnfinishedMember, UnfinishedMemberNext DEF Holds
  <2> QED
    BY SMTT(60), <1>1, <2>1, <2>3
<1>2. ASSUME NEW w \in Workers, WorkerDone(w)
      PROVE  worker[w].pkt \in Unfinished /\ Unfinished' = Unfinished \ {worker[w].pkt}
  <2>1. worker[w].pkt \in Unfinished /\ Holds(w)
    BY <1>2, UnfinishedMember DEF WorkerDone, Holds
  <2>2. UNCHANGED <<rwChan, dpkt, dpc>>
    BY <1>2 DEF WorkerDone
  <2>3. \A v \in Workers : worker'[v] = IF v = w THEN Idle ELSE worker[v]
    BY <1>2 DEF WorkerDone, PlacesOK
  <2>4. \A v \in Workers : Holds(v)' <=> v # w /\ Holds(v)
    BY <2>3 DEF Holds, Idle
  <2>5. dpc = "forward" => dpkt # worker[w].pkt
    BY SMTT(60), <2>1 DEF DistinctInv, Handed, PlacesOK, WorkerState
  <2>6. ASSUME NEW p PROVE p \in Unfinished' <=> p \in Unfinished /\ p # worker[w].pkt
    BY <2>1, <2>2, <2>3, <2>4, <2>5, UnfinishedMember, UnfinishedMemberNext
       DEF DistinctInv
  <2> QED
    BY <2>1, <2>6
<1>3. CASE DispForwardRw
  <2>1. rwChan \in Seq(Packets) /\ rwChan' = Append(rwChan, dpkt) /\ dpkt \in Packets
    BY <1>3 DEF DispForwardRw, PlacesOK, Packets
  <2>2. /\ Len(rwChan') = Len(rwChan) + 1 /\ rwChan'[Len(rwChan) + 1] = dpkt
        /\ \A i \in 1..Len(rwChan) : rwChan'[i] = rwChan[i]
    BY <2>1
  <2>3. dpc = "forward" /\ dpc' = "range" /\ UNCHANGED <<worker, working>>
    BY <1>3 DEF DispForwardRw
  <2>4. ASSUME NEW p PROVE p \in Unfinished' <=> p \in Unfinished
    BY <2>1, <2>2, <2>3, UnfinishedMember, UnfinishedMemberNext DEF Holds
  <2> QED
    BY <2>3, <2>4
<1>4. CASE DispForwardCmd
  <2>1. \A v \in Workers : worker'[v] = IF v = CmdWorker THEN Busy(dpkt) ELSE worker[v]
    BY <1>4 DEF DispForwardCmd, PlacesOK
  <2>2. /\ dpc = "forward" /\ dpc' = "range" /\ UNCHANGED <<rwChan, working>>
        /\ worker[CmdWorker] = Idle /\ CmdWorker \in Workers
    BY <1>4 DEF DispForwardCmd, Workers
  <2>3. \A v \in Workers : Holds(v)' <=> v = CmdWorker \/ Holds(v)
    BY <2>1 DEF Holds, Busy
  <2>4. ~Holds(CmdWorker)
    BY SMTT(60), <2>2 DEF Holds, Idle
  <2>5. ASSUME NEW p PROVE p \in Unfinished' <=> p \in Unfinished
    BY <2>1, <2>2, <2>3, <2>4, UnfinishedMember, UnfinishedMemberNext DEF Busy
  <2> QED
    BY <2>2, <2>5
<1>5. ASSUME NEW w \in Workers, WorkerTake(w)
      PROVE  Unfinished' = Unfinished /\ working' = working
  <2>1. rwChan \in Seq(Packets) /\ rwChan # <<>> /\ rwChan' = Tail(rwChan)
    BY <1>5 DEF WorkerTake, PlacesOK
  <2>2. /\ Len(rwChan') = Len(rwChan) - 1 /\ Len(rwChan) \in Nat \ {0}
        /\ \A i \in 1..Len(rwChan') : rwChan'[i] = rwChan[i + 1]
    BY <2>1
  <2>3. \A v \in Workers : worker'[v] = IF v = w THEN Busy(rwChan[1]) ELSE worker[v]
    BY <1>5, <2>1 DEF WorkerTake, PlacesOK
  <2>4. worker[w] = Idle /\ UNCHANGED <<dpc, dpkt, working>>
    BY <1>5 DEF WorkerTake
  <2>5. /\ \A v \in Workers : Holds(v)' <=> v = w \/ Holds(v)
        /\ ~Holds(w)
    BY <2>3, <2>4 DEF Holds, Busy, Idle
  <2>6. ASSUME NEW p
        PROVE  (\E i \in 1..Len(rwChan) : p = rwChan[i]) <=>
               (p = rwChan[1] \/ \E i \in 1..Len(rwChan') : p = rwChan'[i])
    <3>1. ASSUME NEW i \in 1..Len(rwChan), p = rwChan[i], i # 1
          PROVE  \E j \in 1..Len(rwChan') : p = rwChan'[j]
      <4>1. i - 1 \in 1..Len(rwChan') /\ rwChan'[i - 1] = rwChan[i]
        BY <2>2, <3>1
      <4> QED
        BY <3>1, <4>1
    <3>2. ASSUME NEW i \in 1..Len(rwChan'), p = rwChan'[i]
          PROVE  \E j \in 1..Len(rwChan) : p = rwChan[j]
      <4>1. i + 1 \in 1..Len(rwChan) /\ rwChan'[i] = rwChan[i + 1]
        BY SMTT(60), <2>2, <3>2
      <4> QED
        BY <3>2, <4>1
    <3> QED
      BY SMTT(60), <2>2, <3>1, <3>2
  <2>7. ASSUME NEW p
        PROVE  (\E v \in Workers : Holds(v)' /\ p = worker'[v].pkt) <=>
               (p = rwChan[1] \/ \E v \in Workers : Holds(v) /\ p = worker[v].pkt)
    BY SMTT(60), <2>3, <2>5 DEF Busy
  <2>8. ASSUME NEW p PROVE p \in Unfinished' <=> p \in Unfinished
    BY ZenonT(60), <2>4, <2>6, <2>7, UnfinishedMember, UnfinishedMemberNext
  <2> QED
    BY ZenonT(60), <2>4, <2>8
<1>6. ASSUME NEW w \in Workers, WorkerReady(w) \/ WorkerExit(w)
      PROVE  Unfinished' = Unfinished /\ working' = working
  <2>1. worker \in [Workers -> WorkerState] /\ UNCHANGED <<rwChan, dpc, dpkt, working>>
    BY <1>6 DEF WorkerReady, WorkerExit, PlacesOK
  <2>2. \A v \in Workers : /\ Holds(v)' <=> Holds(v)
                           /\ Holds(v) => worker'[v].pkt = worker[v].pkt
    <3>1. CASE WorkerReady(w)
      BY <2>1, <3>1 DEF WorkerReady, Holds, Posted
    <3>2. CASE WorkerExit(w)
      BY SMTT(60), <2>1, <3>2 DEF WorkerExit, Holds, Idle, Exited
    <3> QED
      BY <1>6, <3>1, <3>2
  <2>3. ASSUME NEW p PROVE p \in Unfinished' <=> p \in Unfinished
    BY SMTT(60), <2>1, <2>2, UnfinishedMember, UnfinishedMemberNext
  <2> QED
    BY ZenonT(60), <2>1, <2>3
<1>7. CASE \/ \E k \in Kinds : Recv(k)
           \/ RecvError \/ ServeReturn \/ Controller \/ UNCHANGED vars
           \/ DispTake \/ DispWait \/ DispClose \/ DispFini
  <2>1. \/ UNCHANGED <<rwChan, worker, working>> /\ dpc # "forward" /\ dpc' # "forward"
        \/ UNCHANGED <<rwChan, worker, working, dpc, dpkt>>
    BY <1>7 DEF Recv, RecvError, ServeReturn, Controller, CtlRequest, CtlResponse,
                CtlFini, CtlSend, CtlBreak, vars, DispTake, DispWait, DispClose, DispFini
  <2> QED
    BY SMTT(60), <2>1 DEF Unfinished, Holds
<1> QED
  BY SMTT(60), <1>1, <1>2, <1>3, <1>4, <1>5, <1>6, <1>7
     DEF Next, Dispatcher, Worker, Finished

----------------------------------------------------------------------------
\* The WaitGroup counts the unfinished packets.
CountInv == working = Cardinality(Unfinished)

\* A close packet that has passed working.Wait() is alone until it reaches the
\* command worker, because only the dispatcher registers packets.
CloseInv ==
  /\ dpc = "register" /\ kind[dpkt] = "close" => Unfinished = {}
  /\ dpc = "forward" /\ kind[dpkt] = "close" => Unfinished \subseteq {dpkt}
  /\ CloseAfterEarlier

LEMMA InitCount == Init => CountInv /\ CloseInv
<1> SUFFICES ASSUME Init PROVE CountInv /\ CloseInv
  BY SMTT(60)
<1>1. Unfinished = {}
  BY DEF Init, Unfinished, Holds, Idle
<1>2. worker[CmdWorker].st # "busy" /\ dpc = "range" /\ working = 0
  BY SMTT(60) DEF Init, Idle, Workers
<1> QED
  BY <1>1, <1>2, FS_EmptySet DEF CountInv, CloseInv, CloseAfterEarlier

LEMMA NextCount ==
  PlacesOK /\ OrderInv /\ DistinctInv /\ CountInv /\ [Next]_vars => CountInv'
<1> SUFFICES ASSUME PlacesOK, OrderInv, DistinctInv, CountInv, [Next]_vars
             PROVE  CountInv'
  OBVIOUS
<1>1. IsFiniteSet(Unfinished) /\ Cardinality(Unfinished) \in Nat
  BY UnfinishedPackets, FS_CardinalityType
<1>2. CASE Unfinished' = Unfinished /\ working' = working
  BY <1>2 DEF CountInv
<1>3. CASE /\ DispRegister
           /\ dpkt \notin Unfinished /\ Unfinished' = Unfinished \cup {dpkt}
  <2>1. Cardinality(Unfinished \cup {dpkt}) = Cardinality(Unfinished) + 1
    BY <1>1, <1>3, FS_AddElement
  <2> QED
    BY <1>3, <2>1 DEF CountInv, DispRegister
<1>4. ASSUME NEW w \in Workers, WorkerDone(w), worker[w].pkt \in Unfinished,
             Unfinished' = Unfinished \ {worker[w].pkt}
      PROVE  CountInv'
  <2>1. Cardinality(Unfinished \ {worker[w].pkt}) = Cardinality(Unfinished) - 1
    BY ZenonT(60), <1>1, <1>4, FS_RemoveElement
  <2> QED
    BY <1>4, <2>1 DEF CountInv, WorkerDone
<1> QED
  BY <1>2, <1>3, <1>4, UnfinishedStep

LEMMA NextClose ==
  PlacesOK /\ OrderInv /\ DistinctInv /\ CountInv /\ CloseInv /\ [Next]_vars => CloseInv'
<1> SUFFICES ASSUME PlacesOK, OrderInv, DistinctInv, CountInv, CloseInv, [Next]_vars
             PROVE  CloseInv'
  OBVIOUS
<1> USE PacketManagerAssumption DEF dispVars, ctlVars
<1>1. \/ Unfinished' = Unfinished /\ working' = working
      \/ DispRegister /\ Unfinished' = Unfinished \cup {dpkt}
      \/ \E w \in Workers : WorkerDone(w) /\ Unfinished' \subseteq Unfinished
  BY UnfinishedStep
<1>2. CmdWorker \in Workers /\ worker[CmdWorker].pkt \in Nat
  BY DEF Workers, PlacesOK, WorkerState
<1>3. dpkt \in Nat /\ dpkt <= Len(kind) /\ Len(kind) \in Nat
  BY DEF PlacesOK, OrderInv, QueueInv
<1>4. CASE DispWait
  <2>1. Unfinished = {}
    BY ZenonT(60), <1>4, UnfinishedPackets, FS_EmptySet DEF DispWait, CountInv
  <2>2. Unfinished' = {} /\ dpc' # "forward"
    BY <1>1, <1>4, <2>1 DEF DispWait, DispRegister, WorkerDone
  <2> QED
    BY <2>2 DEF CloseInv, CloseAfterEarlier
<1>5. CASE DispRegister
  <2>1. Unfinished' = Unfinished \cup {dpkt}
    <3>1. working' # working /\ working' # working - 1
      BY <1>5, UnfinishedPackets, FS_CardinalityType DEF DispRegister, CountInv
    <3> QED
      BY <1>1, <3>1 DEF WorkerDone
  <2>2. UNCHANGED <<worker, kind, dpkt>> /\ dpc = "register" /\ dpc' = "forward"
    BY <1>5 DEF DispRegister
  <2>3. CloseAfterEarlier'
    <3>1. worker[CmdWorker].st = "busy" => dpkt >= worker[CmdWorker].pkt
      BY <1>2, <1>3, <2>2 DEF DistinctInv, Handed, Holds
    <3> QED
      BY SMTT(60), <2>1, <2>2, <3>1 DEF CloseInv, CloseAfterEarlier
  <2> QED
    BY <2>1, <2>2, <2>3 DEF CloseInv
<1>6. CASE DispForwardCmd
  <2>1. dpc = "forward" /\ dpc' = "range" /\ UNCHANGED <<working, kind>>
    BY <1>6 DEF DispForwardCmd
  <2>2. Unfinished' = Unfinished
    <3>1. working \in Nat
      BY SMTT(60), UnfinishedPackets, FS_CardinalityType DEF CountInv
    <3> QED
      BY <1>1, <2>1, <3>1 DEF DispRegister, WorkerDone
  <2>3. worker'[CmdWorker] = Busy(dpkt)
    BY SMTT(60), <1>2, <1>6 DEF DispForwardCmd, PlacesOK
  <2>4. CloseAfterEarlier'
    BY <1>3, <2>1, <2>2, <2>3 DEF CloseInv, CloseAfterEarlier, Busy
  <2> QED
    BY <2>1, <2>4 DEF CloseInv
<1>7. CASE ~DispWait /\ ~DispRegister /\ ~DispForwardCmd
  <2>1. Unfinished' \subseteq Unfinished
    BY <1>1, <1>7
  <2>2. worker'[CmdWorker].st = "busy" => worker'[CmdWorker] = worker[CmdWorker]
    <3>1. worker' = worker \/ \E w \in Workers : Worker(w)
      BY ZenonT(60), <1>7 DEF Next, Dispatcher, Controller, Finished, vars, Recv, RecvError,
         ServeReturn, DispTake, DispForwardRw, DispClose, DispFini, CtlRequest,
         CtlResponse, CtlFini, CtlSend, CtlBreak
    <3>2. ASSUME NEW w \in Workers, Worker(w), w = CmdWorker
          PROVE  worker'[CmdWorker].st # "busy"
      BY SMTT(60), <3>2, <1>2 DEF PlacesOK, Worker, WorkerTake, WorkerReady, WorkerDone,
         WorkerExit, Idle, Posted, Exited
    <3>3. ASSUME NEW w \in Workers, Worker(w), w # CmdWorker
          PROVE  worker'[CmdWorker] = worker[CmdWorker]
      BY SMTT(60), <3>3, <1>2 DEF PlacesOK, Worker, WorkerTake, WorkerReady, WorkerDone,
         WorkerExit
    <3> QED
      BY SMTT(60), <3>1, <3>2, <3>3
  <2>3. \A p \in 1..Len(kind) : kind'[p] = kind[p]
    <3>1. kind' = kind \/ \E k \in Kinds : kind' = Append(kind, k)
      BY ZenonT(60), <1>7 DEF Next, Dispatcher, Worker, Controller, Finished, vars, Recv,
         RecvError, ServeReturn, DispTake, DispForwardRw, DispClose, DispFini,
         WorkerTake, WorkerReady, WorkerDone, WorkerExit, CtlRequest, CtlResponse,
         CtlFini, CtlSend, CtlBreak
    <3>2. kind \in Seq(Kinds)
      BY DEF PlacesOK
    <3>3. ASSUME NEW k \in Kinds, NEW p \in 1..Len(kind)
          PROVE  Append(kind, k)[p] = kind[p]
      BY ONLY SMTT(60), <3>2, <3>3, AppendKeeps
    <3> QED
      BY SMTT(60), <3>1, <3>3
  <2>4. worker[CmdWorker].st = "busy" => worker[CmdWorker].pkt \in 1..Len(kind)
    BY SMTT(60), <1>2, <1>3 DEF PlacesOK, DistinctInv, Holds, Handed
  <2>5. CloseAfterEarlier'
    BY SMTT(60), <2>1, <2>2, <2>3, <2>4 DEF CloseInv, CloseAfterEarlier
  <2>6. CASE DispTake
    BY <2>5, <2>6 DEF DispTake, CloseInv
  <2>7. CASE ~DispTake
    <3>1. dpc' \in {"register", "forward"} => dpc' = dpc /\ dpkt' = dpkt
      BY ZenonT(60), <1>7, <2>7 DEF Next, Dispatcher, Worker, Controller, Finished, vars, Recv,
         RecvError, ServeReturn, DispForwardRw, DispClose, DispFini,
         WorkerTake, WorkerReady, WorkerDone, WorkerExit, CtlRequest, CtlResponse,
         CtlFini, CtlSend, CtlBreak
    <3>2. dpc' \in {"register", "forward"} => dpkt \in 1..Len(kind)
      BY <1>3, <3>1 DEF PlacesOK
    <3> QED
      BY SMTT(60), <2>1, <2>3, <2>5, <3>1, <3>2 DEF CloseInv
  <2> QED
    BY <2>6, <2>7
<1> QED
  BY <1>4, <1>5, <1>6, <1>7

\* The whole inductive invariant.
PipelineInv == PlacesOK /\ OrderInv /\ DistinctInv /\ CountInv /\ CloseInv

LEMMA PipelineInvariant ==
  ASSUME MaxPackets < IdMod
  PROVE  Spec => []PipelineInv
<1>1. Init => PipelineInv
  BY InitPlaces, InitOrder, InitDistinct, InitCount DEF PipelineInv
<1>2. PipelineInv /\ [Next]_vars => PipelineInv'
  BY NextPlaces, NextOrder, NextDistinct, NextCount, NextClose DEF PipelineInv
<1> QED
  BY <1>1, <1>2, PTL DEF Spec

\* The session's state stays well formed; in particular working.Done() is never
\* called more often than working.Add(1).
THEOREM PipelineTypeOK ==
  ASSUME MaxPackets < IdMod
  PROVE  Spec => []TypeOK
<1>1. PipelineInv => TypeOK
  BY UnfinishedPackets, FS_CardinalityType DEF PipelineInv, CountInv, TypeOK
<1> QED
  BY <1>1, PipelineInvariant, PTL

\* For any number of workers and packets, when the handler of a close packet
\* runs, every packet received before it has been handled and its response
\* posted: working.Wait() in the dispatcher is enough.
THEOREM CloseWaitsForEarlier ==
  ASSUME MaxPackets < IdMod
  PROVE  Spec => []CloseAfterEarlier
<1>1. PipelineInv => CloseAfterEarlier
  BY DEF PipelineInv, CloseInv
<1> QED
  BY <1>1, PipelineInvariant, PTL
============================================================================
