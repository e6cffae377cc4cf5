--------------------------- MODULE PageAllocator ----------------------------
(***************************************************************************)
(* The pages of a session that was made with WithRSAllocator, on top of    *)
(* the packet pipeline: the reader receives a packet into a page, a worker *)
(* that serves a read fills a second one, and the controller gives the     *)
(* pages of a request back once it has sent the reply.  The pages of a     *)
(* request are kept under its order id, which the reader uses before the   *)
(* packet is there.                                                        *)
(***************************************************************************)
EXTENDS PacketManager

CONSTANT PagedKinds \* bound: the kinds of packets that arrive in such a session

ASSUME PageAllocatorAssumption == PagedKinds \subseteq Kinds

VARIABLES available, \* allocator.available, the next page last
          used,      \* allocator.used: the pages of an order id, never an empty list
          made,      \* pages that make([]byte, maxMsgLength) has returned: 1..made
          holds,     \* holds[g]: what was written into page g last
          pageOf,    \* pageOf[p]: the page of packet p, and that of its data or 0
          readerPage \* the page into which the reader receives, or 0

pageVars == <<available, used, made, holds, pageOf, readerPage>>

Nothing == <<"nothing", 0>>

PagesInit ==
  /\ available = << >> /\ used = << >> /\ made = 0
  /\ holds = << >> /\ pageOf = << >> /\ readerPage = 0

----------------------------------------------------------------------------
(* The allocator; each method holds its lock.                              *)

PagesOf(id) == IF id \in DOMAIN used THEN used[id] ELSE << >>

\* The page that GetPage returns.
NextPage == IF available = << >> THEN made + 1 ELSE available[Len(available)]

\* GetPage, and what the caller writes into the page.
GetPage(id, content) ==
  /\ available' = IF available = << >> THEN available ELSE SubSeq(available, 1, Len(available) - 1)
  /\ made' = IF available = << >> THEN made + 1 ELSE made
  /\ used' = [o \in DOMAIN used \cup {id} |-> IF o = id THEN Append(PagesOf(id), NextPage) ELSE used[o]]
  /\ holds' = [g \in 1..made' |-> IF g = NextPage THEN content ELSE holds[g]]

ReleasePages(id) ==
  /\ available' = available \o PagesOf(id)
  /\ used' = [o \in DOMAIN used \ {id} |-> used[o]]
  /\ UNCHANGED <<made, holds>>

Free == available' = << >> /\ used' = << >> /\ UNCHANGED <<made, holds>>

----------------------------------------------------------------------------
\* The page is kept under the id that newOrderID will give to the packet.
recvPacket ==
  /\ reader = "serving" /\ readerPage = 0
  /\ Len(kind) < MaxPackets
  /\ GetPage(OrderID(Len(kind) + 1), Nothing)
  /\ readerPage' = NextPage
  /\ UNCHANGED <<vars, pageOf>>

RecvIntoPage(k) ==
  /\ readerPage # 0
  /\ Recv(k)
  /\ holds' = [holds EXCEPT ![readerPage] = <<"packet", Len(kind) + 1>>]
  /\ pageOf' = Append(pageOf, <<readerPage, 0>>)
  /\ readerPage' = 0
  /\ UNCHANGED <<available, used, made>>

\* The page of a packet that does not come is left to Free.
RecvErrorPage == RecvError /\ UNCHANGED pageVars

\* A worker that serves a read.
getDataSlice(w) ==
  LET p == worker[w].pkt IN
  /\ worker[w].st = "busy" /\ kind[p] = "rw" /\ pageOf[p][2] = 0
  /\ GetPage(OrderID(p), <<"data", p>>)
  /\ pageOf' = [pageOf EXCEPT ![p][2] = NextPage]
  /\ UNCHANGED <<vars, readerPage>>

\* Mutant: maybeSendPackets gives the pages back when it has the response.
CtlSendEarly ==
  \/ CtlResponse /\ ReleasePages(OrderID(Head(responses))) /\ UNCHANGED <<pageOf, readerPage>>
  \/ CtlSend /\ UNCHANGED pageVars

CtlSendPages ==
  \/ CtlSend /\ ReleasePages(OrderID(sent'[Len(sent')])) /\ UNCHANGED <<pageOf, readerPage>>
  \/ CtlResponse /\ UNCHANGED pageVars

ServeReturnPages == ServeReturn /\ Free /\ UNCHANGED <<pageOf, readerPage>>

PagesNext ==
  \/ recvPacket
  \/ \E k \in PagedKinds : RecvIntoPage(k)
  \/ RecvErrorPage
  \/ \E w \in Workers : getDataSlice(w) \/ (Worker(w) /\ UNCHANGED pageVars)
  \/ Dispatcher /\ UNCHANGED pageVars
  \/ CtlSendPages
  \/ (CtlRequest \/ CtlFini \/ CtlBreak \/ Finished) /\ UNCHANGED pageVars
  \/ ServeReturnPages

----------------------------------------------------------------------------
(* Properties.                                                             *)

Unsent == {p \in DOMAIN pageOf : \A i \in DOMAIN sent : sent[i] # p}

\* Until the reply to a request is sent, its page has the bytes of the request and the
\* page of its data has the data: GetPage gives neither of them to anybody else.
PagesIntact ==
  \A p \in Unsent :
    /\ holds[pageOf[p][1]] = <<"packet", p>> /\ pageOf[p][1] # readerPage
    /\ pageOf[p][2] # 0 => holds[pageOf[p][2]] = <<"data", p>>

\* No page is lost and none is in two places while the session is served: each is either
\* available, or kept under the id of one request that has no reply yet or is awaited.
PagesAccounted ==
  serve = "running" =>
    \A g \in 1..made :
      Cardinality({<<0, i>> : i \in {i \in DOMAIN available : available[i] = g}}
                  \cup {<<o, i>> \in {OrderID(p) : p \in Unsent \cup {Len(kind) + 1}} \X (1..2) :
                          i <= Len(PagesOf(o)) /\ used[o][i] = g}) = 1
============================================================================
