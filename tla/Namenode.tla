------------------------------ MODULE Namenode ------------------------------
(***************************************************************************)
(* NamenodeConnection: calls of the client and of its lease renewal share  *)
(* one connection under reqLock.  Execute finds a namenode that answers    *)
(* among hostList, a host that has failed being left alone for             *)
(* backoffDuration, and tries again only when the request could not be     *)
(* written or when the namenode says it is in standby.                     *)
(*                                                                         *)
(* External: a namenode executes a request if it is active and refuses it  *)
(* otherwise; a connection may break at any time, and the answer on it may *)
(* be lost; the first write after that may still appear to succeed.        *)
(***************************************************************************)
EXTENDS Integers, Sequences, FiniteSets, SequencesExt

CONSTANTS HostList,     \* the namenodes, in the order in which they are tried
          Qop,          \* external: the protection that each of them asks for
          Users,        \* goroutines that use the client
          MaxExecutes,  \* bound: calls of a user, and of the lease renewal
          MaxFaults,    \* bound: connections that break, failovers of the cluster
          MaxExpiries   \* bound: hosts whose backoffDuration ends

ASSUME NamenodeAssumption ==
  DOMAIN Qop = Range(HostList) /\ Range(Qop) \subseteq {"auth", "auth-int", "auth-conf"}

VARIABLES act,      \* the goroutines: where each is, its calls and their result
          lock,     \* who holds reqLock
          nnc,      \* conn, transport, currentRequestID, done and the hosts in backoff
          conns,    \* the connections that have been dialled
          cluster,  \* external: the active namenode, and what has been executed
          limits    \* faults and expiries so far

rpcVars == <<act, lock, nnc, conns, cluster, limits>>

Actors == Users \cup {"lease", "close"}
Hosts == Range(HostList)
Creator == CHOOSE u \in Users : TRUE
NoOne == "none"

RpcInit ==
  /\ act = [a \in Actors |-> [at |-> IF a = Creator THEN "resolve" ELSE "unborn",
                              pos |-> 1, id |-> 0, calls |-> 0, result |-> NoOne]]
  /\ lock = Creator
  /\ nnc = [conn |-> 0, transport |-> "auth", requestID |-> 0, done |-> FALSE, backoff |-> {}]
  /\ conns = << >>
  /\ cluster \in [active : Hosts, executed : {[i \in {} |-> 0]}]
  /\ limits = [faults |-> 0, expiries |-> 0]

GoTo(a, s) == act' = [act EXCEPT ![a].at = s]

Conn == conns[nnc.conn]

\* The deferred Unlock.
Unlock(a, result) == lock' = NoOne

CallReturns(a, result) ==
  /\ act' = [act EXCEPT ![a].at = "idle", ![a].result = result]
  /\ Unlock(a, result)

-----------------------------------------------------------------------------
(* markFailure and resolveConnection.                                      *)

DropConn == [conns EXCEPT ![nnc.conn].st = "closed"]

\* markFailure, after which the hosts are tried from pos on.
markFailure(a, pos, transport) ==
  /\ conns' = DropConn
  /\ nnc' = [nnc EXCEPT !.conn = 0, !.backoff = @ \cup {Conn.host}, !.transport = transport]
  /\ act' = [act EXCEPT ![a].at = "resolve", ![a].pos = pos]

dial(a, h) ==
  \/ /\ conns' = Append(conns, [host |-> h, st |-> "up", req |-> 0, reply |-> NoOne, of |-> 0])
     /\ nnc' = [nnc EXCEPT !.conn = Len(conns) + 1]
     /\ GoTo(a, "handshake")
  \/ /\ nnc' = [nnc EXCEPT !.backoff = @ \cup {h}]
     /\ act' = [act EXCEPT ![a].pos = @ + 1]
     /\ UNCHANGED conns

Born == act["lease"].at # "unborn"

\* A connection has been found.  NewNamenodeConnection returns, and lease renewal starts.
resolved(a) ==
  IF Born THEN GoTo(a, "write") /\ UNCHANGED lock
  ELSE /\ act' = [b \in Actors |-> [act[b] EXCEPT !.at = "idle"]]
       /\ lock' = NoOne

resolveConnection(a) ==
  /\ act[a].at = "resolve" /\ UNCHANGED <<cluster, limits>>
  /\ IF nnc.conn # 0 THEN resolved(a) /\ UNCHANGED <<nnc, conns>>
     ELSE IF act[a].pos > Len(HostList)
     THEN /\ IF Born THEN CallReturns(a, "no namenode") ELSE GoTo(a, "failed") /\ UNCHANGED lock
          /\ UNCHANGED <<nnc, conns>>
     ELSE LET h == HostList[act[a].pos] IN
          /\ UNCHANGED lock
          /\ IF h \in nnc.backoff
             THEN act' = [act EXCEPT ![a].pos = @ + 1] /\ UNCHANGED <<nnc, conns>>
             ELSE dial(a, h)

\* doKerberosHandshake: the transport is changed when the namenode asks for protection,
\* and is not changed back.
transportFor(qop, old) == IF qop \in {"auth-int", "auth-conf"} THEN qop ELSE old

\* doNamenodeHandshake, with Kerberos: it waits for answers, so a connection that is
\* broken is noticed.
doNamenodeHandshake(a) ==
  /\ act[a].at = "handshake" /\ UNCHANGED <<cluster, limits>>
  /\ \/ /\ Conn.st = "up" /\ resolved(a)
        /\ nnc' = [nnc EXCEPT !.transport = transportFor(Qop[Conn.host], @)]
        /\ UNCHANGED conns
     \/ /\ Conn.st = "cut" /\ UNCHANGED lock
        /\ \E t \in {nnc.transport, transportFor(Qop[Conn.host], nnc.transport)} :
             markFailure(a, act[a].pos + 1, t)

-----------------------------------------------------------------------------
(* Execute.                                                                *)

Execute(u) ==
  /\ act[u].at = "idle" /\ act[u].calls < MaxExecutes /\ ~nnc.done
  /\ act' = [act EXCEPT ![u].at = "lock", ![u].calls = @ + 1, ![u].result = NoOne]
  /\ UNCHANGED <<lock, nnc, conns, cluster, limits>>

\* renewLeases: when the connection is being closed and the ticker has fired, select takes
\* either case.
tick ==
  /\ act["lease"].at = "idle" /\ act["lease"].calls < MaxExecutes
  /\ act' = [act EXCEPT !["lease"].at = "lock", !["lease"].calls = @ + 1, !["lease"].result = NoOne]
  /\ UNCHANGED <<lock, nnc, conns, cluster, limits>>

leaseDone ==
  /\ act["lease"].at = "idle" /\ nnc.done
  /\ GoTo("lease", "gone") /\ UNCHANGED <<lock, nnc, conns, cluster, limits>>

start(a) ==
  /\ act[a].at = "lock" /\ lock = NoOne
  /\ lock' = a
  /\ nnc' = [nnc EXCEPT !.requestID = @ + 1]
  /\ act' = [act EXCEPT ![a].at = "resolve", ![a].pos = 1, ![a].id = nnc.requestID + 1]
  /\ UNCHANGED <<conns, cluster, limits>>

writeRequest(a) ==
  /\ act[a].at = "write" /\ UNCHANGED <<lock, cluster, limits>>
  /\ \/ /\ Conn.st = "up" /\ GoTo(a, "read")
        /\ conns' = [conns EXCEPT ![nnc.conn].req = act[a].id]
        /\ UNCHANGED nnc
     \/ Conn.st = "cut" /\ GoTo(a, "read") /\ UNCHANGED <<nnc, conns>>
     \/ Conn.st \in {"cut", "reset", "closed"} /\ markFailure(a, 1, nnc.transport)

\* Mutant: a call whose answer is lost is tried again.
lostAgain(a) ==
  markFailure(a, 1, nnc.transport) /\ UNCHANGED lock

\* The answer cannot be read: the call fails, and the connection is kept.
lost(a) ==
  /\ CallReturns(a, "lost")
  /\ conns' = [conns EXCEPT ![nnc.conn].st = "reset"]
  /\ UNCHANGED nnc

\* What readResponse makes of an answer: in the wrapping that the transport expects, for
\* the request that was sent, done or refused.
outcome(a) ==
  CASE nnc.transport # Qop[Conn.host] -> "unexpected state"
    [] nnc.transport = Qop[Conn.host] /\ Conn.of # act[a].id -> "unexpected number"
    [] OTHER -> Conn.reply

readResponse(a) ==
  /\ act[a].at = "read" /\ UNCHANGED <<cluster, limits>>
  /\ \/ Conn.reply = NoOne /\ Conn.st # "up" /\ lost(a)
     \/ /\ Conn.reply # NoOne
        /\ IF outcome(a) = "standby" THEN markFailure(a, 1, nnc.transport) /\ UNCHANGED lock
           ELSE /\ CallReturns(a, outcome(a))
                /\ conns' = [conns EXCEPT ![nnc.conn].reply = NoOne]
                /\ UNCHANGED nnc

-----------------------------------------------------------------------------
(* Close: done is closed, and conn is closed under the lock and kept.      *)

CloseClient ==
  /\ act["close"].at = "idle" /\ ~nnc.done
  /\ nnc' = [nnc EXCEPT !.done = TRUE]
  /\ GoTo("close", "lock")
  /\ UNCHANGED <<lock, conns, cluster, limits>>

closeConn ==
  /\ act["close"].at = "lock" /\ lock = NoOne
  /\ conns' = IF nnc.conn # 0 THEN DropConn ELSE conns
  /\ GoTo("close", "gone")
  /\ UNCHANGED <<lock, nnc, cluster, limits>>

-----------------------------------------------------------------------------
(* External: namenodes, connections and time.                              *)

answer(c) ==
  /\ conns[c].st = "up" /\ conns[c].req # 0
  /\ LET r == conns[c].req
         active == conns[c].host = cluster.active IN
     /\ conns' = [conns EXCEPT ![c].req = 0, ![c].of = r, ![c].reply = IF active THEN "done" ELSE "standby"]
     /\ cluster' = IF ~active THEN cluster
                   ELSE [cluster EXCEPT !.executed = [i \in DOMAIN @ \cup {r} |->
                                          IF i \in DOMAIN @ THEN @[i] + (IF i = r THEN 1 ELSE 0) ELSE 1]]
  /\ UNCHANGED <<act, lock, nnc, limits>>

cut(c) ==
  /\ conns[c].st = "up" /\ limits.faults < MaxFaults
  /\ \E reply \in {conns[c].reply, NoOne} :
       conns' = [conns EXCEPT ![c].st = "cut", ![c].req = 0, ![c].reply = reply]
  /\ limits' = [limits EXCEPT !.faults = @ + 1]
  /\ UNCHANGED <<act, lock, nnc, cluster>>

failover ==
  /\ limits.faults < MaxFaults
  /\ \E h \in Hosts \ {cluster.active} : cluster' = [cluster EXCEPT !.active = h]
  /\ limits' = [limits EXCEPT !.faults = @ + 1]
  /\ UNCHANGED <<act, lock, nnc, conns>>

expire ==
  /\ limits.expiries < MaxExpiries
  /\ \E h \in nnc.backoff : nnc' = [nnc EXCEPT !.backoff = @ \ {h}]
  /\ limits' = [limits EXCEPT !.expiries = @ + 1]
  /\ UNCHANGED <<act, lock, conns, cluster>>

rpcSteps ==
  \/ closeConn
  \/ \E a \in Actors : start(a) /\ a # "close"
  \/ \E a \in Actors : resolveConnection(a) \/ doNamenodeHandshake(a) \/ writeRequest(a) \/ readResponse(a)
  \/ \E c \in DOMAIN conns : answer(c)

RpcNext ==
  \/ rpcSteps \/ tick \/ leaseDone \/ CloseClient \/ failover \/ expire
  \/ \E u \in Users : Execute(u)
  \/ \E c \in DOMAIN conns : cut(c)

-----------------------------------------------------------------------------
OpenConns == {c \in DOMAIN conns : conns[c].st = "up"}

\* Whatever fails, at most one connection is open, and it is the one in use: markFailure
\* closes before resolveConnection dials.
OneConnection == OpenConns \subseteq {nnc.conn}

\* Execute tries again only when the request has not been executed: no request is executed
\* twice, and one that is reported done has been.
ExecutedOnce ==
  /\ \A i \in DOMAIN cluster.executed : cluster.executed[i] = 1
  /\ \A a \in Users : act[a].result = "done" => act[a].id \in DOMAIN cluster.executed

\* Calls do not take each other's answers, and an answer is read with the transport that
\* the namenode uses, also after a failover to another: namenodes of one cluster ask for
\* the same protection.
OwnAnswers == \A a \in Actors : act[a].result \notin {"unexpected state", "unexpected number"}

\* Calls that must return, Close among them, as long as namenodes answer or their
\* connections break: Execute gives up when every host has failed lately.
RpcPending == \E a \in Actors : act[a].at \notin {"unborn", "failed", "idle", "gone"}
=============================================================================
