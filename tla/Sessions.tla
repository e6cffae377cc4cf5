------------------------------ MODULE Sessions ------------------------------
(***************************************************************************)
(* The registry of served connections: openConnections, activeTransfers,   *)
(* the session limit tested at login, the idle check and the API's         *)
(* disconnect.  All of them run in goroutines of their own and meet under  *)
(* one mutex, so every operation on the registry is one step.              *)
(*                                                                         *)
(* Time is kept as ages: an age is the number of ticks since an event and  *)
(* stops growing once it exceeds the idle timeout.  A connection serves    *)
(* one session per slot, for an SFTP channel or an SCP command, and a      *)
(* session has at most one open transfer.                                  *)
(***************************************************************************)
EXTENDS Integers, FiniteSets

CONSTANTS Conns,        \* SSH connections; each has a session id of its own
          SlotsOf,      \* bound: SlotsOf[c], the sessions that c serves, ever
          Users,
          MaxSessions,  \* MaxSessions[u]: the user's limit, 0 for none
          IdleTimeout,  \* idle_timeout, in ticks
          HdfsUsers     \* the users whose sessions are served by hh.HConnection

ASSUME SessionsAssumption ==
  /\ IsFiniteSet(Conns)
  /\ DOMAIN SlotsOf = Conns /\ \A c \in Conns : IsFiniteSet(SlotsOf[c])
  /\ MaxSessions \in [Users -> Nat]
  /\ IdleTimeout \in Nat
  /\ HdfsUsers \subseteq Users

VARIABLES ssh,          \* ssh[c]: "none", "open" or "closed"
          user,         \* user[c]: who logged in on c
          birth,        \* birth[c]: age of Connection.StartTime
          openConnections,  \* registered connections, with the age of lastActivity
          session,      \* session[c][k]: the goroutine that serves slot k
          activeTransfers,  \* open transfers <<c, k>>, with the age of lastActivity
          sinceRequest, \* history: age of the last request served on c
          sinceIO       \* history: age of the last data moved on c

vars == <<ssh, user, birth, openConnections, session, activeTransfers,
          sinceRequest, sinceIO>>

Never == IdleTimeout + 1
Ages == 0..Never
NoUser == "nobody"
Older(a) == IF a = Never THEN a ELSE a + 1

Init ==
  /\ ssh = [c \in Conns |-> "none"]
  /\ user = [c \in Conns |-> NoUser]
  /\ birth = [c \in Conns |-> Never]
  /\ openConnections = << >>
  /\ session = [c \in Conns |-> [k \in SlotsOf[c] |-> "none"]]
  /\ activeTransfers = << >>
  /\ sinceRequest = [c \in Conns |-> Never]
  /\ sinceIO = [c \in Conns |-> Never]

With(f, x, a) == [y \in DOMAIN f \cup {x} |-> IF y = x THEN a ELSE f[y]]
Without(f, x) == [y \in DOMAIN f \ {x} |-> f[y]]

-----------------------------------------------------------------------------
(* Logging in.  A connection is registered only when it asks for a session.*)

getActiveSessions(u) == Cardinality({c \in DOMAIN openConnections : user[c] = u})

TooManySessions(u) == MaxSessions[u] > 0 /\ getActiveSessions(u) >= MaxSessions[u]

loginUser(c, u) ==
  /\ ssh[c] = "none"
  /\ ~TooManySessions(u)
  /\ ssh' = [ssh EXCEPT ![c] = "open"]
  /\ user' = [user EXCEPT ![c] = u]
  /\ birth' = [birth EXCEPT ![c] = 0]
  /\ UNCHANGED <<openConnections, session, activeTransfers, sinceRequest, sinceIO>>

LoginRefused(c, u) ==
  /\ ssh[c] = "none"
  /\ TooManySessions(u)
  /\ ssh' = [ssh EXCEPT ![c] = "closed"]
  /\ UNCHANGED <<user, birth, openConnections, session, activeTransfers,
                 sinceRequest, sinceIO>>

-----------------------------------------------------------------------------
(* Sessions.  handleSSHRequest starts a goroutine, which registers the     *)
(* connection under the connection's id and unregisters it when it ends.   *)

handleSSHRequest(c, k) ==
  /\ ssh[c] = "open"
  /\ session[c][k] = "none"
  /\ session' = [session EXCEPT ![c][k] = "starting"]
  /\ UNCHANGED <<ssh, user, birth, openConnections, activeTransfers,
                 sinceRequest, sinceIO>>

\* The entry is the copy made at login: its lastActivity is the login's.
addConnection(c) == openConnections' = With(openConnections, c, birth[c])

removeConnection(c) == openConnections' = Without(openConnections, c)

\* hh.HConnection calls ActiveTime instead, which changes a copy.
updateConnectionActivity(c) ==
  openConnections' = IF c \in DOMAIN openConnections /\ user[c] \notin HdfsUsers
                     THEN With(openConnections, c, 0) ELSE openConnections

SessionStart(c, k) ==
  /\ session[c][k] = "starting"
  /\ session' = [session EXCEPT ![c][k] = "serving"]
  /\ addConnection(c)
  /\ UNCHANGED <<ssh, user, birth, activeTransfers, sinceRequest, sinceIO>>

Serving(c, k) == session[c][k] = "serving" /\ ssh[c] = "open"

\* Fileread, Filewrite, Filecmd and Filelist note the request first.
Request(c, k) ==
  /\ Serving(c, k)
  /\ updateConnectionActivity(c)
  /\ sinceRequest' = [sinceRequest EXCEPT ![c] = 0]
  /\ UNCHANGED <<ssh, user, birth, session, activeTransfers, sinceIO>>

\* A request that opens a file.  hh.HTransfer is not entered in activeTransfers.
addTransfer(c, k) ==
  /\ Serving(c, k) /\ user[c] \notin HdfsUsers
  /\ <<c, k>> \notin DOMAIN activeTransfers
  /\ updateConnectionActivity(c)
  /\ activeTransfers' = With(activeTransfers, <<c, k>>, 0)
  /\ sinceRequest' = [sinceRequest EXCEPT ![c] = 0]
  /\ UNCHANGED <<ssh, user, birth, session, sinceIO>>

\* Transfer.ReadAt and WriteAt touch the transfer, not its connection.
TransferIO(c, k) ==
  /\ Serving(c, k)
  /\ <<c, k>> \in DOMAIN activeTransfers
  /\ activeTransfers' = [activeTransfers EXCEPT ![<<c, k>>] = 0]
  /\ sinceIO' = [sinceIO EXCEPT ![c] = 0]
  /\ UNCHANGED <<ssh, user, birth, openConnections, session, sinceRequest>>

removeTransfer(c, k) ==
  /\ Serving(c, k)
  /\ <<c, k>> \in DOMAIN activeTransfers
  /\ activeTransfers' = Without(activeTransfers, <<c, k>>)
  /\ UNCHANGED <<ssh, user, birth, openConnections, session, sinceRequest, sinceIO>>

\* Mutant: handles that the client has left open are waited for.
ServeReturnWaits(c, k) ==
  /\ session[c][k] = "serving"
  /\ <<c, k>> \notin DOMAIN activeTransfers
  /\ session' = [session EXCEPT ![c][k] = "ending"]
  /\ UNCHANGED <<ssh, user, birth, openConnections, activeTransfers, sinceRequest, sinceIO>>

\* The channel ends, by itself or with its connection: the request server closes
\* the handles that are left and returns.
ServeReturn(c, k) ==
  /\ session[c][k] = "serving"
  /\ session' = [session EXCEPT ![c][k] = "ending"]
  /\ activeTransfers' = Without(activeTransfers, <<c, k>>)
  /\ UNCHANGED <<ssh, user, birth, openConnections, sinceRequest, sinceIO>>

SessionEnd(c, k) ==
  /\ session[c][k] = "ending"
  /\ session' = [session EXCEPT ![c][k] = "done"]
  /\ removeConnection(c)
  /\ UNCHANGED <<ssh, user, birth, activeTransfers, sinceRequest, sinceIO>>

-----------------------------------------------------------------------------
(* Closing connections.                                                    *)

\* The client hangs up, or the accept loop ends at a channel it does not know.
Hangup(c) ==
  /\ ssh[c] = "open"
  /\ ssh' = [ssh EXCEPT ![c] = "closed"]
  /\ UNCHANGED <<user, birth, openConnections, session, activeTransfers,
                 sinceRequest, sinceIO>>

\* DELETE on the API's sftp_connection.
CloseActiveConnection(c) ==
  /\ c \in DOMAIN openConnections
  /\ ssh' = [ssh EXCEPT ![c] = "closed"]
  /\ UNCHANGED <<user, birth, openConnections, session, activeTransfers,
                 sinceRequest, sinceIO>>

\* Mutant: the activity of transfers is not looked at.
IsIdleNoTransfers(c) == openConnections[c] > IdleTimeout

\* Mutant: a connection with a transfer is never idle.
IsIdleWithoutTransfers(c) ==
  /\ openConnections[c] > IdleTimeout
  /\ \A k \in SlotsOf[c] : <<c, k>> \notin DOMAIN activeTransfers

\* Idle for longer than the timeout, and so is each of its transfers.
IsIdle(c) ==
  /\ openConnections[c] > IdleTimeout
  /\ \A k \in SlotsOf[c] : <<c, k>> \in DOMAIN activeTransfers
                        => activeTransfers[<<c, k>>] > IdleTimeout

CheckIdleConnections ==
  /\ ssh' = [c \in Conns |-> IF c \in DOMAIN openConnections /\ IsIdle(c)
                             THEN "closed" ELSE ssh[c]]
  /\ UNCHANGED <<user, birth, openConnections, session, activeTransfers,
                 sinceRequest, sinceIO>>

Tick ==
  /\ birth' = [c \in Conns |-> Older(birth[c])]
  /\ openConnections' = [c \in DOMAIN openConnections |-> Older(openConnections[c])]
  /\ activeTransfers' = [t \in DOMAIN activeTransfers |-> Older(activeTransfers[t])]
  /\ sinceRequest' = [c \in Conns |-> Older(sinceRequest[c])]
  /\ sinceIO' = [c \in Conns |-> Older(sinceIO[c])]
  /\ UNCHANGED <<ssh, user, session>>

Next ==
  \/ \E c \in Conns : \/ \E u \in Users : loginUser(c, u) \/ LoginRefused(c, u)
                      \/ Hangup(c) \/ CloseActiveConnection(c)
  \/ \E c \in Conns : \E k \in SlotsOf[c] :
       \/ handleSSHRequest(c, k) \/ SessionStart(c, k) \/ Request(c, k)
       \/ addTransfer(c, k) \/ TransferIO(c, k) \/ removeTransfer(c, k)
       \/ ServeReturn(c, k) \/ SessionEnd(c, k)
  \/ CheckIdleConnections
  \/ Tick

Spec == Init /\ [][Next]_vars

\* What the goroutine of a session does by itself: it starts, Serve returns once the
\* connection is closed, and it ends.
sessionSteps(c, k) ==
  SessionStart(c, k) \/ (ssh[c] = "closed" /\ ServeReturn(c, k)) \/ SessionEnd(c, k)

-----------------------------------------------------------------------------
(* Properties.                                                             *)

Served(c) == \E k \in SlotsOf[c] : session[c][k] \in {"serving", "ending"}

\* The connection c has had one session, not several that share its entry.
OneSession(c) == Cardinality({k \in SlotsOf[c] : session[c][k] # "none"}) <= 1

\* Every variable of the registry has its type, and the lastActivity of an entry
\* is not before the login of its connection.
TypeOK ==
  /\ ssh \in [Conns -> {"none", "open", "closed"}]
  /\ user \in [Conns -> Users \cup {NoUser}]
  /\ birth \in [Conns -> Ages]
  /\ DOMAIN openConnections \subseteq Conns
  /\ \A c \in DOMAIN openConnections : openConnections[c] \in 0..birth[c]
  /\ DOMAIN session = Conns
  /\ \A c \in Conns :
       session[c] \in [SlotsOf[c] -> {"none", "starting", "serving", "ending", "done"}]
  /\ \A t \in DOMAIN activeTransfers :
       t[1] \in Conns /\ t[2] \in SlotsOf[t[1]] /\ activeTransfers[t] \in Ages
  /\ sinceRequest \in [Conns -> Ages]
  /\ sinceIO \in [Conns -> Ages]

\* A login is refused for too many sessions only when that many connections of
\* the user are really being served: entries do not outlive their sessions.
RefusalJustified ==
  [][\A c \in Conns, u \in Users : LoginRefused(c, u) =>
       Cardinality({d \in Conns : user[d] = u /\ Served(d)}) >= MaxSessions[u]]_vars

\* With one session to a connection, a transfer that is running is visible in
\* the registry, to the idle check and to the API's list of connections.
TransferRegistered ==
  \A t \in DOMAIN activeTransfers : OneSession(t[1]) => t[1] \in DOMAIN openConnections

IdleCloses(c) ==
  /\ CheckIdleConnections
  /\ \E k \in SlotsOf[c] : Serving(c, k)
  /\ ssh'[c] = "closed"

\* The idle check closes no connection that made a request within the timeout, if
\* it has one session and its files are local.  (A second session overwrites the
\* entry with the time of the login; requests to HDFS do not refresh it.)
IdleSparesRequests ==
  [][\A c \in Conns : IdleCloses(c) /\ OneSession(c) /\ user[c] \notin HdfsUsers
       => sinceRequest[c] > IdleTimeout]_vars

\* Nor one with a transfer that moved data within the timeout.
IdleSparesTransfers ==
  [][\A c \in Conns :
       /\ IdleCloses(c)
       /\ \E k \in SlotsOf[c] : <<c, k>> \in DOMAIN activeTransfers
       /\ OneSession(c)
       => sinceIO[c] > IdleTimeout]_vars

\* README: max_sessions is the maximum of concurrent sessions.
SessionLimit ==
  \A u \in Users : MaxSessions[u] > 0 =>
    Cardinality({c \in Conns : user[c] = u /\ Served(c)}) <= MaxSessions[u]

\* A client that is served is again and again active, or is disconnected, unless
\* several sessions share its entry: the end of one hides the others.
IdleClientDisconnected ==
  \A c \in Conns :
    []<>(\/ ssh[c] # "open" \/ ~Served(c) \/ ~OneSession(c)
         \/ sinceRequest[c] = 0 \/ sinceIO[c] = 0)

\* A connection that is closed leaves the registry, with its transfers, for good.
ClosedIsForgotten ==
  \A c \in Conns : ssh[c] = "closed" ~>
    [](c \notin DOMAIN openConnections /\ \A t \in DOMAIN activeTransfers : t[1] # c)

\* What the server refuses or ends on the word of the registry is rightly refused or ended:
\* a login for too many sessions, a connection for being idle.
RegistryJustified == RefusalJustified /\ IdleSparesRequests /\ IdleSparesTransfers
=============================================================================
