---------------------------- MODULE SessionsProofs ----------------------------
(***************************************************************************)
(* The registry tells the truth, for any number of connections, sessions   *)
(* and users and any timeout: a login is refused for too many sessions,    *)
(* and a connection closed for being idle, only when that is so.           *)
(*                                                                         *)
(* None of it is inductive by itself.  A refusal is justified because an   *)
(* entry never outlives the sessions of its connection.  The idle check is *)
(* justified because the age of an entry, or of a transfer, is never above *)
(* the true age of the last request, or of the last data; and this holds   *)
(* when a session registers with the time of its login because a           *)
(* connection without a served session has not made a request.             *)
(***************************************************************************)
EXTENDS Sessions, FiniteSetTheorems, TLAPS

\* OneSession, without counting.
Single(c) ==
  \A k, l \in SlotsOf[c] : session[c][k] # "none" /\ session[c][l] # "none" => k = l

EntriesServed == \A c \in DOMAIN openConnections : Served(c)

LoggedIn == \A c \in Conns : \A k \in SlotsOf[c] : session[c][k] # "none" => ssh[c] # "none"

Unserved ==
  \A c \in Conns :
    (\A k \in SlotsOf[c] : session[c][k] \in {"none", "starting"})
    => sinceRequest[c] = Never /\ sinceIO[c] = Never

TransfersServed ==
  \A c \in Conns : \A k \in SlotsOf[c] :
    <<c, k>> \in DOMAIN activeTransfers => session[c][k] = "serving"

RequestsNoted ==
  \A c \in DOMAIN openConnections :
    Single(c) /\ user[c] \notin HdfsUsers => openConnections[c] <= sinceRequest[c]

DataNoted ==
  \A c \in Conns : \A k \in SlotsOf[c] :
    <<c, k>> \in DOMAIN activeTransfers /\ Single(c)
    => activeTransfers[<<c, k>>] <= sinceIO[c]

RegistryInv ==
  /\ TypeOK /\ EntriesServed /\ LoggedIn /\ Unserved /\ TransfersServed
  /\ RequestsNoted /\ DataNoted

-----------------------------------------------------------------------------
States == {"none", "starting", "serving", "ending", "done"}

\* A set of at most one element has no two.
LEMMA AtMostOne ==
  ASSUME NEW S, IsFiniteSet(S), Cardinality(S) <= 1, NEW x \in S, NEW y \in S
  PROVE  x = y
  <1> SUFFICES ASSUME x # y PROVE FALSE
    OBVIOUS
  <1>1. IsFiniteSet({x, y}) /\ Cardinality({x, y}) = 2
    <2>1. Cardinality({x}) = 1 /\ IsFiniteSet({x})
      BY FS_Singleton
    <2>2. IsFiniteSet({x} \cup {y}) /\ Cardinality({x} \cup {y}) = 1 + 1
      BY <2>1, FS_AddElement
    <2>3. {x} \cup {y} = {x, y}
      OBVIOUS
    <2> QED
      BY <2>2, <2>3
  <1>2. Cardinality({x, y}) <= Cardinality(S)
    BY FS_Subset
  <1> QED
    BY <1>1, <1>2, FS_CardinalityType

\* A connection that has had one session has no second one.
LEMMA OneSessionIsSingle ==
  ASSUME NEW c \in Conns, OneSession(c)
  PROVE  Single(c)
  <1>1. IsFiniteSet({k \in SlotsOf[c] : session[c][k] # "none"})
    BY SessionsAssumption, FS_Subset
  <1> QED
    BY <1>1, AtMostOne DEF OneSession, Single

\* What one step of a session's goroutine does to session.
LEMMA SessionStep ==
  ASSUME TypeOK, NEW c \in Conns, NEW k \in SlotsOf[c], NEW v \in States,
         session' = [session EXCEPT ![c][k] = v]
  PROVE  /\ DOMAIN session' = Conns
         /\ \A d \in Conns : session'[d] \in [SlotsOf[d] -> States]
         /\ \A d \in Conns : \A l \in SlotsOf[d] :
              session'[d][l] = IF d = c /\ l = k THEN v ELSE session[d][l]
  BY DEF TypeOK, States

\* Ages grow in step and stop at Never.
LEMMA OlderMonotone ==
  ASSUME NEW a \in Ages, NEW b \in Ages
  PROVE  /\ Older(a) \in Ages
         /\ a <= b => Older(a) <= Older(b)
         /\ b = Never => Older(b) = Never
  BY SessionsAssumption DEF Ages, Older, Never

\* The registry starts empty.
LEMMA RegistryInvInit == Init => RegistryInv
  <1> SUFFICES ASSUME Init PROVE RegistryInv
    OBVIOUS
  <1>1. DOMAIN openConnections = {} /\ DOMAIN activeTransfers = {}
    BY DEF Init
  <1> QED
    BY <1>1, SessionsAssumption
    DEF Init, RegistryInv, TypeOK, EntriesServed, LoggedIn, Unserved, TransfersServed,
        RequestsNoted, DataNoted, Ages, Never

\* A login comes before any session of its connection, so it touches no entry.
LEMMA RegistryInvLogin ==
  ASSUME RegistryInv, NEW c \in Conns, NEW u \in Users, loginUser(c, u)
  PROVE  RegistryInv'
  <1>1. /\ UNCHANGED <<openConnections, session, activeTransfers, sinceRequest, sinceIO>>
        /\ \A d \in Conns : d # c => ssh'[d] = ssh[d] /\ user'[d] = user[d] /\ birth'[d] = birth[d]
        /\ ssh'[c] = "open" /\ user'[c] = u /\ birth'[c] = 0
        /\ DOMAIN ssh' = Conns /\ DOMAIN user' = Conns /\ DOMAIN birth' = Conns
    BY DEF loginUser, RegistryInv, TypeOK
  <1>2. c \notin DOMAIN openConnections
    BY DEF RegistryInv, EntriesServed, LoggedIn, Served, loginUser
  <1>3. TypeOK'
    BY <1>1, <1>2, SessionsAssumption DEF loginUser, RegistryInv, TypeOK, Ages, Never
  <1>4. EntriesServed' /\ LoggedIn' /\ Unserved' /\ TransfersServed'
    BY <1>1 DEF RegistryInv, EntriesServed, LoggedIn, Unserved, TransfersServed, Served
  <1>5. RequestsNoted' /\ DataNoted'
    BY <1>1, <1>2 DEF RegistryInv, RequestsNoted, DataNoted, Single, TypeOK
  <1> QED
    BY <1>3, <1>4, <1>5 DEF RegistryInv

\* Refusing, hanging up, disconnecting and the idle check change only ssh.
LEMMA RegistryInvClose ==
  ASSUME RegistryInv, NEW c \in Conns,
         \/ \E u \in Users : LoginRefused(c, u)
         \/ Hangup(c) \/ CloseActiveConnection(c) \/ CheckIdleConnections
  PROVE  RegistryInv'
  <1>1. /\ UNCHANGED <<user, birth, openConnections, session, activeTransfers, sinceRequest, sinceIO>>
        /\ ssh' \in [Conns -> {"none", "open", "closed"}]
        /\ \A d \in Conns : ssh[d] # "none" => ssh'[d] # "none"
    BY DEF LoginRefused, Hangup, CloseActiveConnection, CheckIdleConnections, RegistryInv, TypeOK
  <1> QED
    BY <1>1 DEF RegistryInv, TypeOK, EntriesServed, LoggedIn, Unserved, TransfersServed, Served,
                RequestsNoted, DataNoted, Single

\* A session that is asked for has not made a request.
LEMMA RegistryInvAsk ==
  ASSUME RegistryInv, NEW c \in Conns, NEW k \in SlotsOf[c], handleSSHRequest(c, k)
  PROVE  RegistryInv'
  <1>1. /\ UNCHANGED <<ssh, user, birth, openConnections, activeTransfers, sinceRequest, sinceIO>>
        /\ ssh[c] = "open" /\ session[c][k] = "none"
    BY DEF handleSSHRequest
  <1>2. /\ DOMAIN session' = Conns
        /\ \A d \in Conns : session'[d] \in [SlotsOf[d] -> States]
        /\ \A d \in Conns : \A l \in SlotsOf[d] :
             session'[d][l] = IF d = c /\ l = k THEN "starting" ELSE session[d][l]
    <2>1. TypeOK /\ session' = [session EXCEPT ![c][k] = "starting"] /\ "starting" \in States
      BY DEF handleSSHRequest, RegistryInv, States
    <2> QED
      BY <2>1, SessionStep
  <1>3. TypeOK'
    BY <1>1, <1>2 DEF RegistryInv, TypeOK, States
  <1>4. EntriesServed' /\ LoggedIn' /\ Unserved' /\ TransfersServed'
    <2>1. EntriesServed'
      BY <1>1, <1>2 DEF RegistryInv, TypeOK, EntriesServed, Served
    <2>2. LoggedIn'
      BY <1>1, <1>2 DEF RegistryInv, LoggedIn
    <2>3. Unserved'
      BY <1>1, <1>2 DEF RegistryInv, Unserved
    <2>4. TransfersServed'
      BY <1>1, <1>2 DEF RegistryInv, TransfersServed
    <2> QED
      BY <2>1, <2>2, <2>3, <2>4
  <1>5. \A d \in Conns : Single(d)' => Single(d)
    BY <1>1, <1>2 DEF Single
  <1>6. RequestsNoted' /\ DataNoted'
    BY <1>1, <1>5 DEF RegistryInv, RequestsNoted, DataNoted, TypeOK
  <1> QED
    BY <1>3, <1>4, <1>6 DEF RegistryInv

\* A session registers with the age of the login: if it is the connection's only one, no
\* request has been made since.
LEMMA RegistryInvStart ==
  ASSUME RegistryInv, NEW c \in Conns, NEW k \in SlotsOf[c], SessionStart(c, k)
  PROVE  RegistryInv'
  <1>1. /\ UNCHANGED <<ssh, user, birth, activeTransfers, sinceRequest, sinceIO>>
        /\ session[c][k] = "starting"
    BY DEF SessionStart
  <1>2. /\ DOMAIN session' = Conns
        /\ \A d \in Conns : session'[d] \in [SlotsOf[d] -> States]
        /\ \A d \in Conns : \A l \in SlotsOf[d] :
             session'[d][l] = IF d = c /\ l = k THEN "serving" ELSE session[d][l]
    <2>1. TypeOK /\ session' = [session EXCEPT ![c][k] = "serving"] /\ "serving" \in States
      BY DEF SessionStart, RegistryInv, States
    <2> QED
      BY <2>1, SessionStep
  <1>3. /\ DOMAIN openConnections' = DOMAIN openConnections \cup {c}
        /\ openConnections'[c] = birth[c]
        /\ \A d \in DOMAIN openConnections : d # c => openConnections'[d] = openConnections[d]
    BY DEF SessionStart, addConnection, With
  <1>4. TypeOK'
    BY <1>1, <1>2, <1>3, SessionsAssumption DEF RegistryInv, TypeOK, States, Ages, Never
  <1>5. EntriesServed' /\ LoggedIn' /\ Unserved' /\ TransfersServed'
    <2>1. EntriesServed'
      BY <1>1, <1>2, <1>3 DEF RegistryInv, TypeOK, EntriesServed, Served
    <2>2. LoggedIn'
      BY <1>1, <1>2 DEF RegistryInv, LoggedIn
    <2>3. Unserved'
      BY <1>1, <1>2 DEF RegistryInv, Unserved
    <2>4. TransfersServed'
      BY <1>1, <1>2 DEF RegistryInv, TransfersServed
    <2> QED
      BY <2>1, <2>2, <2>3, <2>4
  <1>6. \A d \in Conns : Single(d)' => Single(d)
    BY <1>1, <1>2 DEF Single
  <1>7. Single(c)' => sinceRequest[c] = Never
    <2> SUFFICES ASSUME Single(c)' PROVE sinceRequest[c] = Never
      OBVIOUS
    <2>1. \A l \in SlotsOf[c] : l # k => session[c][l] = "none"
      BY <1>1, <1>2, <1>6 DEF Single
    <2> QED
      BY <1>1, <2>1 DEF RegistryInv, Unserved
  <1>8. RequestsNoted'
    <2> SUFFICES ASSUME NEW d \in DOMAIN openConnections', Single(d)', user'[d] \notin HdfsUsers
                 PROVE  openConnections'[d] <= sinceRequest'[d]
      BY DEF RequestsNoted
    <2>1. d \in Conns
      BY <1>3 DEF RegistryInv, TypeOK
    <2>2. CASE d = c
      BY <1>1, <1>3, <1>7, <2>2, SessionsAssumption DEF RegistryInv, TypeOK, Ages, Never
    <2>3. CASE d # c
      BY <1>1, <1>3, <1>6, <2>1, <2>3 DEF RegistryInv, RequestsNoted
    <2> QED
      BY <2>2, <2>3
  <1>9. DataNoted'
    BY <1>1, <1>6 DEF RegistryInv, DataNoted
  <1> QED
    BY <1>4, <1>5, <1>8, <1>9 DEF RegistryInv

\* What a request does to the entry of its connection.
LEMMA ActivityNoted ==
  ASSUME TypeOK, NEW c \in Conns, updateConnectionActivity(c)
  PROVE  /\ DOMAIN openConnections' = DOMAIN openConnections
         /\ \A d \in DOMAIN openConnections :
              openConnections'[d] = IF d = c /\ user[c] \notin HdfsUsers THEN 0 ELSE openConnections[d]
  <1>1. CASE c \in DOMAIN openConnections /\ user[c] \notin HdfsUsers
    BY <1>1 DEF updateConnectionActivity, With
  <1>2. CASE ~(c \in DOMAIN openConnections /\ user[c] \notin HdfsUsers)
    BY <1>2 DEF updateConnectionActivity
  <1> QED
    BY <1>1, <1>2

\* A request is made by a session that is served, and makes the entry young.
LEMMA RegistryInvRequest ==
  ASSUME RegistryInv, NEW c \in Conns, NEW k \in SlotsOf[c],
         Serving(c, k), updateConnectionActivity(c),
         sinceRequest' = [sinceRequest EXCEPT ![c] = 0],
         UNCHANGED <<ssh, user, birth, session, sinceIO>>,
         \/ UNCHANGED activeTransfers
         \/ activeTransfers' = With(activeTransfers, <<c, k>>, 0)
  PROVE  RegistryInv'
  <1>1. /\ DOMAIN openConnections' = DOMAIN openConnections
        /\ \A d \in DOMAIN openConnections :
             openConnections'[d] = IF d = c /\ user[c] \notin HdfsUsers THEN 0 ELSE openConnections[d]
    BY ActivityNoted DEF RegistryInv
  <1>2. /\ DOMAIN sinceRequest' = Conns
        /\ \A d \in Conns : sinceRequest'[d] = IF d = c THEN 0 ELSE sinceRequest[d]
    BY DEF RegistryInv, TypeOK
  <1>3. /\ DOMAIN activeTransfers' \subseteq DOMAIN activeTransfers \cup {<<c, k>>}
        /\ \A t \in DOMAIN activeTransfers' :
             \/ t \in DOMAIN activeTransfers /\ activeTransfers'[t] = activeTransfers[t]
             \/ t = <<c, k>> /\ activeTransfers'[t] = 0
    BY DEF With
  <1>4. TypeOK'
    BY <1>1, <1>2, <1>3, SessionsAssumption DEF RegistryInv, TypeOK, Ages, Never
  <1>5. EntriesServed' /\ LoggedIn' /\ Unserved' /\ TransfersServed'
    BY <1>1, <1>2, <1>3 DEF RegistryInv, TypeOK, EntriesServed, LoggedIn, Unserved, TransfersServed, Served, Serving
  <1>6. RequestsNoted'
    BY <1>1, <1>2 DEF RegistryInv, TypeOK, RequestsNoted, Single
  <1>7. DataNoted'
    BY <1>3, SessionsAssumption DEF RegistryInv, TypeOK, DataNoted, Single, Ages, Never
  <1> QED
    BY <1>4, <1>5, <1>6, <1>7 DEF RegistryInv

\* Data that is moved makes its transfer young; another transfer of the connection is that of
\* another session.
LEMMA RegistryInvIO ==
  ASSUME RegistryInv, NEW c \in Conns, NEW k \in SlotsOf[c], TransferIO(c, k)
  PROVE  RegistryInv'
  <1>1. /\ UNCHANGED <<ssh, user, birth, openConnections, session, sinceRequest>>
        /\ DOMAIN activeTransfers' = DOMAIN activeTransfers
        /\ activeTransfers'[<<c, k>>] = 0
        /\ \A t \in DOMAIN activeTransfers : t # <<c, k>> => activeTransfers'[t] = activeTransfers[t]
        /\ DOMAIN sinceIO' = Conns
        /\ \A d \in Conns : sinceIO'[d] = IF d = c THEN 0 ELSE sinceIO[d]
        /\ session[c][k] = "serving"
    BY DEF TransferIO, Serving, RegistryInv, TypeOK
  <1>2. TypeOK'
    <2>1. 0 \in Ages
      BY SessionsAssumption DEF Ages, Never
    <2>2. sinceIO' \in [Conns -> Ages]
      BY <2>1 DEF TransferIO, RegistryInv, TypeOK
    <2>3. \A t \in DOMAIN activeTransfers' :
            t[1] \in Conns /\ t[2] \in SlotsOf[t[1]] /\ activeTransfers'[t] \in Ages
      BY <1>1, <2>1 DEF RegistryInv, TypeOK
    <2> QED
      BY <1>1, <2>2, <2>3 DEF RegistryInv, TypeOK
  <1>3. EntriesServed' /\ LoggedIn' /\ Unserved' /\ TransfersServed' /\ RequestsNoted'
    BY <1>1 DEF RegistryInv, EntriesServed, LoggedIn, Unserved, TransfersServed, RequestsNoted, Served, Single
  <1>4. DataNoted'
    <2> SUFFICES ASSUME NEW d \in Conns, NEW l \in SlotsOf[d], <<d, l>> \in DOMAIN activeTransfers,
                        Single(d)
                 PROVE  activeTransfers'[<<d, l>>] <= sinceIO'[d]
      BY <1>1 DEF DataNoted, Single
    <2>1. CASE d = c
      <3>1. l = k
        BY <1>1, <2>1 DEF RegistryInv, TransfersServed, Single
      <3> QED
        BY <1>1, <2>1, <3>1
    <2>2. CASE d # c
      BY <1>1, <2>2 DEF RegistryInv, DataNoted
    <2> QED
      BY <2>1, <2>2
  <1> QED
    BY <1>2, <1>3, <1>4 DEF RegistryInv

\* A transfer that is closed leaves the rest alone, also when Serve closes it at the end.
LEMMA RegistryInvReturn ==
  ASSUME RegistryInv, NEW c \in Conns, NEW k \in SlotsOf[c],
         removeTransfer(c, k) \/ ServeReturn(c, k)
  PROVE  RegistryInv'
  <1>1. /\ UNCHANGED <<ssh, user, birth, openConnections, sinceRequest, sinceIO>>
        /\ DOMAIN activeTransfers' = DOMAIN activeTransfers \ {<<c, k>>}
        /\ \A t \in DOMAIN activeTransfers' : activeTransfers'[t] = activeTransfers[t]
        /\ session[c][k] = "serving"
    BY DEF removeTransfer, ServeReturn, Without, Serving
  <1>2. /\ DOMAIN session' = Conns
        /\ \A d \in Conns : session'[d] \in [SlotsOf[d] -> States]
        /\ \A d \in Conns : \A l \in SlotsOf[d] :
             \/ session'[d][l] = session[d][l]
             \/ d = c /\ l = k /\ session'[d][l] = "ending"
    <2>1. CASE removeTransfer(c, k)
      BY <2>1 DEF removeTransfer, RegistryInv, TypeOK, States
    <2>2. CASE ServeReturn(c, k)
      <3>1. TypeOK /\ session' = [session EXCEPT ![c][k] = "ending"] /\ "ending" \in States
        BY <2>2 DEF ServeReturn, RegistryInv, States
      <3> QED
        BY <3>1, SessionStep
    <2> QED
      BY <2>1, <2>2
  <1>3. TypeOK'
    BY <1>1, <1>2 DEF RegistryInv, TypeOK, States
  <1>4. EntriesServed'
    BY <1>1, <1>2 DEF RegistryInv, TypeOK, EntriesServed, Served
  <1>5. LoggedIn'
    BY <1>1, <1>2 DEF RegistryInv, LoggedIn
  <1>6. Unserved'
    BY <1>1, <1>2 DEF RegistryInv, Unserved
  <1>7. TransfersServed'
    BY <1>1, <1>2 DEF RegistryInv, TransfersServed
  <1>8. \A d \in Conns : Single(d)' => Single(d)
    BY <1>1, <1>2 DEF Single
  <1>9. RequestsNoted' /\ DataNoted'
    BY <1>1, <1>8 DEF RegistryInv, RequestsNoted, DataNoted, TypeOK
  <1> QED
    BY <1>3, <1>4, <1>5, <1>6, <1>7, <1>9 DEF RegistryInv

\* A session that ends takes the entry with it.
LEMMA RegistryInvEnd ==
  ASSUME RegistryInv, NEW c \in Conns, NEW k \in SlotsOf[c], SessionEnd(c, k)
  PROVE  RegistryInv'
  <1>1. /\ UNCHANGED <<ssh, user, birth, activeTransfers, sinceRequest, sinceIO>>
        /\ DOMAIN openConnections' = DOMAIN openConnections \ {c}
        /\ \A d \in DOMAIN openConnections' : openConnections'[d] = openConnections[d]
        /\ session[c][k] = "ending"
    BY DEF SessionEnd, removeConnection, Without
  <1>2. /\ DOMAIN session' = Conns
        /\ \A d \in Conns : session'[d] \in [SlotsOf[d] -> States]
        /\ \A d \in Conns : \A l \in SlotsOf[d] :
             session'[d][l] = IF d = c /\ l = k THEN "done" ELSE session[d][l]
    <2>1. TypeOK /\ session' = [session EXCEPT ![c][k] = "done"] /\ "done" \in States
      BY DEF SessionEnd, RegistryInv, States
    <2> QED
      BY <2>1, SessionStep
  <1>3. TypeOK'
    BY <1>1, <1>2 DEF RegistryInv, TypeOK, States
  <1>4. EntriesServed'
    BY <1>1, <1>2 DEF RegistryInv, TypeOK, EntriesServed, Served
  <1>5. LoggedIn'
    BY <1>1, <1>2 DEF RegistryInv, LoggedIn
  <1>6. Unserved'
    BY <1>1, <1>2 DEF RegistryInv, Unserved
  <1>7. TransfersServed'
    BY <1>1, <1>2 DEF RegistryInv, TransfersServed
  <1>8. \A d \in Conns : Single(d)' => Single(d)
    BY <1>1, <1>2 DEF Single
  <1>9. RequestsNoted' /\ DataNoted'
    BY <1>1, <1>8 DEF RegistryInv, RequestsNoted, DataNoted, TypeOK
  <1> QED
    BY <1>3, <1>4, <1>5, <1>6, <1>7, <1>9 DEF RegistryInv

\* All ages grow together.
LEMMA RegistryInvTick == RegistryInv /\ Tick => RegistryInv'
  <1> SUFFICES ASSUME RegistryInv, Tick PROVE RegistryInv'
    OBVIOUS
  <1>1. /\ UNCHANGED <<ssh, user, session>>
        /\ birth' = [c \in Conns |-> Older(birth[c])]
        /\ DOMAIN openConnections' = DOMAIN openConnections
        /\ \A c \in DOMAIN openConnections : openConnections'[c] = Older(openConnections[c])
        /\ DOMAIN activeTransfers' = DOMAIN activeTransfers
        /\ \A t \in DOMAIN activeTransfers : activeTransfers'[t] = Older(activeTransfers[t])
        /\ sinceRequest' = [c \in Conns |-> Older(sinceRequest[c])]
        /\ sinceIO' = [c \in Conns |-> Older(sinceIO[c])]
    BY DEF Tick
  <1>2. /\ \A c \in Conns : birth[c] \in Ages /\ sinceRequest[c] \in Ages /\ sinceIO[c] \in Ages
        /\ \A c \in DOMAIN openConnections :
             openConnections[c] \in Ages /\ openConnections[c] <= birth[c] /\ c \in Conns
        /\ \A t \in DOMAIN activeTransfers : activeTransfers[t] \in Ages
    BY SessionsAssumption DEF RegistryInv, TypeOK, Ages, Never
  <1>3. \A c \in DOMAIN openConnections : openConnections'[c] \in 0..birth'[c]
    <2> SUFFICES ASSUME NEW c \in DOMAIN openConnections PROVE openConnections'[c] \in 0..birth'[c]
      OBVIOUS
    <2>1. Older(openConnections[c]) \in Ages /\ Older(birth[c]) \in Ages
          /\ Older(openConnections[c]) <= Older(birth[c])
      BY <1>2, OlderMonotone
    <2>2. openConnections'[c] = Older(openConnections[c]) /\ birth'[c] = Older(birth[c])
      BY <1>1, <1>2
    <2> QED
      BY <2>1, <2>2, SessionsAssumption DEF Ages, Never
  <1>4. /\ birth' \in [Conns -> Ages] /\ sinceRequest' \in [Conns -> Ages] /\ sinceIO' \in [Conns -> Ages]
        /\ \A t \in DOMAIN activeTransfers : activeTransfers'[t] \in Ages
    BY <1>1, <1>2, OlderMonotone
  <1>5. TypeOK'
    BY <1>1, <1>3, <1>4 DEF RegistryInv, TypeOK
  <1>6. EntriesServed' /\ LoggedIn' /\ TransfersServed'
    BY <1>1 DEF RegistryInv, EntriesServed, LoggedIn, TransfersServed, Served
  <1>7. Unserved'
    BY <1>1, <1>2, OlderMonotone DEF RegistryInv, Unserved
  <1>8. RequestsNoted'
    BY <1>1, <1>2, OlderMonotone DEF RegistryInv, RequestsNoted, Single
  <1>9. DataNoted'
    BY <1>1, <1>2, OlderMonotone DEF RegistryInv, DataNoted, Single
  <1> QED
    BY <1>5, <1>6, <1>7, <1>8, <1>9 DEF RegistryInv

\* Every operation on the registry keeps the invariant.
LEMMA RegistryInvNext == RegistryInv /\ [Next]_vars => RegistryInv'
  <1> SUFFICES ASSUME RegistryInv, [Next]_vars PROVE RegistryInv'
    OBVIOUS
  <1>1. CASE UNCHANGED vars
    BY <1>1 DEF vars, RegistryInv, TypeOK, EntriesServed, LoggedIn, Unserved, TransfersServed,
                Served, RequestsNoted, DataNoted, Single
  <1>2. ASSUME NEW c \in Conns, NEW k \in SlotsOf[c], Request(c, k) \/ addTransfer(c, k)
        PROVE  RegistryInv'
    BY <1>2, RegistryInvRequest DEF Request, addTransfer
  <1>3. CASE CheckIdleConnections
    <2>1. CASE Conns = {}
      BY <1>3, <2>1, SessionsAssumption
      DEF CheckIdleConnections, RegistryInv, TypeOK, EntriesServed, LoggedIn, Unserved,
          TransfersServed, Served, RequestsNoted, DataNoted, Single
    <2>2. CASE Conns # {}
      BY <1>3, <2>2, RegistryInvClose
    <2> QED
      BY <2>1, <2>2
  <1> QED
    BY <1>1, <1>2, <1>3, RegistryInvLogin, RegistryInvClose, RegistryInvAsk, RegistryInvStart,
       RegistryInvIO, RegistryInvReturn, RegistryInvEnd, RegistryInvTick DEF Next

\* A refusal counts entries, and an entry belongs to a connection that is served.
LEMMA RefusalIsJustified ==
  ASSUME RegistryInv, NEW c \in Conns, NEW u \in Users, LoginRefused(c, u)
  PROVE  Cardinality({d \in Conns : user[d] = u /\ Served(d)}) >= MaxSessions[u]
  <1> DEFINE Entries == {d \in DOMAIN openConnections : user[d] = u}
             Real    == {d \in Conns : user[d] = u /\ Served(d)}
  <1>1. Entries \subseteq Real /\ Real \subseteq Conns
    BY DEF RegistryInv, TypeOK, EntriesServed
  <1>2. IsFiniteSet(Real) /\ IsFiniteSet(Entries)
    BY <1>1, SessionsAssumption, FS_Subset
  <1>3. Cardinality(Entries) <= Cardinality(Real)
    BY <1>1, <1>2, FS_Subset
  <1>4. Cardinality(Entries) \in Nat /\ Cardinality(Real) \in Nat
    BY <1>2, FS_CardinalityType
  <1>5. Cardinality(Entries) >= MaxSessions[u]
    BY DEF LoginRefused, TooManySessions, getActiveSessions
  <1>6. MaxSessions[u] \in Nat
    BY SessionsAssumption
  <1> QED
    BY <1>3, <1>4, <1>5, <1>6

\* A connection that the idle check closes has an entry that is too old.
LEMMA ClosedIsIdle ==
  ASSUME RegistryInv, NEW c \in Conns, IdleCloses(c)
  PROVE  c \in DOMAIN openConnections /\ IsIdle(c)
  <1>1. ssh[c] = "open" /\ ssh'[c] = "closed"
    BY DEF IdleCloses, Serving
  <1>2. ssh'[c] = IF c \in DOMAIN openConnections /\ IsIdle(c) THEN "closed" ELSE ssh[c]
    BY DEF IdleCloses, CheckIdleConnections
  <1> QED
    BY <1>1, <1>2

\* Ages are compared as numbers.
LEMMA RequestIsOld ==
  ASSUME RegistryInv, NEW c \in Conns, IdleCloses(c), OneSession(c), user[c] \notin HdfsUsers
  PROVE  sinceRequest[c] > IdleTimeout
  <1>1. c \in DOMAIN openConnections /\ openConnections[c] > IdleTimeout
    BY ClosedIsIdle DEF IsIdle
  <1>2. openConnections[c] <= sinceRequest[c]
    BY <1>1, OneSessionIsSingle DEF RegistryInv, RequestsNoted
  <1>3. openConnections[c] \in Int /\ sinceRequest[c] \in Int /\ IdleTimeout \in Int
    BY <1>1, SessionsAssumption DEF RegistryInv, TypeOK, Ages, Never
  <1> QED
    BY <1>1, <1>2, <1>3

\* The same for the data of a transfer.
LEMMA DataIsOld ==
  ASSUME RegistryInv, NEW c \in Conns, IdleCloses(c), OneSession(c),
         NEW k \in SlotsOf[c], <<c, k>> \in DOMAIN activeTransfers
  PROVE  sinceIO[c] > IdleTimeout
  <1>1. activeTransfers[<<c, k>>] > IdleTimeout
    BY ClosedIsIdle DEF IsIdle
  <1>2. activeTransfers[<<c, k>>] <= sinceIO[c]
    BY OneSessionIsSingle DEF RegistryInv, DataNoted
  <1>3. activeTransfers[<<c, k>>] \in Int /\ sinceIO[c] \in Int /\ IdleTimeout \in Int
    BY SessionsAssumption DEF RegistryInv, TypeOK, Ages, Never
  <1> QED
    BY <1>1, <1>2, <1>3

-----------------------------------------------------------------------------
\* The types hold, no entry outlives the sessions of its connection, and ages are not
\* above the truth, in every state that the operations of the registry reach.
THEOREM RegistryInvariant == Spec => []RegistryInv
  <1> QED
    BY RegistryInvInit, RegistryInvNext, PTL DEF Spec

\* loginUser refuses for too many sessions only when so many connections of the user are
\* served; CheckIdleConnections closes only connections without a request and without data
\* for longer than the timeout.  For any connections, sessions, users, limits and timeout.
THEOREM RegistryIsJustified == Spec => RegistryJustified
  <1> DEFINE Refusal ==
               \A c \in Conns, u \in Users : LoginRefused(c, u) =>
                 Cardinality({d \in Conns : user[d] = u /\ Served(d)}) >= MaxSessions[u]
             Requests ==
               \A c \in Conns : IdleCloses(c) /\ OneSession(c) /\ user[c] \notin HdfsUsers
                 => sinceRequest[c] > IdleTimeout
             Data ==
               \A c \in Conns :
                 /\ IdleCloses(c)
                 /\ \E k \in SlotsOf[c] : <<c, k>> \in DOMAIN activeTransfers
                 /\ OneSession(c)
                 => sinceIO[c] > IdleTimeout
  <1>1. RegistryInv => Refusal
    BY RefusalIsJustified
  <1>2. RegistryInv => Requests
    BY RequestIsOld
  <1>3. RegistryInv => Data
    BY DataIsOld
  <1> HIDE DEF Refusal, Requests, Data
  <1>4. Spec => [][Refusal]_vars /\ [][Requests]_vars /\ [][Data]_vars
    BY <1>1, <1>2, <1>3, RegistryInvariant, PTL
  <1> QED
    BY <1>4 DEF RegistryJustified, RefusalJustified, IdleSparesRequests, IdleSparesTransfers,
                Refusal, Requests, Data
=============================================================================
