---------------------------- MODULE MCConnection ----------------------------
(***************************************************************************)
(* What the server does with its connections, one part in each behaviour:  *)
(* the registry of connections and sessions, an scp command, forwarded     *)
(* ports, and a shell or a command on a terminal.                          *)
(***************************************************************************)
EXTENDS Sessions, Scp, PortForward, Shell

CONSTANTS c1, c2

VARIABLE part

serviceVars == <<scpVars, forwardVars, shellVars>>
connectionVars == <<part, vars, serviceVars>>

-----------------------------------------------------------------------------
\* One connection may have two sessions, the others have one; one user is limited to one
\* session, another one works on HDFS without a limit.
MCMaxSessions == [u \in Users |-> IF u = "limited" THEN 1 ELSE 0]
MCSlotsOf == [c \in Conns |-> IF c = c1 THEN {1, 2} ELSE {1}]

MCBindAddrs == {<<"h", 0>>, <<"h", 1>>}

MCHomeTree ==
  (<< >> :> Dir) @@ (<<"r">> :> Dir) @@ (<<"r", "f">> :> 1)
  @@ (<<"r", "s">> :> Dir) @@ (<<"r", "s", "h">> :> 2) @@ (<<"r", "s", "z">> :> 0)

AllPerms == {"upload", "download", "create_dirs"}
SendTimes == <<Msg("T", "", 0), Await>>
SendDir(name) == <<Msg("D", name, 0), Await>>
SendEnd == <<Msg("E", "", 0), Await>>
SendTree ==
  SendDir("d") \o SendFile("a", 1) \o SendDir("e") \o SendFile("b", 2) \o SendEnd \o SendFile("c", 1) \o SendEnd

MCJobs ==
  {UploadJob(d, slash, FALSE, p, script) :
     d \in {<<"r">>, <<"new">>, <<"r", "f">>}, slash \in BOOLEAN, p \in {AllPerms, {}},
     script \in {SendFile("a", 2), SendTimes \o SendFile("a", 0)}}
  \cup {UploadJob(<<"r">>, FALSE, TRUE, p, SendTree) : p \in {AllPerms, {"upload"}}}
  \cup {UploadJob(<<"r">>, FALSE, TRUE, AllPerms, script) :
          script \in {SendDir("s"), <<Msg("bad", "", 0), Await>>}}
  \cup {DownloadJob(d, r, t, p) :
          d \in {<<"r">>, <<"r", "s">>, <<"r", "f">>, <<"no">>}, r \in BOOLEAN, t \in BOOLEAN,
          p \in {AllPerms, {}}}

\* A part that does not run stays in one state.
ScpIdle == ScpStart(DownloadJob(<<"no">>, FALSE, FALSE, {}))
ForwardIdle == ForwardInit /\ ~mayForward

ConnectionInit ==
  /\ Init
  /\ \/ part = "registry" /\ ScpIdle /\ ForwardIdle /\ ShellInit
     \/ part = "scp" /\ ScpInit /\ ForwardIdle /\ ShellInit
     \/ part = "forward" /\ ScpIdle /\ ForwardInit /\ ShellInit
     \/ part = "shell" /\ ScpIdle /\ ForwardIdle /\ ShellInit

InRegistry(A) == part = "registry" /\ A /\ UNCHANGED <<part, serviceVars>>
InScp(A) == part = "scp" /\ A /\ UNCHANGED <<part, vars, forwardVars, shellVars>>
InForward(A) == part = "forward" /\ A /\ UNCHANGED <<part, vars, scpVars, shellVars>>
InShell(A) == part = "shell" /\ A /\ UNCHANGED <<part, vars, scpVars, forwardVars>>

ConnectionNext == InRegistry(Next) \/ InScp(ScpNext) \/ InForward(ForwardNext) \/ InShell(ShellNext)

\* Time passes and the ticker fires.  Every goroutine that can go on does so, as do the scp
\* program and a process that has been hung up; nobody is assumed to hang up, to ask or to
\* interrupt.
ConnectionSpec ==
  /\ ConnectionInit /\ [][ConnectionNext]_connectionVars
  /\ WF_connectionVars(InRegistry(Tick)) /\ WF_connectionVars(InRegistry(CheckIdleConnections))
  /\ \A c \in Conns : \A k \in SlotsOf[c] : WF_connectionVars(InRegistry(sessionSteps(c, k)))
  /\ WF_connectionVars(InScp(serverSteps)) /\ WF_connectionVars(InScp(peerSteps))
  /\ \A t \in 1..MaxTunnels : WF_connectionVars(InForward(copying(t)))
  /\ WF_connectionVars(InShell(requestSteps)) /\ WF_connectionVars(InShell(copySteps))
  /\ WF_connectionVars(InShell(hungUpChildExits))

\* Every scp command ends (ScpEnds), in the behaviours in which one runs.
ScpCommandEnds == part = "scp" => ScpEnds

\* A file that an scp command reported as sent is where it was to go, with all its bytes.
ScpArrives == UploadsArrive /\ DownloadsArrive

\* Nothing outlives the session that opened it: transfers, listeners, terminals.
NothingLeftOpen == TransferRegistered /\ ScpLeavesNothing /\ OpenListenersAreKnown /\ ShellClosesTerminal

\* Commands end, tunnels drain, processes are waited for, and requests are taken.
ServicesEnd == ScpCommandEnds /\ TunnelsDrain /\ ChildIsReaped /\ RequestsAreTaken
=============================================================================
