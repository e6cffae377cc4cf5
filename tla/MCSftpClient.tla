---------------------------- MODULE MCSftpClient ----------------------------
(* The SFTP client and the program built on it, one part in each           *)
(* behaviour: the shared connection, a transfer of a file, operations on   *)
(* paths, and the transfer program.                                        *)
EXTENDS ClientConn, ClientFile, ClientPaths, SftpCli

VARIABLE part

clientVars == <<part, connVars, fileVars, pathVars, cliVars>>

MCCalls == {"stat", "transfer"}
MCWindow == [stat |-> 1, transfer |-> 2]
MCMaxRequests == [stat |-> 1, transfer |-> 3]

MCSource ==
  (<< >> :> Folder) @@ (<<"d">> :> Folder) @@ (<<"d", "a">> :> 1) @@ (<<"d", "s">> :> Folder)
  @@ (<<"d", "s", "b">> :> 2) @@ (<<"d", "y">> :> 3) @@ (<<"d", "z">> :> Folder) @@ (<<"e">> :> Folder)
MCDest == (<< >> :> Folder) @@ (<<"e">> :> Folder) @@ (<<"x">> :> 9)
MCDests ==
  {MCDest, MCDest @@ (<<"e", "d">> :> Folder) @@ (<<"e", "d", "a">> :> 7) @@ (<<"e", "d", "s">> :> 8),
   MCDest @@ (<<"e", "d">> :> 8), MCDest @@ (<<"e", "s">> :> 8)}
MCNames == <<"a", "b", "d", "e", "s", "y", "z">>
MCStamps == {[a |-> 2, s |-> 1, y |-> 1, z |-> 1], [a |-> 1, s |-> 2, y |-> 1, z |-> 2], [a |-> 1, s |-> 1, y |-> 1, z |-> 2]}
MCCliJobs ==
  {Tran(sr, dr, src, dst) : sr \in BOOLEAN, dr \in BOOLEAN,
     src \in {<<"d">>, <<"d", "a">>, <<"no">>}, dst \in {<<"n">>, <<"n", "m">>, <<"e">>, <<"x">>, <<"x", "y">>}}
  \cup {Send(src, dst, st) : src \in {<<"d">>, <<"e">>}, dst \in {<<"e">>, <<"n">>}, st \in MCStamps}
  \cup {Recv(src, dst, st) : src \in {<<"d">>, <<"no">>}, dst \in {<<"e">>, <<"n">>}, st \in MCStamps}

\* A part that does not run stays in one of its initial states.
ConnIdle == ConnInit
FileIdle == /\ fOffset = 0 /\ remote = << >> /\ t = Transfer("Write", 0, 0, 0, 0)
PathIdle == /\ tree = << >> /\ user = [u \in Users |-> NoOp] /\ listing = << >>
CliIdle == CliStart(Tran(FALSE, FALSE, <<"no">>, <<"n">>)) /\ to = MCDest

ClientInit ==
  \/ part = "conn" /\ ConnInit /\ FileIdle /\ PathIdle /\ CliIdle
  \/ part = "file" /\ ConnIdle /\ FileInit /\ PathIdle /\ CliIdle
  \/ part = "path" /\ ConnIdle /\ FileIdle /\ PathInit /\ CliIdle
  \/ part = "cli" /\ ConnIdle /\ FileIdle /\ PathIdle /\ CliInit

ConnMoves(A) == part = "conn" /\ A /\ UNCHANGED <<part, fileVars, pathVars, cliVars>>
FileMoves(A) == part = "file" /\ A /\ UNCHANGED <<part, connVars, pathVars, cliVars>>
PathMoves(A) == part = "path" /\ A /\ UNCHANGED <<part, connVars, fileVars, cliVars>>
CliMoves(A) == part = "cli" /\ A /\ UNCHANGED <<part, connVars, fileVars, pathVars>>

ClientNext == ConnMoves(ConnNext) \/ FileMoves(FileNext) \/ PathMoves(PathNext) \/ CliMoves(CliNext)

ClientSpec ==
  /\ ClientInit /\ [][ClientNext]_clientVars
  /\ WF_clientVars(ConnMoves(recvSteps))
  /\ \A c \in Calls : WF_clientVars(ConnMoves(callSteps(c)))
  /\ WF_clientVars(FileMoves(TransferSteps)) /\ WF_clientVars(CliMoves(cliSteps))

\* Every transfer that runs returns, however short the answers are.
TransfersReturn == part = "file" ~> t.at = "done"

\* Whatever vanishes under its walk, the transfer program ends.
CommandEnds == part = "cli" ~> cli.at = "exit"

\* The goroutine that reads the replies is never stopped by a caller, every caller that
\* waits can still be answered, and a client that could not be set up is closed.
ConnectionServes == ChannelHasRoom /\ WaitingIsAnswerable /\ FailedSetupIsClosed

\* Whatever the order and the length of the answers, a transfer moves the bytes it reports,
\* in order, with no more requests under way than the window allows.
TransfersExact == ReadAtExact /\ WriteToInOrder /\ StoredWhenReported /\ WindowBounded

\* Operations of several requests on one path do what they report, also beside others.
PathCallsRight == MkdirAllIsConcurrent /\ RemoveRemoves /\ ReadDirLeavesNothingOpen

\* The transfer program copies what it was asked to where it was asked to, or says that it
\* did not, and touches nothing else.
CopiesFaithful == Delivered /\ LostOnly /\ OnlyTheTarget

\* Calls on a connection that ends, transfers and commands all come to an end.
CallsEnd == HangUpEndsCalls /\ TransfersReturn /\ CommandEnds
=============================================================================
