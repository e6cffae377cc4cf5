---------------------------- MODULE MCSftpServer ----------------------------
(* What client and server say to each other, and what the server's side    *)
(* keeps: one operation from end to end, a mode on its way, a glob, missing *)
(* directories, a listing in pages, and the tree and a file of the          *)
(* in-memory file system; one of them in each behaviour.                    *)
EXTENDS Exchange, FileModes, Glob, MemFS

VARIABLE part

serverVars == <<part, exchangeVars, modeVars, globVars, dirVars, ls, memVars, contentVars>>

MCPaths == {<<Root, 1>>, <<Root, 1, 2>>, <<1>>, <<DotDot, 1>>, <<1, DotDot, 2>>, << >>}
MCMemTargets == {<<"a">>}

\* A part that does not run stays in one state.
ExchangeIdle == x = Starting("Stat", NoArgs, "Server", "Get", AnyHandler({}), FALSE)
ModeIdle == f = File({}, 0, {})
GlobIdle == remoteTree = << >> /\ glob = [pattern |-> << >>, paths |-> {}, err |-> FALSE]

DirsIdle == tree = 0 /\ removed = FALSE /\ maker = [u \in Makers |-> NewMaker("mkdir")]
ListIdle == ls = [lister |-> "mem", len |-> 0, offset |-> 0, got |-> << >>, over |-> FALSE]

ServerInit ==
  /\ part \in {"exchange", "mode", "glob", "dirs", "list", "mem", "content"}
  /\ IF part = "exchange" THEN ExchangeInit ELSE ExchangeIdle
  /\ IF part = "mode" THEN ModeInit ELSE ModeIdle
  /\ IF part = "glob" THEN GlobInit ELSE GlobIdle
  /\ IF part = "dirs" THEN DirsInit ELSE DirsIdle
  /\ IF part = "list" THEN ListInit ELSE ListIdle
  /\ MemInit /\ ContentInit

ServerNext ==
  /\ UNCHANGED part
  /\ \/ part = "exchange" /\ ExchangeNext /\ UNCHANGED <<modeVars, globVars, dirVars, ls, memVars, contentVars>>
     \/ part = "mode" /\ ModeNext /\ UNCHANGED <<exchangeVars, globVars, dirVars, ls, memVars, contentVars>>
     \/ part = "glob" /\ GlobNext /\ UNCHANGED <<exchangeVars, modeVars, dirVars, ls, memVars, contentVars>>
     \/ part = "dirs" /\ DirsNext /\ UNCHANGED <<exchangeVars, modeVars, globVars, ls, memVars, contentVars>>
     \/ part = "list" /\ filelist /\ UNCHANGED <<exchangeVars, modeVars, globVars, dirVars, memVars, contentVars>>
     \/ part = "mem" /\ MemNext /\ UNCHANGED <<exchangeVars, modeVars, globVars, dirVars, ls, contentVars>>
     \/ part = "content" /\ ContentNext /\ UNCHANGED <<exchangeVars, modeVars, globVars, dirVars, ls, memVars>>

ServerSpec == ServerInit /\ [][ServerNext]_serverVars

\* A handler, or the operating system, is asked for what the caller of the client asked for:
\* the operation, the cleaned paths, the attributes, the mode and the flags of an open; what is
\* cut short is not carried out, and the long name of a listing agrees with the mode.
RequestsArrive ==
  /\ AskedAsCalled /\ HandlersSeeCleanPaths /\ AttributesArrive /\ CutRequestIsDropped
  /\ ModeArrives /\ WordAgreesWithMode /\ OpenArrives

\* The caller is told the truth: the answer is the handler's result, a success means that the
\* disk or HDFS did what was asked, and a failure that nothing was changed, with the
\* exceptions named there.
AnswersTrue == AnswerIsResult /\ DoneAsCalled /\ FailureChangesNothing /\ AttributesSet

\* What is behind the handlers stays sound: the flat map of the in-memory backend stays a
\* tree in which what is listed is found, an exclusive open makes a new file, a file holds
\* what was written; missing directories are made, and a listing in pages is whole.
BackendsSound ==
  MemTreeWellFormed /\ ListingsAgree /\ ExclIsNew /\ ContentExact /\ MissingDirsMade /\ ListedOnce
=============================================================================
