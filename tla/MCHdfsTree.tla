----------------------------- MODULE MCHdfsTree -----------------------------
(* What works on the tree of HDFS: the client's operations as SFTP         *)
(* sessions use them, and the commands of the hdfs command; and how a      *)
(* client is configured; one of them in each behaviour.                    *)
EXTENDS HdfsWalk, HdfsConfig

VARIABLE part

inTree == <<tree, jobs, faults, cmd, stable, others, walk, copied, glob>>
treeVars == <<part, inTree, showVars, confVars>>

-----------------------------------------------------------------------------
TreeOf(dirs, files) == [p \in dirs \cup files |-> IF p \in dirs THEN "dir" ELSE "file"]

MCPaths == {<<1>>, <<1, 1>>, <<1, 1, 1>>, <<1, 2>>, <<2>>, <<2, 1>>}
SmallTree == TreeOf({<<1>>}, {<<1, 1>>, <<2>>})
MCTrees == {TreeOf({<<1>>, <<1, 1>>, <<2>>}, {<<1, 1, 1>>, <<1, 2>>, <<2, 1>>}), SmallTree}

Command(name, args, flags) == [name : {name}, args : args, flags : SUBSET flags]
MCCommands ==
  Command("rm", {<< <<1>> >>, << <<2>>, <<1, 1>> >>}, {"r", "f"})
  \cup Command("mv", {<< <<1, 1>>, <<2>> >>, << <<1, 1>>, <<2>>, <<1>> >>, << <<2>>, <<1>> >>}, {"n", "T"})
  \cup Command("mkdir", {<< <<1>>, <<2>> >>, << <<2, 1>> >>}, {"p"})
  \cup Command("touch", {<< <<1>>, <<2>> >>, << <<1, 1>>, <<2, 1>> >>}, {"c"})

MCWalks ==
  [name : {"chmod", "du"}, root : {<<1>>, <<2>>}, deep : BOOLEAN]
  \cup [name : {"get"}, root : {<<1>>}, deep : {TRUE}]
  \cup [name : {"getmerge", "cat"}, root : {<<1>>, <<2>>}, deep : {FALSE}]
  \cup [name : {"put"}, root : {<<1>>, <<2>>, <<1, 1>>, <<2, 1>>}, deep : {FALSE}]
  \cup [name : {"put -"}, root : {<<2>>, <<1, 1, 1>>, <<2, 1>>}, deep : {FALSE}]
MCLocalTree == TreeOf({<< >>, <<1>>}, {<<1, 1>>})

Star == {0, 1, 2}
Arg(host, abs, parts) == [host |-> host, abs |-> abs, parts |-> parts]
MCGlobArgs ==
  {Arg("", TRUE, <<Star, {1}>>), Arg("n1", TRUE, <<Star, Star, {1}>>), Arg("", FALSE, <<{0, 2}>>)}
  \X {Arg("", TRUE, <<{2}>>), Arg("n2", TRUE, <<{1}, Star>>), Arg("n1", FALSE, <<Star, Star>>)}
MCHome == <<1>>

Key(kind) == <<kind, "">>
File(k, v, l, w) == [kind |-> "ok", props |-> [x \in {k, l} |-> IF x = k THEN v ELSE w]]
NoFile == [kind |-> "missing"]
MCDirs ==
  {NoFile,
   File(Key("default"), <<"$h", "p">>, <<"var", "$h">>, <<"n", "$d">>),
   File(Key("default"), <<"c">>, Key("protection"), <<"integrity">>),
   File(Key("kerberos"), "true", Key("protection"), <<"privacy", "integrity">>)}
  \X {NoFile, [kind |-> "bad"],
      File(<<"rpc-address", "1">>, <<"n1">>, <<"ha.namenodes", "c">>, << >>),
      File(Key("encrypt"), "true", Key("principal"), "nn"),
      File(Key("kerberos"), "false", Key("protection"), <<"integrity", "authentication">>)}
MCHomeDir == <<File(Key("default"), <<"n3">>, Key("principal"), "nn"), NoFile>>
MCSetups ==
  [who : {"New", "command"}, dirs : {<< >>} \cup {<<d>> : d \in MCDirs} \cup {<<d, MCHomeDir>> : d \in MCDirs},
   address : {<< >>, <<"n2">>}, credentials : BOOLEAN]
  \cup [who : {"handler"}, dirs : {<<d>> : d \in MCDirs}, address : {<< >>}, credentials : {FALSE}]
  \cup [who : {"handler"}, dirs : {<< >>}, address : {<<"n2">>}, credentials : {FALSE}]

-----------------------------------------------------------------------------
\* A part that does not run stays in one state.
CmdIdle == cmd = NewCommand([name |-> "rm", args |-> << <<1>> >>, flags |-> {}])
WalkIdle ==
  /\ walk = NewWalk([name |-> "cat", root |-> <<1>>, deep |-> FALSE])
  /\ copied = [p \in {} |-> "none"]
GlobIdle == glob = NewGlob(<<Arg("", TRUE, <<{2}>>)>>)
ShowIdle ==
  /\ text = << >> /\ search = [point |-> 0, missing |-> 1]
  /\ show = [cmd |-> "head", lines |-> 1, at |-> "run", out |-> << >>]
ConfIdle == ConfInit /\ setup = [who |-> "handler", dirs |-> << >>, address |-> <<"n2">>, credentials |-> FALSE] /\ ~dials.encrypts

\* What is untouched by others is of interest to the commands only.
TreeInit ==
  /\ part \in {"files", "shell", "walk", "glob", "show", "conf"}
  /\ FilesInit /\ (part \in {"show", "conf"} => tree = SmallTree)
  /\ stable = (IF part = "files" THEN [p \in {} |-> "none"] ELSE tree) /\ others = 0
  /\ IF part = "shell" THEN ShellInit ELSE CmdIdle
  /\ IF part = "walk" THEN WalkInit ELSE WalkIdle
  /\ IF part = "glob" THEN GlobInit ELSE GlobIdle
  /\ IF part = "show" THEN ShowInit ELSE ShowIdle
  /\ IF part = "conf" THEN ConfInit ELSE ConfIdle

TreeNext ==
  \/ part = "files" /\ FilesNext /\ UNCHANGED <<part, cmd, stable, others, walk, copied, glob, showVars, confVars>>
  \/ part = "shell" /\ ShellNext /\ UNCHANGED <<part, walk, copied, glob, showVars, confVars>>
  \/ part = "walk" /\ WalkNext /\ UNCHANGED <<part, glob, showVars, confVars>>
  \/ part = "glob" /\ GlobNext /\ UNCHANGED <<part, walk, copied, showVars, confVars>>
  \/ part = "show" /\ ShowNext /\ UNCHANGED <<part, inTree, confVars>>
  \/ part = "conf" /\ ConfNext /\ UNCHANGED <<part, inTree, showVars>>

TreeSpec == TreeInit /\ [][TreeNext]_treeVars

-----------------------------------------------------------------------------
\* A command takes no more than it was asked to, and its exit status tells whether it did it;
\* head and tail print the lines that were asked for.
CommandsObey == TakesWhatIsAsked /\ StatusTells /\ HeadIsFirstLines /\ TailIsLastLines

\* A walk, a put and a du reach everything in a tree that nobody else touches.
WalksComplete == WalkComplete /\ PutComplete /\ DuAddsUp

\* An argument with wildcards stands for all paths that match it, in order, on one namenode.
GlobsComplete == GlobComplete /\ GlobInOrder /\ OneNamenode

\* A client is made from the files as they are laid over each other, with addresses that can
\* be dialed and the protection that they ask for, and dials no datanode with less.
ConfigurationKept == ConfIsTheFiles /\ HighestProtection /\ Dialable /\ ProtectedDials

\* An operation on the tree reports success for what is so, and takes nothing away that it was
\* not asked to take.
TreeKept == ReportsTrue /\ TakesOnlyItsPath /\ MvKeeps
=============================================================================
