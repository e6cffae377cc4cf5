----------------------------- MODULE HdfsShell ------------------------------
(***************************************************************************)
(* The commands rm, mv, mkdir and touch of the hdfs command, over the tree *)
(* of HdfsFiles.  A command looks at a path with Stat and then acts on it; *)
(* another client may change the tree between the two.  What the client's  *)
(* operations do is that of HdfsFiles, here in one step each.              *)
(***************************************************************************)
EXTENDS HdfsFiles, FiniteSets, FiniteSetsExt

CONSTANTS Commands,  \* [name, args, flags]: what is typed
          MaxOther   \* bound: changes by another client

VARIABLES cmd,    \* the command, the arguments that are left, where it is, the exit status
          stable, \* what was in the tree from the beginning and no other client has touched
          others  \* changes by another client so far

shellVars == <<tree, cmd, stable, others>>

NewCommand(c) ==
  [name |-> c.name, args |-> c.args, flags |-> c.flags, todo |-> c.args, at |-> "start",
   kind |-> "none", into |-> FALSE, status |-> 0]

ShellInit ==
  /\ FilesInit
  /\ \E c \in Commands : cmd = NewCommand(c)
  /\ stable = tree
  /\ others = 0

Is(name, at) == cmd.name = name /\ cmd.at = at
Flag(f) == f \in cmd.flags
p0 == Head(cmd.todo)

\* fatal.
Fatal == cmd' = [cmd EXCEPT !.at = "exit", !.status = 1]

\* The next argument, with the status that this one leaves; at is where an argument starts.
Continue(at, status) ==
  cmd' = [cmd EXCEPT !.todo = Tail(@), !.status = IF status = 1 THEN 1 ELSE @,
                     !.at = IF Len(cmd.todo) = 1 THEN "exit" ELSE at]

-----------------------------------------------------------------------------
\* Mutant: directories are removed without -r.
rmRefusesNothing == FALSE

\* rm refuses a directory unless -r is given.
rmRefuses == ~Flag("r") /\ Kind(p0) = "dir"

rmRefusedStatus == 1

rmStat ==
  /\ Is("rm", "start")
  /\ IF ~Exists(p0) THEN Continue("start", IF Flag("f") THEN 0 ELSE 1)
     ELSE IF rmRefuses THEN Continue("start", rmRefusedStatus)
     ELSE cmd' = [cmd EXCEPT !.at = "remove"]
  /\ UNCHANGED tree

rmRemoveAll ==
  /\ Is("rm", "remove")
  /\ tree' = delete(p0, TRUE)[2]
  /\ Continue("start", 0)

-----------------------------------------------------------------------------
(* mv: the last argument is the destination.                               *)

Dest == Last(cmd.args)
Sources == Front(cmd.args)
MvTarget == IF cmd.into THEN Append(Dest, Last(p0)) ELSE Dest

mvStat ==
  /\ Is("mv", "start")
  /\ LET into == Kind(Dest) = "dir" /\ ~Flag("T") IN
     IF ~into /\ Len(Sources) > 1 THEN Fatal
     ELSE cmd' = [cmd EXCEPT !.at = "source", !.into = into, !.todo = Sources]
  /\ UNCHANGED tree

mvSource ==
  /\ Is("mv", "source")
  /\ IF Exists(p0) THEN cmd' = [cmd EXCEPT !.at = "dest", !.kind = Kind(p0)] ELSE Fatal
  /\ UNCHANGED tree

mvForce == ~Flag("n")

mvDest ==
  /\ Is("mv", "dest")
  /\ IF Exists(MvTarget) /\ ((Kind(MvTarget) = "dir" /\ cmd.kind # "dir") \/ ~mvForce) THEN Fatal
     ELSE cmd' = [cmd EXCEPT !.at = "rename"]
  /\ UNCHANGED tree

mvRename ==
  /\ Is("mv", "rename")
  /\ LET r == rename2(p0, MvTarget) IN
     /\ tree' = r[2]
     /\ IF r[1] = "ok" THEN Continue("source", 0) ELSE Fatal

-----------------------------------------------------------------------------
\* mkdir: with -p a path that exists is not an error.
mkdirPath ==
  /\ Is("mkdir", "start")
  /\ LET found == Exists(p0)
         r == IF found THEN <<IF Flag("p") /\ Kind(p0) = "dir" THEN "ok" ELSE "exists", tree>>
              ELSE mkdirs(p0, Flag("p")) IN
     /\ tree' = r[2]
     /\ IF r[1] = "ok" \/ (r[1] = "exists" /\ found /\ Flag("p")) THEN Continue("start", 0) ELSE Fatal

touchStat ==
  /\ Is("touch", "start")
  /\ IF ~Exists(p0) /\ Flag("c") THEN Fatal
     ELSE cmd' = [cmd EXCEPT !.at = IF Exists(p0) THEN "times" ELSE "create"]
  /\ UNCHANGED tree

\* Chtimes, or CreateEmptyFile, which looks again.
touchPath ==
  /\ cmd.name = "touch" /\ cmd.at \in {"times", "create"}
  /\ IF cmd.at = "times" THEN UNCHANGED tree /\ (IF Exists(p0) THEN Continue("start", 0) ELSE Fatal)
     ELSE /\ tree' = create(p0)[2]
          /\ IF create(p0)[1] = "ok" THEN Continue("start", 0) ELSE Fatal

-----------------------------------------------------------------------------
\* Another client makes or removes something.
otherChanges ==
  /\ others < MaxOther
  /\ \E p \in Paths :
       \/ /\ Exists(p) /\ tree' = Without(Below(p))
          /\ stable' = [r \in DOMAIN stable \ Below(p) |-> stable[r]]
       \/ /\ ~Exists(p) /\ HasParent(p)
          /\ \E k \in {"file", "dir"} : tree' = With(p, k)
          /\ stable' = [r \in DOMAIN stable \ {p} |-> stable[r]]
  /\ others' = others + 1

ShellNext ==
  /\ UNCHANGED <<jobs, faults>>
  /\ \/ cmd.at # "exit" /\ otherChanges /\ UNCHANGED cmd
     \/ /\ rmStat \/ rmRemoveAll \/ mvStat \/ mvSource \/ mvDest \/ mvRename \/ mkdirPath \/ touchStat \/ touchPath
        /\ UNCHANGED <<stable, others>>

-----------------------------------------------------------------------------
NamedIn(args, p) == \E i \in DOMAIN args : args[i] = p
BelowIn(args, p) == \E i \in DOMAIN args : IsPrefix(args[i], p)

\* What no other client has touched is lost only to a command that was told to take it: rm
\* takes what is named, and without -r no directory and nothing below one; mv moves its
\* sources; mkdir and touch take nothing.
TakesWhatIsAsked ==
  \A p \in DOMAIN stable \ DOMAIN tree :
    CASE cmd.name = "rm" -> IF Flag("r") THEN BelowIn(cmd.args, p) ELSE NamedIn(cmd.args, p) /\ stable[p] = "file"
      [] cmd.name = "mv" -> BelowIn(Sources, p)
      [] OTHER -> FALSE

\* With -n, mv replaces nothing that was at the destination when it looked, although
\* Rename always overwrites.
MvKeeps ==
  [][Is("mv", "rename") /\ Flag("n") /\ cmd' # cmd /\ tree' # tree => MvTarget \notin DOMAIN stable]_shellVars

\* An exit status of 0 means that the command has done what it was asked for: rm has
\* removed what no other client has touched, and if none interfered mv has moved every
\* source and mkdir and touch have made every path.
StatusTells ==
  cmd.at = "exit" /\ cmd.status = 0 =>
    CASE cmd.name = "rm" -> \A p \in DOMAIN stable : NamedIn(cmd.args, p) => ~Exists(p)
      [] cmd.name = "mv" -> others > 0 \/ \A p \in DOMAIN tree : ~BelowIn(Sources, p)
      [] OTHER -> others > 0 \/ \A i \in DOMAIN cmd.args : Exists(cmd.args[i])

-----------------------------------------------------------------------------
(***************************************************************************)
(* head and tail of the hdfs command.  headLines reads to the end of the   *)
(* last line wanted and then copies that much; tailLines looks for line    *)
(* ends in the last tailSearchSize bytes, then in those before them, until *)
(* it has seen enough.                                                     *)
(*                                                                         *)
(* A file is a sequence of bytes that are line ends ("n") or not ("x").    *)
(* Each command runs to its end; the loop over the search windows is       *)
(* taken a step at a time.                                                 *)
(***************************************************************************)

CONSTANTS tailSearchSize, \* 16384 in the code
          FileSizes,      \* sizes of the files
          LineCounts      \* values of -n

ASSUME HeadTailAssumption == tailSearchSize \in Nat \ {0} /\ LineCounts \subseteq Nat \ {0}

VARIABLES text,    \* the file
          show,    \* the command: head or tail, lines wanted, what is printed
          search   \* tailLines: searchPoint and the lines that are still missing

showVars == <<text, show, search>>

\* The offsets start at 0.
Bytes == 0..(Len(text) - 1)
Newline(off) == text[off + 1] = "n"
PrintFrom(off) == SubSeq(text, off + 1, Len(text))

searchFrom(n) == IF n > tailSearchSize THEN n - tailSearchSize ELSE 0

ShowInit ==
  /\ \E n \in FileSizes : text \in [1..n -> {"n", "x"}]
  /\ \E c \in {"head", "tail"}, lines \in LineCounts :
       /\ show = [cmd |-> c, lines |-> lines, at |-> "run", out |-> << >>]
       /\ search = [point |-> searchFrom(Len(text)), missing |-> lines]

-----------------------------------------------------------------------------
\* The byte after the n-th line end.
headOffset(ends, n) == ends[n] + 1

\* headLines: everything if there are not that many line ends.
headLines ==
  LET ends == SetToSortSeq({off \in Bytes : Newline(off)}, <) IN
  /\ show.cmd = "head" /\ show.at = "run"
  /\ show' = [show EXCEPT !.at = "done",
                !.out = IF Len(ends) < show.lines THEN text
                        ELSE SubSeq(text, 1, headOffset(ends, show.lines))]
  /\ UNCHANGED <<text, search>>

\* The line ends in a window, without one that ends the file.
tailNewlines(from) ==
  {off \in Bytes : from <= off /\ off < from + tailSearchSize /\ Newline(off) /\ off + 1 # Len(text)}

Prints(off) == show' = [show EXCEPT !.at = "done", !.out = PrintFrom(off)]

\* One round of the loop of tailLines; printOffset is 0 unless a round sets it.
tailLines ==
  LET newlines == SetToSortSeq(tailNewlines(search.point), <)
      found == Len(newlines) IN
  /\ show.cmd = "tail" /\ show.at = "run"
  /\ IF search.point < 0 THEN Prints(0) /\ UNCHANGED search
     ELSE IF found >= search.missing
     THEN Prints(newlines[found - search.missing + 1] + 1) /\ UNCHANGED search
     ELSE /\ search' = [point |-> search.point - tailSearchSize, missing |-> search.missing - found]
          /\ UNCHANGED show
  /\ UNCHANGED text

ShowNext == headLines \/ tailLines

-----------------------------------------------------------------------------
\* A line starts at the beginning and after every line end but one that ends the file.
LineStarts == {0} \cup {off + 1 : off \in {o \in Bytes : Newline(o) /\ o + 1 # Len(text)}}

\* head -n prints the first lines, whole, and nothing else.
HeadIsFirstLines ==
  show.cmd = "head" /\ show.at = "done" =>
    LET later == {s \in LineStarts : Cardinality({t \in LineStarts : t < s}) >= show.lines} IN
    show.out = IF later = {} THEN text ELSE SubSeq(text, 1, Min(later))

\* tail -n prints the last lines: "The flags available are a subset of the POSIX ones, but
\* should behave similarly."  The loop leaves out a first window that is not a whole one,
\* and then prints the whole file: here are the files that it does search to the beginning.
TailIsLastLines ==
  show.cmd = "tail" /\ show.at = "done" /\ (Len(text) <= tailSearchSize \/ Len(text) % tailSearchSize = 0) =>
    LET late == {s \in LineStarts : Cardinality({t \in LineStarts : t >= s}) <= show.lines} IN
    show.out = PrintFrom(Min(late))
=============================================================================
