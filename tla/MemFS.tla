------------------------------- MODULE MemFS -------------------------------
(***************************************************************************)
(* The in-memory file system behind InMemHandler: a flat map from clean    *)
(* absolute paths to files, in which a directory is an entry of its own.   *)
(* Every handler call holds fs.mu and is one step.                         *)
(*                                                                         *)
(* A path is the sequence of its names, the root << >>.  A file is known   *)
(* by its identity, as the pointer in the map is: hard links are entries   *)
(* with the same file.  The contents of one file have variables of their   *)
(* own, and actions that hold the lock of that file.                       *)
(***************************************************************************)
EXTENDS Integers, Sequences, SequencesExt, FiniteSets

CONSTANTS MemNames,  \* names of files
          MemDepth,  \* bound: names in a path
          MaxFiles,  \* bound: files ever made
          MemTargets \* bound: paths that symbolic links are made to

VARIABLES files,   \* fs.files: the file under each path
          mem,     \* mem[i]: the fields of file i; 0 is fs.rootFile
          made,    \* files made so far
          last,    \* the last call, as far as properties ask: a rename, an exclusive open of
                   \* a path that had no entry or one, or another call
          misused  \* the root, or a directory to a place below itself, was renamed

memVars == <<files, mem, made, last, misused>>

MemPaths == UNION {[1..n -> MemNames] : n \in 0..MemDepth}
NoLink == <<"none">>
MemFile(name, isdir, symlink) == [name |-> name, isdir |-> isdir, symlink |-> symlink]

MemInit ==
  /\ files = << >> /\ mem = [i \in {0} |-> MemFile(<< >>, TRUE, NoLink)]
  /\ made = 0 /\ misused = FALSE
  /\ last = "other"

maxSymlinkFollows == 5

NotExist == -1
TooManyLinks == -2

\* The file under a path, or the error.
lfetch(p) == IF p = << >> THEN 0 ELSE IF p \in DOMAIN files THEN files[p] ELSE NotExist

\* Symbolic links at the end of a path are followed, up to a limit.
follow[n \in 0..maxSymlinkFollows, i \in Int] ==
  IF i < 0 THEN i
  ELSE IF mem[i].symlink = NoLink THEN i
  ELSE IF n = 0 THEN TooManyLinks
  ELSE follow[n - 1, lfetch(mem[i].symlink)]

fetch(p) == follow[maxSymlinkFollows, lfetch(p)]

DirOf(p) == IF p = << >> THEN p ELSE Front(p)
BadName == <<"bad">>

\* The path with its directory replaced by the directory's own name.
canonName(p) ==
  LET d == fetch(DirOf(p)) IN
  IF d < 0 \/ ~mem[d].isdir THEN BadName
  ELSE IF p = << >> THEN p ELSE Append(mem[d].name, Last(p))

InBound(p) == Len(p) <= MemDepth

-----------------------------------------------------------------------------
Call(op, p, err) ==
  last' = CASE op = "OpenExcl" /\ err = "nil" -> IF p \in DOMAIN files THEN "excl old" ELSE "excl new"
            [] op = "Rename" -> op
            [] OTHER -> "other"

Fails(op, p, err) == Call(op, p, err) /\ UNCHANGED <<files, mem, made, misused>>

Put(q, i) == [p \in DOMAIN files \cup {q} |-> IF p = q THEN i ELSE files[p]]

\* putfile of a new file: the name must be free, the directory must be there.
putfile(op, asked, p, isdir, symlink) ==
  LET q == canonName(p) IN
  IF q = BadName \/ lfetch(q) # NotExist THEN Fails(op, asked, "exist")
  ELSE /\ InBound(q) /\ made < MaxFiles
       /\ files' = Put(q, made + 1)
       /\ mem' = [i \in 0..(made + 1) |-> IF i = made + 1 THEN MemFile(q, isdir, symlink) ELSE mem[i]]
       /\ made' = made + 1
       /\ Call(op, asked, "nil")
       /\ UNCHANGED misused

mkdir(p) == putfile("Mkdir", p, p, TRUE, NoLink)
symlink(target, p) == putfile("Symlink", p, p, FALSE, target)

\* Where a chain of dangling links ends, for a file that is to be created.
danglingEnd[n \in 0..maxSymlinkFollows, p \in MemPaths] ==
  LET i == lfetch(p) IN
  IF i < 0 \/ mem[i].symlink = NoLink THEN p
  ELSE IF n = 0 THEN BadName ELSE danglingEnd[n - 1, mem[i].symlink]

\* A file is opened, or created, through dangling links unless O_EXCL is given.
openfile(p, creat, excl) ==
  LET i == fetch(p)
      op == IF creat /\ excl THEN "OpenExcl" ELSE "Open" IN
  CASE i = NotExist /\ ~creat -> Fails(op, p, "not exist")
    [] i = NotExist /\ lfetch(p) # NotExist /\ excl -> Fails(op, p, "invalid")
    [] i = NotExist -> LET end == danglingEnd[maxSymlinkFollows, p] IN
                       IF end = BadName THEN Fails(op, p, "links") ELSE putfile(op, p, end, FALSE, NoLink)
    [] i = TooManyLinks -> Fails(op, p, "links")
    [] creat /\ excl -> Fails(op, p, "exist")
    [] OTHER -> Fails(op, p, IF mem[i].isdir THEN "invalid" ELSE "nil")

\* A hard link puts the same file under a second path, and renames it.
link(p, to) ==
  LET i == lfetch(p)
      q == canonName(to) IN
  IF i < 0 \/ mem[i].isdir \/ q = BadName \/ lfetch(q) # NotExist THEN Fails("Link", p, "error")
  ELSE /\ InBound(q)
       /\ files' = Put(q, i) /\ mem' = [mem EXCEPT ![i].name = q]
       /\ Call("Link", p, "nil")
       /\ UNCHANGED <<made, misused>>

Gone(P) == [q \in DOMAIN files \ P |-> files[q]]

unlink(p) ==
  LET i == lfetch(p) IN
  IF i < 0 \/ mem[i].isdir THEN Fails("Remove", p, "error")
  ELSE files' = Gone({p}) /\ Call("Remove", p, "nil") /\ UNCHANGED <<mem, made, misused>>

HasEntries(d) == \E q \in DOMAIN files : DirOf(q) = d

\* The root is removed in name only.
rmdir(p) ==
  LET i == lfetch(p) IN
  IF i < 0 \/ ~mem[i].isdir \/ HasEntries(mem[i].name) THEN Fails("Rmdir", p, "error")
  ELSE files' = Gone({mem[i].name}) /\ Call("Rmdir", p, "nil") /\ UNCHANGED <<mem, made, misused>>

-----------------------------------------------------------------------------
Below(q, d) == Len(q) > Len(d) /\ SubSeq(q, 1, Len(d)) = d
Rebase(q, from, to) == to \o SubSeq(q, Len(from) + 1, Len(q))

\* Mutant: a directory may replace one that has entries.
RenameRefusesLess(i, q) ==
  \/ i < 0 \/ q = BadName
  \/ LET t == lfetch(q) IN t # NotExist /\ t # i /\ mem[t].isdir # mem[i].isdir

\* What rename refuses, given the file and the canonical new name.
RenameRefuses(i, q) ==
  \/ i < 0 \/ q = BadName
  \/ LET t == lfetch(q) IN
     /\ t # NotExist /\ t # i
     /\ IF mem[i].isdir THEN ~mem[t].isdir \/ HasEntries(mem[t].name) ELSE mem[t].isdir

\* Mutant: the old entry is deleted by the name of the file, after that was set.
MoveDeletesNew(from, i, q) ==
  ~HasEntries(mem[i].name) /\ files' = Gone({from, q}) /\ UNCHANGED mem

\* The entry moves, and with a directory everything below it.
Move(from, i, q) ==
  LET down == IF mem[i].isdir THEN {r \in DOMAIN files : Below(r, mem[i].name)} ELSE {}
      new == [r \in down |-> Rebase(r, mem[i].name, q)] IN
  /\ \A r \in down : InBound(new[r])
  /\ files' = [r \in (DOMAIN files \ (down \cup {from})) \cup {q} \cup {new[s] : s \in down} |->
                 IF r = q THEN i
                 ELSE IF \E s \in down : new[s] = r THEN files[CHOOSE s \in down : new[s] = r] ELSE files[r]]
  /\ mem' = [j \in DOMAIN mem |->
               IF j = i THEN [mem[j] EXCEPT !.name = q]
               ELSE IF \E s \in down : files[s] = j
                    THEN [mem[j] EXCEPT !.name = new[CHOOSE s \in down : files[s] = j]] ELSE mem[j]]

rename(p, to) ==
  LET i == lfetch(p)
      q == canonName(to) IN
  CASE RenameRefuses(i, q) -> Fails("Rename", p, "error")
    [] ~RenameRefuses(i, q) /\ lfetch(q) = i -> Fails("Rename", p, "nil")
    [] OTHER ->
         /\ InBound(q) /\ i # 0 /\ ~(mem[i].isdir /\ Below(q, mem[i].name))
         /\ Move(p, i, q)
         /\ Call("Rename", p, "nil")
         /\ UNCHANGED <<made, misused>>

\* Nothing stops a rename of the root, which is then called by its new name and is an
\* entry of itself; nor one of a directory to a place below it, whose entries, the new one
\* among them, are moved further down as often as the loop over the map meets them.
renameMisused(p, to) ==
  LET i == lfetch(p)
      q == canonName(to)
      down == {r \in DOMAIN files : Below(r, p)} \cup {q} IN
  /\ ~RenameRefuses(i, q) /\ lfetch(q) # i
  /\ i = 0 \/ (mem[i].isdir /\ Below(q, mem[i].name))
  /\ files' = IF i = 0 THEN Put(q, 0)
              ELSE [r \in (DOMAIN files \ (down \cup {p})) \cup {Rebase(s, p, q) : s \in down} |->
                      IF r = Rebase(q, p, q) THEN i
                      ELSE IF r \in DOMAIN files THEN files[r]
                      ELSE files[CHOOSE s \in down : Rebase(s, p, q) = r]]
  /\ mem' = [mem EXCEPT ![i].name = q]
  /\ misused' = TRUE
  /\ Call("Rename", p, "nil")
  /\ UNCHANGED made

\* Filecmd's Rename does not replace a file; PosixRename does.
FilecmdRename(p, to) ==
  LET q == canonName(to) IN
  IF q # BadName /\ lfetch(q) # NotExist THEN Fails("Rename", p, "exist") ELSE rename(p, to)
renameReplacing(p, to) == rename(p, to)

\* What is in the directories after a misuse is not followed any further.
MemNext ==
  /\ ~misused
  /\ \E p \in MemPaths :
       \/ mkdir(p) \/ unlink(p) \/ rmdir(p)
       \/ \E creat, excl \in BOOLEAN : openfile(p, creat, excl)
       \/ \E q \in MemTargets : symlink(q, p)
       \/ \E q \in MemPaths : link(p, q) \/ FilecmdRename(p, q) \/ renameReplacing(p, q)
                               \/ renameMisused(p, q)

MemSpec == MemInit /\ [][MemNext]_memVars

-----------------------------------------------------------------------------
(* What the handlers for listings return; the tree stays as it is.         *)

NotADirectory == {NotExist}

\* The files in a directory, or an error; a file is shown by the name that it has itself.
readdir(p) ==
  LET d == fetch(p) IN
  IF d < 0 \/ ~mem[d].isdir THEN NotADirectory
  ELSE {files[q] : q \in {r \in DOMAIN files : DirOf(r) = mem[d].name}}

readlink(p) ==
  LET i == lfetch(p) IN IF i < 0 \/ mem[i].symlink = NoLink THEN BadName ELSE mem[i].symlink

\* Stat follows links, lstat does not.
FilelistStat(p) == fetch(p)
lstat(p) == lfetch(p)

-----------------------------------------------------------------------------
\* The flat map stays a tree: every entry is in a directory that is there, and (rmdir's
\* comment) "the dir.name is always the canonical name of a directory", so that a
\* directory is under one path only; for as long as nobody renames the root or a
\* directory to a place below itself, which nothing prevents.
MemTreeWellFormed ==
  ~misused =>
    \A p \in DOMAIN files :
      /\ DirOf(p) = << >> \/ (DirOf(p) \in DOMAIN files /\ mem[files[DirOf(p)]].isdir)
      /\ mem[files[p]].isdir => mem[files[p]].name = p

\* A rename moves files and loses none: the only file that can go is the one that the
\* new name replaces, and that is never a directory with entries.
RenameKeepsFiles ==
  [][last' = "Rename" /\ ~misused' =>
       LET lost == {files[p] : p \in DOMAIN files} \ {files'[p] : p \in DOMAIN files'} IN
       /\ Cardinality(lost) <= 1
       /\ \A i \in lost : mem[i].isdir => ~HasEntries(mem[i].name)
       /\ Cardinality(DOMAIN files') \in {Cardinality(DOMAIN files), Cardinality(DOMAIN files) - 1}]_memVars

\* A file opened with O_CREATE and O_EXCL did not exist before under that path, not even
\* as a dangling link.
ExclIsNew == last # "excl old"

\* A client that walks the tree finds all of it: a directory that is listed is there under
\* the path of the one it is in and the name shown, and every entry is shown; Stat goes
\* where a link leads.  (A file that was linked is shown in all its directories by its
\* last name, and the entries of a directory are not found through a link to it.)
ListingsAgree ==
  ~misused =>
    \A d \in {q \in MemPaths : lstat(q) >= 0 /\ mem[lstat(q)].isdir} :
      /\ \A i \in readdir(d) : mem[i].isdir => mem[i].name # << >> /\ lstat(Append(d, Last(mem[i].name))) = i
      /\ \A q \in DOMAIN files : DirOf(q) = d => files[q] \in readdir(d)
      /\ \A q \in DOMAIN files :
           readlink(q) # BadName /\ FilelistStat(q) >= 0 => FilelistStat(q) = FilelistStat(readlink(q))

-----------------------------------------------------------------------------
(* The contents of one file.  content is a slice: the bytes that it shows  *)
(* are the first of an array that may be longer.                           *)

CONSTANT MaxContent \* bound: bytes in the file

VARIABLES array,    \* the array behind content
          size,     \* len(content)
          failed,   \* err is set
          expected  \* history: the bytes that the file should have

contentVars == <<array, size, failed, expected>>

ContentInit == array = << >> /\ size = 0 /\ failed = FALSE /\ expected = << >>

Zeros(n) == [i \in 1..n |-> 0]

\* append puts zeros into the array, or into a new one if it is too short.
grow(n) ==
  IF size + n > Len(array) THEN SubSeq(array, 1, size) \o Zeros(n)
  ELSE [i \in 1..Len(array) |-> IF i > size /\ i <= size + n THEN 0 ELSE array[i]]

\* b as it is with the bytes c from off on; there is room.
Over(b, c, off) == [i \in 1..Len(b) |-> IF i > off /\ i <= off + Len(c) THEN c[i - off] ELSE b[i]]
\* b cut or filled with zeros to n bytes.
Resized(b, n) == [i \in 1..n |-> IF i <= Len(b) THEN b[i] ELSE 0]

AtLeast(a, b) == IF a < b THEN b ELSE a

WriteAt(b, off) ==
  /\ off + Len(b) <= MaxContent
  /\ IF failed THEN UNCHANGED contentVars
     ELSE /\ array' = Over(IF off + Len(b) > size THEN grow(off + Len(b) - size) ELSE array, b, off)
          /\ size' = AtLeast(size, off + Len(b))
          /\ expected' = Over(Resized(expected, AtLeast(Len(expected), off + Len(b))), b, off)
          /\ UNCHANGED failed

\* Setstat with a size, and an open with O_TRUNC.
Truncate(n) ==
  /\ ~failed
  /\ array' = IF n > size THEN grow(n - size) ELSE array
  /\ size' = n /\ expected' = Resized(expected, n)
  /\ UNCHANGED failed

\* A transfer that ends with an error makes the file unusable, for every handle.
TransferError == failed' = TRUE /\ UNCHANGED <<array, size, expected>>

\* The bytes read, and whether the end is told.
ReadAt(off, n) ==
  LET end == IF off + n < size THEN off + n ELSE size IN
  IF off >= size THEN [data |-> << >>, EOF |-> TRUE]
  ELSE [data |-> SubSeq(array, off + 1, end), EOF |-> end - off < n]

ContentNext ==
  \/ \E off \in 0..MaxContent, b \in {<<1>>, <<2>>, <<1, 2>>} : WriteAt(b, off)
  \/ \E n \in 0..MaxContent : Truncate(n)
  \/ TransferError

\* Whatever was written, cut off and filled up before, a read returns what was last
\* written at its place, and zeros where nothing was: bytes that were cut off and are
\* still in the array do not come back.
ContentExact ==
  /\ size = Len(expected)
  /\ \A off, n \in 0..MaxContent :
       /\ ReadAt(off, n).data = SubSeq(expected, off + 1, off + Len(ReadAt(off, n).data))
       /\ ~ReadAt(off, n).EOF => Len(ReadAt(off, n).data) = n
       /\ ReadAt(off, n).EOF => off + Len(ReadAt(off, n).data) >= size
=============================================================================
