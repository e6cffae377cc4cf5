-------------------------------- MODULE Glob --------------------------------
(***************************************************************************)
(* Client.Glob: the remote paths that match a pattern.  A path is a        *)
(* sequence of names and a pattern one of components; the last component   *)
(* is matched against the names in each directory that the pattern before  *)
(* it stands for.                                                          *)
(***************************************************************************)
EXTENDS Integers, Sequences, SequencesExt, FiniteSets

CONSTANTS GlobNames,  \* names of files
          GlobDepth   \* bound: components of a path or a pattern

VARIABLES remoteTree, \* external: the remote files, "dir", "closed" (may not be listed) or "file"
          glob        \* a call: its pattern, and what it returned

globVars == <<remoteTree, glob>>

\* A component is a name, "*", a class of names, or malformed.
Star == "*"
Malformed == "["
Class == "[a]*"
Meta == {Star, Malformed, Class}

\* hasMeta, of a component and of a path.
hasMeta(p) == \E i \in 1..Len(p) : p[i] \in Meta

\* External: path.Match of one component; the class stands for some of the names.
InClass == CHOOSE S \in SUBSET GlobNames : Cardinality(S) = 1
Match(c, n) == CASE c = Star -> TRUE [] c = Class -> n \in InClass [] OTHER -> c = n

IsDirectory(p) == p = << >> \/ (p \in DOMAIN remoteTree /\ remoteTree[p] \in {"dir", "closed"})
Readable(p) == IsDirectory(p) /\ (p # << >> => remoteTree[p] = "dir")
NamesIn(p) == {n \in GlobNames : Append(p, n) \in DOMAIN remoteTree}

Found(paths, err) == [paths |-> paths, err |-> err]

\* Mutant: the entries of a directory that is listed all match.
globInAll(dir, c, matches) ==
  IF ~Readable(dir) THEN Found(matches, FALSE)
  ELSE Found(matches \cup {Append(dir, n) : n \in NamesIn(dir)}, FALSE)

\* glob: one directory.  One that is not there, is a file or cannot be read matches
\* nothing; a malformed pattern is noticed when there is a name to match.
globIn(dir, c, matches) ==
  CASE ~Readable(dir) \/ NamesIn(dir) = {} -> Found(matches, FALSE)
    [] c = Malformed -> Found(matches, TRUE)
    [] OTHER -> Found(matches \cup {Append(dir, n) : n \in {m \in NamesIn(dir) : Match(c, m)}}, FALSE)

\* Glob: a pattern without magic is a Lstat; otherwise the directories first.
RECURSIVE Glob(_)
Glob(pattern) ==
  IF ~hasMeta(pattern) THEN Found({p \in {pattern} : p \in DOMAIN remoteTree}, FALSE)
  ELSE LET dir == Front(pattern)
           c == Last(pattern) IN
       IF ~hasMeta(dir) THEN globIn(dir, c, {})
       ELSE LET m == Glob(dir) IN
            IF m.err THEN Found({}, TRUE)
            ELSE LET each == {globIn(d, c, {}) : d \in m.paths} IN
                 Found(UNION {r.paths : r \in each}, \E r \in each : r.err)

-----------------------------------------------------------------------------
GlobPaths == UNION {[1..n -> GlobNames] : n \in 1..GlobDepth}
Patterns == UNION {[1..n -> GlobNames \cup Meta] : n \in 1..GlobDepth}

GlobInit ==
  /\ \E files \in SUBSET GlobPaths :
       /\ \A p \in files : Len(p) > 1 => Front(p) \in files
       /\ remoteTree \in [files -> {"dir", "closed", "file"}]
       /\ \A p \in files : Len(p) > 1 => remoteTree[Front(p)] # "file"
  /\ glob = [pattern |-> << >>, paths |-> {}, err |-> FALSE]

callGlob ==
  /\ glob.pattern = << >>
  /\ \E p \in Patterns : LET r == Glob(p) IN glob' = [pattern |-> p, paths |-> r.paths, err |-> r.err]
  /\ UNCHANGED remoteTree

GlobNext == callGlob

GlobSpec == GlobInit /\ [][GlobNext]_globVars

-----------------------------------------------------------------------------
\* The directories that have to be listed for a path to be found: those from the first
\* component with magic on.
Listed(pattern, p) == {SubSeq(p, 1, i - 1) : i \in {j \in 1..Len(p) : hasMeta(SubSeq(pattern, 1, j))}}

\* Glob's comment: it returns the names of all files that match the pattern, component
\* by component, ignores directories that cannot be read, and the only error is that of a
\* malformed pattern.
GlobMatches ==
  glob.pattern # << >> =>
    /\ glob.err => \E i \in 1..Len(glob.pattern) : glob.pattern[i] = Malformed
    /\ ~glob.err =>
         glob.paths = {p \in DOMAIN remoteTree :
                         /\ Len(p) = Len(glob.pattern)
                         /\ \A i \in 1..Len(p) : Match(glob.pattern[i], p[i])
                         /\ \A d \in Listed(glob.pattern, p) : Readable(d)}
=============================================================================
