----------------------------- MODULE HdfsConfig -----------------------------
(***************************************************************************)
(* How a client of HDFS gets its options: the configuration files of       *)
(* hadoopconf, ClientOptionsFromConf, and the three places that make a     *)
(* client: hdfs.New, getClient of the hdfs command and MkHdfsClient of the *)
(* SFTP handler; then how the client decides whether to protect the        *)
(* connections to the datanodes.                                           *)
(*                                                                         *)
(* A key is a pair, of its kind and what follows the prefix.  An address   *)
(* is a sequence of pieces; a piece of Vars stands for ${...}.             *)
(***************************************************************************)
EXTENDS Integers, Sequences, SequencesExt, FiniteSets, Functions

CONSTANTS Setups,     \* [who, dirs, address, credentials]: who makes a client, and from what
          Vars,       \* pieces of addresses that name a property
          MaxDials    \* bound: connections to datanodes

VARIABLES setup,   \* external: the environment
          conf,    \* HadoopConf: nil, or its properties
          boot,    \* where the program is, and the options so far
          client,  \* Client: defaults and encryptionKey as far as they are known
          dials    \* external: whether the cluster encrypts; and the connections

confVars == <<setup, conf, boot, client, dials>>

NoOptions == [addresses |-> {}, protection |-> "", kerberos |-> FALSE, spn |-> FALSE]

ConfInit ==
  /\ setup \in Setups
  /\ conf = [nil |-> TRUE, map |-> [k \in {} |-> << >>]]
  /\ boot = [at |-> IF setup.dirs = << >> THEN "options" ELSE "load", dir |-> 1, file |-> 1, options |-> NoOptions]
  /\ client = [defaults |-> "unknown", key |-> FALSE]
  /\ \E e \in BOOLEAN : dials = [encrypts |-> e, made |-> << >>]

Goes(at) == boot' = [boot EXCEPT !.at = at]

-----------------------------------------------------------------------------
(* Load and LoadFromEnvironment.                                           *)

\* The properties of a file replace those of the files before it.
overlay(old, new) == [k \in DOMAIN old \cup DOMAIN new |-> IF k \in DOMAIN new THEN new[k] ELSE old[k]]

Load ==
  /\ boot.at = "load" /\ boot.file <= Len(setup.dirs[boot.dir])
  /\ LET f == setup.dirs[boot.dir][boot.file] IN
     CASE f.kind = "missing" -> boot' = [boot EXCEPT !.file = @ + 1] /\ UNCHANGED conf
       [] f.kind = "bad" -> Goes("error") /\ UNCHANGED conf
       [] f.kind = "ok" -> /\ boot' = [boot EXCEPT !.file = @ + 1]
                           /\ conf' = [nil |-> FALSE, map |-> overlay(conf.map, f.props)]
  /\ UNCHANGED <<setup, client, dials>>

\* $HADOOP_HOME/conf is looked at when $HADOOP_CONF_DIR had nothing.
LoadFromEnvironment ==
  /\ boot.at = "load" /\ boot.file > Len(setup.dirs[boot.dir])
  /\ boot' = IF conf.nil /\ boot.dir < Len(setup.dirs) THEN [boot EXCEPT !.dir = @ + 1, !.file = 1]
             ELSE [boot EXCEPT !.at = "options"]
  /\ UNCHANGED <<setup, conf, client, dials>>

-----------------------------------------------------------------------------
(* The options.                                                            *)

ValuesOf(kind) == {conf.map[k] : k \in {x \in DOMAIN conf.map : x[1] = kind}}
Has(kind) == \E k \in DOMAIN conf.map : k[1] = kind
ValueOf(kind) == conf.map[<<kind, "">>]

clusterNames == {<< k[2] >> : k \in {x \in DOMAIN conf.map : x[1] = "ha.namenodes"}}

Namenodes == (ValuesOf("default") \cup ValuesOf("rpc-address")) \ clusterNames

\* The settings are sorted, and the last wins.
highest(list) ==
  CASE "privacy" \in Range(list) -> "privacy"
    [] "integrity" \in Range(list) -> "integrity"
    [] "authentication" \in Range(list) -> "authentication"
    [] OTHER -> ""

ClientOptionsFromConf ==
  [addresses |-> Namenodes, spn |-> Has("principal"),
   kerberos |-> Has("kerberos") /\ ValueOf("kerberos") = "true",
   protection |-> IF Has("encrypt") /\ ValueOf("encrypt") = "true" THEN "privacy"
                  ELSE IF Has("protection") THEN highest(ValueOf("protection")) ELSE ""]

\* An address that is given replaces those of the configuration.
Given(o) == IF setup.address = << >> THEN o ELSE [o EXCEPT !.addresses = {setup.address}]

MadeBy(who, options, at) ==
  /\ boot.at = "options" /\ setup.who = who
  /\ boot' = [boot EXCEPT !.options = options, !.at = at]
  /\ UNCHANGED <<setup, conf, client, dials>>

New == MadeBy("New", Given(ClientOptionsFromConf), "connect")

getClient ==
  LET o == Given(ClientOptionsFromConf) IN
  MadeBy("command", o, IF o.addresses = {} THEN "error" ELSE IF o.kerberos THEN "kerberos" ELSE "connect")

\* MkHdfsClient takes the addresses of the configuration and nothing else.
MkHdfsClient == MadeBy("handler", Given([NoOptions EXCEPT !.addresses = Namenodes]), "resolve")

HasVar(a) == \E i \in DOMAIN a : a[i] \in Vars
FirstVar(a) == a[CHOOSE i \in DOMAIN a : a[i] \in Vars /\ \A j \in 1..(i - 1) : a[j] \notin Vars]

\* What is not set is the empty string.
valOf(v) == IF <<"var", v>> \in DOMAIN conf.map THEN conf.map[<<"var", v>>] ELSE << >>

\* One turn of _resolveVar's loop: every occurrence of the first variable is replaced.
resolveVar ==
  /\ boot.at = "resolve"
  /\ IF \A a \in boot.options.addresses : ~HasVar(a) THEN Goes("connect")
     ELSE \E a \in boot.options.addresses :
            /\ HasVar(a)
            /\ LET v == FirstVar(a)
                   r == FlattenSeq([i \in DOMAIN a |-> IF a[i] = v THEN valOf(v) ELSE << a[i] >>]) IN
               boot' = [boot EXCEPT !.options.addresses = (@ \ {a}) \cup {r}]
  /\ UNCHANGED <<setup, conf, client, dials>>

\* Only the command looks for a ticket; it ends when there is none.
getKerberosClient ==
  /\ boot.at = "kerberos"
  /\ Goes(IF setup.credentials THEN "connect" ELSE "error")
  /\ UNCHANGED <<setup, conf, client, dials>>

\* New leaves the client without credentials.
NewClient ==
  /\ boot.at = "connect"
  /\ LET o == boot.options IN
     Goes(IF o.addresses = {} \/ (o.kerberos /\ (setup.who = "New" \/ ~o.spn)) THEN "error" ELSE "ready")
  /\ UNCHANGED <<setup, conf, client, dials>>

-----------------------------------------------------------------------------
(* wrapDatanodeDial.                                                       *)

Dial(how) ==
  /\ dials' = [dials EXCEPT !.made = Append(@, how)]
  /\ Goes("ready")

\* Mutant: a client that cannot ask for the defaults does without them.
unansweredPlain == Dial("plain")

unanswered == Dial("failed")

wrapDatanodeDial ==
  /\ boot.at = "ready" /\ Len(dials.made) < MaxDials
  /\ IF boot.options.protection = "" /\ client.defaults = "unknown" THEN Goes("defaults") /\ UNCHANGED dials
     ELSE IF boot.options.protection = "" /\ client.defaults = "plain" THEN Dial("plain")
     ELSE IF client.key THEN Dial("wrapped")
     ELSE Goes("key") /\ UNCHANGED dials
  /\ UNCHANGED <<setup, conf, client>>

fetchDefaults ==
  /\ boot.at = "defaults"
  /\ client' = [client EXCEPT !.defaults = IF dials.encrypts THEN "encrypted" ELSE "plain"]
  /\ IF ~dials.encrypts THEN Dial("plain")
     ELSE IF client.key THEN Dial("wrapped")
     ELSE Goes("key") /\ UNCHANGED dials
  /\ UNCHANGED <<setup, conf>>

fetchDataEncryptionKey ==
  /\ boot.at = "key"
  /\ client' = [client EXCEPT !.key = TRUE]
  /\ Dial("wrapped")
  /\ UNCHANGED <<setup, conf>>

\* Either call fails; nothing is remembered.
fetchFails ==
  /\ boot.at \in {"defaults", "key"}
  /\ unanswered
  /\ UNCHANGED <<setup, conf, client>>

confSteps ==
  Load \/ LoadFromEnvironment \/ New \/ getClient \/ MkHdfsClient \/ resolveVar \/ getKerberosClient \/ NewClient
    \/ wrapDatanodeDial \/ fetchDefaults \/ fetchDataEncryptionKey

ConfNext == confSteps \/ fetchFails

-----------------------------------------------------------------------------
\* The files that count: those of the first directory that has any.
FilesUsed ==
  LET used(d) == SelectSeq(setup.dirs[d], LAMBDA f : f.kind # "missing")
      first == {d \in DOMAIN setup.dirs : used(d) # << >> /\ \A e \in 1..(d - 1) : used(e) = << >>} IN
  IF first = {} THEN << >> ELSE used(CHOOSE d \in first : TRUE)

\* The configuration that the options are made from is that of one directory, complete, and
\* where two of its files disagree the later one decides; a file that cannot be parsed is
\* never passed over.
ConfIsTheFiles ==
  boot.at \notin {"load", "error"} =>
    LET fs == FilesUsed IN
    /\ \A i \in DOMAIN fs : fs[i].kind = "ok"
    /\ DOMAIN conf.map = UNION {DOMAIN fs[i].props : i \in DOMAIN fs}
    /\ \A i \in DOMAIN fs : \A k \in DOMAIN fs[i].props :
         (\A j \in (i + 1)..Len(fs) : k \notin DOMAIN fs[j].props) => conf.map[k] = fs[i].props[k]

\* "Note that we take the highest setting, rather than allowing a range of alternatives",
\* and "if ... dfs.encrypt.data.transfer enabled, ... a level of 'privacy' is used".
HighestProtection ==
  boot.at \in {"kerberos", "connect", "ready"} /\ setup.who # "handler" =>
    LET asked == (IF Has("protection") THEN Range(ValueOf("protection")) ELSE {})
                   \cup (IF Has("encrypt") /\ ValueOf("encrypt") = "true" THEN {"privacy"} ELSE {})
        weaker == [authentication |-> {}, integrity |-> {"authentication"}, privacy |-> {"authentication", "integrity"}] IN
    IF asked = {} THEN boot.options.protection = ""
    ELSE boot.options.protection \in asked /\ asked \ {boot.options.protection} \subseteq weaker[boot.options.protection]

\* A client is made only for addresses that can be dialled: no name of a logical cluster
\* ("Namenodes will not return any cluster names") and, in the handler, no variable.
Dialable ==
  boot.at = "ready" /\ setup.address = << >> =>
    \A a \in boot.options.addresses :
      (\A k \in DOMAIN conf.map : k[1] = "ha.namenodes" => a # << k[2] >>) /\ (setup.who = "handler" => ~HasVar(a))

\* Data goes to a datanode in the clear only when no protection was asked for and the
\* cluster itself does not ask for it, also after calls that failed.
ProtectedDials ==
  "plain" \in Range(dials.made) => boot.options.protection = "" /\ ~dials.encrypts
=============================================================================
