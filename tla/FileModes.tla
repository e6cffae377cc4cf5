----------------------------- MODULE FileModes -----------------------------
(***************************************************************************)
(* A file's mode on its way from the server's file system to the client:   *)
(* from os.FileMode to the bits of the protocol and back, and the type     *)
(* word of the long name in a listing; and the flags of an open on their   *)
(* way from the client to the server's file system.                        *)
(*                                                                         *)
(* A mode is a set of bits.  An os.FileMode has its bits by name; in the   *)
(* protocol the type is a number of four bits, here the set of them.       *)
(***************************************************************************)
EXTENDS Integers, Sequences, FiniteSets

VARIABLE f  \* a file that is listed, or opened

modeVars == <<f>>

Perm == {"ur", "uw", "ux", "gr", "gw", "gx", "or", "ow", "ox"}
Special == {"setuid", "setgid", "sticky"}

\* External: the types that the operating system reports.
OSTypes == {{}, {"Dir"}, {"Symlink"}, {"NamedPipe"}, {"Socket"}, {"Device"}, {"Device", "CharDevice"}}

FMT == {"1", "2", "4", "8"}
IFIFO == {"1"}
IFCHR == {"2"}
IFDIR == {"4"}
IFBLK == {"2", "4"}
IFREG == {"8"}
IFLNK == {"2", "8"}
IFSOCK == {"4", "8"}

If(cond, bits) == IF cond THEN bits ELSE {}

fromFileMode(mode) ==
  If("Device" \in mode, IF "CharDevice" \in mode THEN IFCHR ELSE IFBLK)
  \cup If("Dir" \in mode, IFDIR) \cup If("Symlink" \in mode, IFLNK) \cup If("NamedPipe" \in mode, IFIFO)
  \cup (mode \cap Special) \cup If("Socket" \in mode, IFSOCK)
  \cup If(mode \subseteq Perm \cup Special, IFREG) \cup (mode \cap Perm)

toFileMode(bits) ==
  (bits \cap (Perm \cup Special)) \cup
  CASE bits \cap FMT = IFBLK -> {"Device"}
    [] bits \cap FMT = IFCHR -> {"Device", "CharDevice"}
    [] bits \cap FMT = IFDIR -> {"Dir"}
    [] bits \cap FMT = IFIFO -> {"NamedPipe"}
    [] bits \cap FMT = IFLNK -> {"Symlink"}
    [] bits \cap FMT = IFSOCK -> {"Socket"}
    [] OTHER -> {}

\* The letter of one execute bit and the special bit beside it.
ExecLetter(x, s, both, only) ==
  CASE x /\ s -> both [] s -> only [] x -> "x" [] OTHER -> "-"

Letter(mode, bit, l) == IF bit \in mode THEN l ELSE "-"

runLsTypeWord(mode) ==
  <<CASE "Dir" \in mode -> "d"
      [] "Device" \in mode -> IF "CharDevice" \in mode THEN "c" ELSE "b"
      [] "Symlink" \in mode -> "l" [] "Socket" \in mode -> "s" [] "NamedPipe" \in mode -> "p" [] OTHER -> "-",
    Letter(mode, "ur", "r"), Letter(mode, "uw", "w"), ExecLetter("ux" \in mode, "setuid" \in mode, "s", "S"),
    Letter(mode, "gr", "r"), Letter(mode, "gw", "w"), ExecLetter("gx" \in mode, "setgid" \in mode, "s", "S"),
    Letter(mode, "or", "r"), Letter(mode, "ow", "w"), ExecLetter("ox" \in mode, "sticky" \in mode, "t", "T")>>

-----------------------------------------------------------------------------
(* Open flags.  The access modes of the os package are numbers: O_RDONLY   *)
(* is 0, O_WRONLY 1, O_RDWR 2; the others are bits of their own.           *)

OSFlags == {"APPEND", "CREATE", "TRUNC", "EXCL"}

\* Client.flags.
flags(access, others) ==
  (IF access % 2 = 1 THEN {"Write"} ELSE {"Read"})
  \cup If(access \div 2 = 1, {"Read", "Write"})
  \cup If("APPEND" \in others, {"Append"}) \cup If("CREATE" \in others, {"Creat"})
  \cup If("TRUNC" \in others, {"Trunc"}) \cup If("EXCL" \in others, {"Excl"})

\* The access mode with which Server opens a file; 3 when there is none.
OpenAccess(pflags) ==
  CASE {"Read", "Write"} \subseteq pflags -> 2
    [] "Write" \in pflags -> 1
    [] "Read" \in pflags -> 0
    [] OTHER -> 3

\* The other flags of that call; sshFxpOpenPacket.respond leaves Append to the offsets of
\* the writes.
OpenOthers(pflags) ==
  If("Creat" \in pflags, {"CREATE"}) \cup If("Trunc" \in pflags, {"TRUNC"}) \cup If("Excl" \in pflags, {"EXCL"})

\* The handler of sshserv for uploads, which is only asked for flags that write.
getOSOpenFlags(pflags) ==
  [access |-> IF {"Read", "Write"} \subseteq pflags THEN 2 ELSE IF "Write" \in pflags THEN 1 ELSE 0,
   others |-> OpenOthers(pflags) \cup If("Append" \in pflags, {"APPEND"})]

-----------------------------------------------------------------------------
File(mode, access, others) ==
  [at |-> "server", mode |-> mode, access |-> access, others |-> others,
   bits |-> {}, word |-> << >>, got |-> {}, pflags |-> {}]

ModeInit ==
  \E t \in OSTypes, s \in SUBSET Special, p \in SUBSET {"ur", "uw", "ux", "gx", "ox"},
     access \in 0..2, others \in SUBSET OSFlags :
    /\ access # 0 \/ others # {} => t = {} /\ s = {} /\ p = {}
    /\ f = File(t \cup s \cup p, access, others)

sendAttrs ==
  /\ f.at = "server"
  /\ f' = [f EXCEPT !.at = "sent", !.bits = fromFileMode(f.mode), !.word = runLsTypeWord(f.mode)]

fileInfoFromStat ==
  /\ f.at = "sent"
  /\ f' = [f EXCEPT !.at = "client", !.got = toFileMode(f.bits)]

sendOpen ==
  /\ f.at = "client"
  /\ f' = [f EXCEPT !.at = "open", !.pflags = flags(f.access, f.others)]

ModeNext == sendAttrs \/ fileInfoFromStat \/ sendOpen

ModeSpec == ModeInit /\ [][ModeNext]_modeVars

-----------------------------------------------------------------------------
\* What a type word says of a mode: its type letter, and each bit of it.
WordSays(word) ==
  (CASE word[1] = "d" -> {"Dir"} [] word[1] = "b" -> {"Device"} [] word[1] = "c" -> {"Device", "CharDevice"}
     [] word[1] = "l" -> {"Symlink"} [] word[1] = "s" -> {"Socket"} [] word[1] = "p" -> {"NamedPipe"}
     [] OTHER -> {})
  \cup {b \in Perm : \E i \in 2..10 : <<"ur", "uw", "ux", "gr", "gw", "gx", "or", "ow", "ox">>[i - 1] = b
                                      /\ word[i] \in {"r", "w", "x", "s", "t"}}
  \cup If(word[4] \in {"s", "S"}, {"setuid"}) \cup If(word[7] \in {"s", "S"}, {"setgid"})
  \cup If(word[10] \in {"t", "T"}, {"sticky"})

\* The client sees every mode that the operating system can report as it is.
ModeArrives == f.at \in {"client", "open"} => f.got = f.mode

\* The long name of a listing and the attributes beside it never contradict each other,
\* for any type and any of the special bits with or without its execute bit.
WordAgreesWithMode == f.at = "client" => WordSays(f.word) = f.got

\* A file is opened on the server with the access mode that the client asked for and
\* with its other flags, but for O_APPEND; the handler of sshserv passes that on too.
OpenArrives ==
  f.at = "open" =>
    /\ OpenAccess(f.pflags) = f.access /\ OpenOthers(f.pflags) = f.others \ {"APPEND"}
    /\ getOSOpenFlags(f.pflags) = [access |-> f.access, others |-> f.others]
=============================================================================
