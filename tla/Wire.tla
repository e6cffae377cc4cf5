-------------------------------- MODULE Wire --------------------------------
(***************************************************************************)
(* The SFTP packets: how each one is laid out when it is marshalled, and   *)
(* in which order its fields are read back.  A body is a sequence of words *)
(* of four bytes: a uint32 is one word, a uint64 two, a string a word with *)
(* its length followed by its content.                                     *)
(***************************************************************************)
EXTENDS Integers, Sequences, SequencesExt

CONSTANT Word  \* 2^32 in the code: the number of values of one word

ASSUME WireAssumption == Word \in Nat /\ Word > 1

marshalUint32(b, v) == Append(b, v % Word)
marshalUint64(b, v) == marshalUint32(marshalUint32(b, v \div Word), v)
marshalString(b, v) == marshalUint32(b, Len(v)) \o v

ErrShort == [v |-> 0, b |-> << >>, err |-> "short"]

unmarshalUint32Safe(b) ==
  IF Len(b) < 1 THEN ErrShort ELSE [v |-> Head(b), b |-> Tail(b), err |-> "nil"]

unmarshalUint64Safe(b) ==
  IF Len(b) < 2 THEN ErrShort
  ELSE [v |-> b[1] * Word + b[2], b |-> SubSeq(b, 3, Len(b)), err |-> "nil"]

\* Mutant: a string that is cut short is taken as far as it goes.
unmarshalStringSafeShort(b) ==
  LET n == unmarshalUint32Safe(b) IN
  IF n.err # "nil" THEN ErrShort
  ELSE [v |-> SubSeq(n.b, 1, IF n.v > Len(n.b) THEN Len(n.b) ELSE n.v),
        b |-> SubSeq(n.b, n.v + 1, Len(n.b)), err |-> "nil"]

unmarshalStringSafe(b) ==
  LET n == unmarshalUint32Safe(b) IN
  CASE n.err # "nil" -> ErrShort
    [] n.v > Len(n.b) -> ErrShort
    [] OTHER -> [v |-> SubSeq(n.b, 1, n.v), b |-> SubSeq(n.b, n.v + 1, Len(n.b)), err |-> "nil"]

\* Data of the given length that ends a packet.
unmarshalData(b, n) ==
  IF Len(b) < n THEN ErrShort ELSE [v |-> SubSeq(b, 1, n), b |-> << >>, err |-> "nil"]

Words32 == {"ID", "Pflags", "Flags", "Len", "Length", "Version", "Code", "UID", "GID", "Mode", "Atime", "Mtime"}
Words64 == {"Offset", "Size"}

\* marshal, by the type of the field; Data and Attrs are bytes already.
marshal(b, name, v) ==
  CASE name \in Words32 -> marshalUint32(b, v)
    [] name \in Words64 -> marshalUint64(b, v)
    [] name \in {"Data", "Attrs"} -> b \o v
    [] OTHER -> marshalString(b, v)

unmarshal(b, name, p) ==
  CASE name \in Words32 -> unmarshalUint32Safe(b)
    [] name \in Words64 -> unmarshalUint64Safe(b)
    [] name = "Data" -> unmarshalData(b, p.Length)
    [] name = "Attrs" -> [v |-> b, b |-> << >>, err |-> "nil"]
    [] OTHER -> unmarshalStringSafe(b)

\* The fields in the given order, appended to b.
MarshalFields(b, names, p) == FoldLeft(LAMBDA x, n : marshal(x, n, p[n]), b, names)

\* The fields read in the given order; those before the first error are kept.
UnmarshalFields(b, names) ==
  FoldLeft(LAMBDA x, n :
             IF x.err # "nil" THEN x
             ELSE LET r == unmarshal(x.b, n, x.p) IN
                  [p |-> IF r.err = "nil" THEN [k \in DOMAIN x.p \cup {n} |-> IF k = n THEN r.v ELSE x.p[k]]
                         ELSE x.p,
                   b |-> r.b, err |-> r.err],
           [p |-> [ID |-> 0], b |-> b, err |-> "nil"], names)

-----------------------------------------------------------------------------
(* The packets: the code of the type, m the order in which MarshalBinary   *)
(* writes the fields, u the order in which UnmarshalBinary reads them.     *)

IDString(typ, name) == [typ |-> typ, m |-> <<"ID", name>>, u |-> <<"ID", name>>]

sshFxpReaddirPacket  == IDString(12, "Handle")
sshFxpOpendirPacket  == IDString(11, "Path")
sshFxpLstatPacket    == IDString(7, "Path")
sshFxpStatPacket     == IDString(17, "Path")
sshFxpFstatPacket    == IDString(8, "Handle")
sshFxpClosePacket    == IDString(4, "Handle")
sshFxpRemovePacket   == IDString(13, "Filename")
sshFxpRmdirPacket    == IDString(15, "Path")
sshFxpReadlinkPacket == IDString(19, "Path")
sshFxpRealpathPacket == IDString(16, "Path")

sshFxpSymlinkPacket ==
  [typ |-> 20, m |-> <<"ID", "Targetpath", "Linkpath">>, u |-> <<"ID", "Targetpath", "Linkpath">>]
sshFxpOpenPacket ==
  [typ |-> 3, m |-> <<"ID", "Path", "Pflags", "Flags">>, u |-> <<"ID", "Path", "Pflags", "Flags">>]
sshFxpReadPacket ==
  [typ |-> 5, m |-> <<"ID", "Handle", "Offset", "Len">>, u |-> <<"ID", "Handle", "Offset", "Len">>]
sshFxpRenamePacket ==
  [typ |-> 18, m |-> <<"ID", "Oldpath", "Newpath">>, u |-> <<"ID", "Oldpath", "Newpath">>]
sshFxpWritePacket ==
  [typ |-> 6, m |-> <<"ID", "Handle", "Offset", "Length", "Data">>,
   u |-> <<"ID", "Handle", "Offset", "Length", "Data">>]
sshFxpMkdirPacket ==
  [typ |-> 14, m |-> <<"ID", "Path", "Flags">>, u |-> <<"ID", "Path", "Flags">>]
sshFxpSetstatPacket ==
  [typ |-> 9, m |-> <<"ID", "Path", "Flags", "Attrs">>, u |-> <<"ID", "Path", "Flags", "Attrs">>]
sshFxpFsetstatPacket ==
  [typ |-> 10, m |-> <<"ID", "Handle", "Flags", "Attrs">>, u |-> <<"ID", "Handle", "Flags", "Attrs">>]

\* Extended requests carry a name after the id, by which they are told apart.
sshFxpHardlinkPacket ==
  [typ |-> 200, m |-> <<"ID", "ExtendedRequest", "Oldpath", "Newpath">>, u |-> << >>]
sshFxpPosixRenamePacket ==
  [typ |-> 200, m |-> <<"ID", "ExtendedRequest", "Oldpath", "Newpath">>, u |-> << >>]
sshFxpStatvfsPacket == [typ |-> 200, m |-> <<"ID", "ExtendedRequest", "Path">>, u |-> << >>]
sshFxpFsyncPacket == [typ |-> 200, m |-> <<"ID", "ExtendedRequest", "Handle">>, u |-> << >>]

sshFxpExtendedPacketStatVFS     == <<"ID", "ExtendedRequest", "Path">>
sshFxpExtendedPacketPosixRename == <<"ID", "ExtendedRequest", "Oldpath", "Newpath">>
sshFxpExtendedPacketHardlink    == <<"ID", "ExtendedRequest", "Oldpath", "Newpath">>

\* Names of extensions, as content of strings.
Ext == [statvfs |-> <<1>>, posixRename |-> <<2>>, hardlink |-> <<3>>, fsync |-> <<4>>]

\* The name is read first; the whole body is then read again by the specific packet.
sshFxpExtendedPacket(b) ==
  LET x == UnmarshalFields(b, <<"ID", "ExtendedRequest">>)
      e == x.p.ExtendedRequest IN
  CASE x.err # "nil" -> [x EXCEPT !.b = << >>]
    [] e = Ext.statvfs -> UnmarshalFields(b, sshFxpExtendedPacketStatVFS)
    [] e = Ext.posixRename -> UnmarshalFields(b, sshFxpExtendedPacketPosixRename)
    [] e = Ext.hardlink -> UnmarshalFields(b, sshFxpExtendedPacketHardlink)
    [] OTHER -> [x EXCEPT !.err = "unknown extension"]

Requests ==
  [readdir |-> sshFxpReaddirPacket, opendir |-> sshFxpOpendirPacket, lstat |-> sshFxpLstatPacket,
   stat |-> sshFxpStatPacket, fstat |-> sshFxpFstatPacket, close |-> sshFxpClosePacket,
   remove |-> sshFxpRemovePacket, rmdir |-> sshFxpRmdirPacket, readlink |-> sshFxpReadlinkPacket,
   realpath |-> sshFxpRealpathPacket, symlink |-> sshFxpSymlinkPacket, open |-> sshFxpOpenPacket,
   read |-> sshFxpReadPacket, rename |-> sshFxpRenamePacket, write |-> sshFxpWritePacket,
   mkdir |-> sshFxpMkdirPacket, setstat |-> sshFxpSetstatPacket, fsetstat |-> sshFxpFsetstatPacket,
   hardlink |-> sshFxpHardlinkPacket, posixRename |-> sshFxpPosixRenamePacket,
   statvfs |-> sshFxpStatvfsPacket, fsync |-> sshFxpFsyncPacket]

\* The packet that makePacket builds for a type, or "extended".
PacketOfType(typ) ==
  IF typ = 200 THEN "extended"
  ELSE CHOOSE r \in DOMAIN Requests : Requests[r].typ = typ

makePacket(typ, b) ==
  IF typ = 200 THEN sshFxpExtendedPacket(b) ELSE UnmarshalFields(b, Requests[PacketOfType(typ)].u)

-----------------------------------------------------------------------------
(* Attributes: flags say which fields are there.                           *)

AttrFlag == [Size |-> 1, UIDGID |-> 2, Permissions |-> 4, ACmodTime |-> 8]

\* The flags of a set of attributes, and back.
Has(flags, name) == (flags \div AttrFlag[name]) % 2 = 1

\* The order in which marshalFileInfo writes attributes.
marshalFileInfo(flags) ==
  (IF Has(flags, "Size") THEN <<"Size">> ELSE << >>)
  \o (IF Has(flags, "UIDGID") THEN <<"UID", "GID">> ELSE << >>)
  \o (IF Has(flags, "Permissions") THEN <<"Mode">> ELSE << >>)
  \o (IF Has(flags, "ACmodTime") THEN <<"Atime", "Mtime">> ELSE << >>)

\* The order in which getFileStat reads them; an error leaves what is missing at zero.
getFileStat(flags, b) ==
  LET size == IF Has(flags, "Size") THEN <<"Size">> ELSE << >>
      owner == IF Has(flags, "UIDGID") THEN <<"UID", "GID">> ELSE << >>
      mode == IF Has(flags, "Permissions") THEN <<"Mode">> ELSE << >>
      times == IF Has(flags, "ACmodTime") THEN <<"Atime", "Mtime">> ELSE << >> IN
  UnmarshalFields(b, size \o owner \o mode \o times)

\* The order in which the two setstat handlers of Server read them.
setstatFields(flags) ==
  (IF Has(flags, "Size") THEN <<"Size">> ELSE << >>)
  \o (IF Has(flags, "Permissions") THEN <<"Mode">> ELSE << >>)
  \o (IF Has(flags, "ACmodTime") THEN <<"Atime", "Mtime">> ELSE << >>)
  \o (IF Has(flags, "UIDGID") THEN <<"UID", "GID">> ELSE << >>)
=============================================================================
