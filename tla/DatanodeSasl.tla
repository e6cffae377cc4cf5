---------------------------- MODULE DatanodeSasl ----------------------------
(***************************************************************************)
(* Connections to a datanode that asks for authentication: the DIGEST-MD5  *)
(* handshake of SaslDialer.wrapDatanodeConn, which agrees on the           *)
(* protection of the connection, and the wrapped connections that sign     *)
(* (integrity) or encrypt (privacy) each write as a frame.                 *)
(*                                                                         *)
(* A digest is the tuple of what it is computed from, a key the tuple of   *)
(* what it is derived from.  The data is a stream of numbered units; a key *)
(* stream is the count of units that it has been applied to.  The datanode *)
(* is external.                                                            *)
(***************************************************************************)
EXTENDS Integers, Sequences, SequencesExt

CONSTANTS Offers,     \* external: challenges, [qop, ciphers, aes]
          Enforced,   \* values of EnforceQop
          FrameSizes, \* external: units that the datanode sends at a time
          ReadSizes,  \* lengths of the buffers given to Read
          MaxSealed   \* bound: units sent in each direction

ASSUME DatanodeSaslAssumption == FrameSizes \cup ReadSizes \subseteq Nat \ {0}

VARIABLES hs,   \* the handshake: its step, the challenge, what is agreed
          dn,   \* external: the datanode: its password and protection, frames sent and received
          cc    \* the wrapped connection: sequence numbers, key streams, readBuf, what was read

saslVars == <<hs, dn, cc>>

MacLen == 1  \* units that the HMAC takes

SaslInit ==
  /\ \E offer \in Offers, enforce \in Enforced, encrypted \in BOOLEAN, same \in BOOLEAN :
       /\ hs = [at |-> "dial", offer |-> offer, enforce |-> enforce, keyed |-> encrypted,
                kind |-> "none", key |-> << >>, open |-> FALSE]
       /\ dn = [passwd |-> IF same THEN "ours" ELSE "other", kind |-> "none", key |-> << >>,
                wire |-> << >>, sent |-> 0, seq |-> 0, enc |-> 0, rejects |-> FALSE, recv |-> 0, dec |-> 0]
  /\ cc = [sendSeqNum |-> 0, readSeqNum |-> 0, enc |-> 0, dec |-> 0, readBuf |-> << >>,
           got |-> << >>, sent |-> 0, err |-> "none"]

-----------------------------------------------------------------------------
(* Handshake.                                                              *)

Fail == hs' = [hs EXCEPT !.at = "failed"] /\ UNCHANGED <<dn, cc>>

\* DialContext.
DialContext ==
  /\ hs.at = "dial"
  /\ \/ hs' = [hs EXCEPT !.at = "failed"]
     \/ hs' = [hs EXCEPT !.at = "challenge", !.open = TRUE]
  /\ UNCHANGED <<dn, cc>>

\* ParseChallenge: a challenge without qop is refused.
ParseChallenge(offer) == offer.qop # << >>

chooseCipher(options) ==
  CASE "rc4" \in options -> "rc4"
    [] "rc4" \notin options /\ "rc4-56" \in options -> "rc4-56"
    [] {"rc4", "rc4-56"} \cap options = {} /\ "rc4-40" \in options -> "rc4-40"
    [] OTHER -> ""

\* The name and password: those of the data encryption key if there is one, else of the
\* block token.
ourToken(keyed) == IF keyed THEN <<"key", "ours">> ELSE <<"block", "ours">>

a1(name, passwd) == <<name, passwd, "nonce", "cnonce">>
a2(initial, qop) == <<initial, qop \in {"auth-conf", "auth-int"}>>
compute(initial, key, qop) == <<key, qop, a2(initial, qop)>>

generateIntegrityKeys(key) == <<"sign", key>>
generatePrivacyKeys(key, cipher) ==
  <<"seal", key, CASE cipher = "rc4-40" -> 5 [] cipher = "rc4-56" -> 7 [] OTHER -> 16>>
Keys(key, cipher) == <<generateIntegrityKeys(key), generatePrivacyKeys(key, cipher)>>

\* The check of EnforceQop against what the datanode offers.
refused(qop, enforce) ==
  CASE qop = "auth-conf" -> FALSE
    [] qop = "auth-int" -> enforce = "privacy"
    [] OTHER -> enforce \in {"privacy", "integrity"}

Qop0 == Head(hs.offer.qop)
Cipher == chooseCipher(hs.offer.ciphers)
OurKey == LET t == ourToken(hs.keyed) IN a1(t[1], t[2])

\* External: the datanode's side of the exchange.
DnKey == a1(ourToken(hs.keyed)[1], dn.passwd)
DnKind(asked) ==
  CASE Qop0 = "auth-conf" -> IF asked /\ hs.offer.aes THEN "aes" ELSE "privacy"
    [] Qop0 = "auth-int" -> "integrity"
    [] OTHER -> "plain"

\* The challenge arrives (or the connection breaks), challengeStep1, the answer is sent.
wrapChallenge ==
  /\ hs.at = "challenge"
  /\ \/ Fail
     \/ /\ ParseChallenge(hs.offer) /\ ~refused(Qop0, hs.enforce)
        /\ hs' = [hs EXCEPT !.at = "response"] /\ UNCHANGED cc
        /\ dn' = IF compute(TRUE, OurKey, Qop0) = compute(TRUE, DnKey, Qop0)
                 THEN [dn EXCEPT !.kind = DnKind(Qop0 = "auth-conf"), !.key = Keys(DnKey, Cipher)]
                 ELSE dn

\* Which connection is returned.
wrappedKind(privacy, integrity, aes) ==
  CASE ~privacy /\ ~integrity -> "plain"
    [] (privacy \/ integrity) /\ aes -> "aes"
    [] OTHER -> IF privacy THEN "privacy" ELSE "integrity"

\* The datanode has proved that it has the password.
challengeStep2(answer) == answer = compute(FALSE, OurKey, Qop0)

wrapResponse ==
  /\ hs.at = "response"
  /\ \/ Fail
     \/ /\ dn.kind # "none" /\ challengeStep2(compute(FALSE, DnKey, Qop0))
        /\ Qop0 = "auth-conf" => Cipher # ""
        /\ hs' = [hs EXCEPT !.at = "open", !.key = Keys(OurKey, Cipher),
                            !.kind = wrappedKind(Qop0 = "auth-conf", Qop0 \in {"auth-conf", "auth-int"}, dn.kind = "aes")]
        /\ UNCHANGED <<dn, cc>>

-----------------------------------------------------------------------------
(* The wrapped connections.                                                *)

Wrapped == hs.at = "open" /\ hs.kind \in {"integrity", "privacy"}
Usable == Wrapped /\ cc.err = "none"

\* External: the datanode sends a frame, which may be damaged on its way.
dnSends(n) ==
  /\ Wrapped /\ dn.sent + n <= MaxSealed
  /\ \E intact \in BOOLEAN :
       dn' = [dn EXCEPT !.sent = @ + n, !.seq = @ + 1, !.enc = @ + n + MacLen,
                !.wire = Append(@, [seq |-> dn.seq, from |-> dn.sent + 1, len |-> n, at |-> dn.enc, intact |-> intact])]
  /\ UNCHANGED <<hs, cc>>

\* Mutant: the signature is not decrypted with the rest.
decryptedDataOnly(f) == cc.dec + f.len

\* digestMD5PrivacyConn.decode applies the key stream to data and signature.
decrypted(f) == cc.dec + f.len + MacLen

\* digestMD5IntegrityConn.decode: the signature covers the sequence number and the data.
integrityVerified(f) == f.intact /\ f.seq = cc.readSeqNum

\* digestMD5PrivacyConn.decode: so it does here, in plain text, which the right place of the
\* key stream gives.
privacyVerified(f) == f.intact /\ f.seq = cc.readSeqNum /\ f.at = cc.dec

verified(f) == IF hs.kind = "privacy" THEN privacyVerified(f) ELSE integrityVerified(f)

\* readBuf.Truncate(len(decoded)).
truncated(f) == [i \in 1..f.len |-> f.from + i - 1]

Give(units) == cc.got \o units

\* Read(b): what is buffered, if that is enough; else the next frame is read and decoded,
\* and the result is what readBuf.Read(b[n:]) returns: the n units from before are in b,
\* and are not counted.
ReadFrame(n) ==
  LET k == IF n < Len(cc.readBuf) THEN n ELSE Len(cc.readBuf)
      before == SubSeq(cc.readBuf, 1, k) IN
  /\ IF k = n
     THEN cc' = [cc EXCEPT !.got = Give(before), !.readBuf = SubSeq(@, k + 1, Len(@))] /\ UNCHANGED dn
     ELSE LET f == Head(dn.wire)
              rest == truncated(f)
              m == IF n - k < Len(rest) THEN n - k ELSE Len(rest) IN
          /\ dn.wire # << >> /\ dn' = [dn EXCEPT !.wire = Tail(@)]
          /\ IF verified(f)
             THEN cc' = [cc EXCEPT !.readSeqNum = @ + 1, !.dec = decrypted(f),
                           !.readBuf = SubSeq(rest, m + 1, Len(rest)),
                           !.got = Give(SubSeq(before \o SubSeq(rest, 1, m), 1, m))]
             ELSE cc' = [cc EXCEPT !.err = IF f.intact THEN "rejected" ELSE "damaged",
                           !.dec = decrypted(f), !.got = Give(before)]
  /\ UNCHANGED hs

\* Both connections read in this way.
integrityRead(n) == Usable /\ hs.kind = "integrity" /\ ReadFrame(n)
privacyRead(n) == Usable /\ hs.kind = "privacy" /\ ReadFrame(n)

\* External: the datanode checks a frame with this number as it arrives, sealed from this
\* place of the key stream on, and counts it.
dnChecks(n, seq, at) ==
  dn' = [dn EXCEPT !.recv = @ + 1, !.dec = @ + n + MacLen, !.rejects = @ \/ seq # dn.recv \/ at # dn.dec]

\* Data and signature are sent in plain text, under the next number.
integrityWrite(n) ==
  /\ Usable /\ hs.kind = "integrity" /\ cc.sent + n <= MaxSealed
  /\ cc' = [cc EXCEPT !.sendSeqNum = @ + 1, !.sent = @ + n]
  /\ dnChecks(n, cc.sendSeqNum, dn.dec)
  /\ UNCHANGED hs

\* Data and signature are encrypted, the number is not.
privacyWrite(n) ==
  /\ Usable /\ hs.kind = "privacy" /\ cc.sent + n <= MaxSealed
  /\ cc' = [cc EXCEPT !.sendSeqNum = @ + 1, !.sent = @ + n, !.enc = @ + n + MacLen]
  /\ dnChecks(n, cc.sendSeqNum, cc.enc)
  /\ UNCHANGED hs

SaslNext ==
  \/ DialContext \/ wrapChallenge \/ wrapResponse
  \/ \E n \in FrameSizes : dnSends(n) \/ integrityWrite(n) \/ privacyWrite(n)
  \/ \E n \in ReadSizes : integrityRead(n) \/ privacyRead(n)

-----------------------------------------------------------------------------
Strength == [plain |-> 0, integrity |-> 1, privacy |-> 2, aes |-> 2]
Needed(enforce) == CASE enforce = "privacy" -> 2 [] enforce = "integrity" -> 1 [] OTHER -> 0

\* A connection that wrapDatanodeConn returns is to a datanode that has the same password,
\* both ends protect it in the same way with the same keys, and it is not weaker than
\* EnforceQop asks for.
ProtectionAgreed ==
  hs.at = "open" =>
    /\ hs.kind = dn.kind /\ hs.key = dn.key
    /\ Strength[hs.kind] >= Needed(hs.enforce)

\* A frame that arrives as it was sent is accepted, at both ends, however many went before
\* it: sequence numbers and key streams stay in step.
FramesAccepted == cc.err # "rejected" /\ ~dn.rejects

\* "Read will decode the underlying bytes and then copy them from our buffer into the
\* provided byte slice": what the caller gets is what the datanode sent, in order.
ReadsInOrder == \A i \in DOMAIN cc.got : cc.got[i] = i
=============================================================================
