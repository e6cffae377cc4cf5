-------------------------- MODULE BlockWriteStream --------------------------
(***************************************************************************)
(* The stream that writes one HDFS block to a datanode.  The writing       *)
(* goroutine cuts its buffer into packets, puts each into a channel and    *)
(* sends it; the acknowledging goroutine takes packets from the channel    *)
(* and compares each with the next acknowledgement; a third goroutine      *)
(* sends heartbeats.  The datanode is external.  Data is a number of       *)
(* units; a packet is its number, its place in the block and its length.   *)
(***************************************************************************)
EXTENDS Integers, Sequences

CONSTANTS PacketSize,  \* outboundPacketSize
          outboundChunkSize,
          MaxQueue,    \* maxPacketsInQueue
          FirstOffset, \* where the block is continued, 0 for a new block
          WriteSizes,  \* lengths of the writes
          MaxUnits,    \* bound: units written
          MaxBeats     \* bound: heartbeats

ASSUME BlockWriteStreamAssumption ==
  /\ {PacketSize, outboundChunkSize, MaxQueue} \subseteq Nat \ {0}
  /\ {FirstOffset, MaxUnits, MaxBeats} \subseteq Nat /\ WriteSizes \subseteq Nat

VARIABLES buf,      \* units in the buffer
          offset, seqno, closed,
          at,       \* the writing goroutine: where it is in the call it serves
          call,     \* "write", "flush" or "finish"
          cur,      \* the packet it is sending
          result,   \* what the last call returned
          packets,  \* the channel
          packetsClosed,
          ackAt, held, ackError,  \* the acknowledging goroutine
          beating, beats,         \* the heartbeat goroutine
          wire,     \* sent and not yet received by the datanode
          acks,     \* acknowledgements not yet read
          broken,   \* the connection is closed or has timed out
          written,  \* units given to Write
          stored    \* history: end of the data that the datanodes have acknowledged

writer == <<buf, offset, seqno, closed, at, call, cur, result, written>>
acker == <<ackAt, held, ackError>>
net == <<wire, acks, broken, stored>>
vars == <<writer, packets, packetsClosed, acker, beating, beats, net>>

HeartbeatSeqno == -1
NoPacket == [seqno |-> 0, offset |-> 0, len |-> 0, last |-> FALSE]
Beat == [NoPacket EXCEPT !.seqno = HeartbeatSeqno]

Init ==
  /\ buf = 0 /\ offset = FirstOffset /\ seqno = 1 /\ closed = FALSE
  /\ at = "idle" /\ call = "write" /\ cur = NoPacket /\ result = "none"
  /\ packets = << >> /\ packetsClosed = FALSE
  /\ ackAt = "recv" /\ held = NoPacket /\ ackError = FALSE
  /\ beating = TRUE /\ beats = 0
  /\ wire = << >> /\ acks = << >> /\ broken = FALSE
  /\ written = 0 /\ stored = FirstOffset

-----------------------------------------------------------------------------
(* The writing goroutine.                                                  *)

\* Only visible once the acknowledging goroutine has ended.
getAckError == ackAt = "done" /\ ackError

Smaller(a, b) == IF a < b THEN a ELSE b

\* A packet that starts inside a chunk ends with the chunk.
PacketLength(n) ==
  LET rest == outboundChunkSize - (offset % outboundChunkSize) IN
  IF rest < outboundChunkSize THEN Smaller(Smaller(n, PacketSize), rest) ELSE Smaller(n, PacketSize)

makePacket == [seqno |-> seqno, offset |-> offset, len |-> PacketLength(buf), last |-> FALSE]
lastPacket == [seqno |-> seqno, offset |-> offset, len |-> 0, last |-> TRUE]

Write(n) ==
  /\ at = "idle" /\ ~closed /\ written + n <= MaxUnits
  /\ IF getAckError
     THEN result' = "error" /\ UNCHANGED <<buf, at, call, written>>
     ELSE /\ result' = "none" /\ buf' = buf + n /\ written' = written + n
          /\ at' = "flush" /\ call' = "write"
  /\ UNCHANGED <<offset, seqno, closed, cur, packets, packetsClosed, acker, beating, beats, net>>

Flush ==
  /\ at = "idle" /\ ~closed /\ buf > 0
  /\ at' = "flush" /\ call' = "flush" /\ result' = "none"
  /\ UNCHANGED <<buf, offset, seqno, closed, cur, written, packets, packetsClosed, acker,
                 beating, beats, net>>

finish ==
  /\ at = "idle" /\ ~closed
  /\ closed' = TRUE
  /\ call' = "finish"
  /\ IF getAckError THEN result' = "error" /\ at' = "end" ELSE result' = "none" /\ at' = "flush"
  /\ broken' = (broken \/ getAckError)
  /\ UNCHANGED <<buf, offset, seqno, cur, written, packets, packetsClosed, acker,
                 beating, beats, wire, acks, stored>>

\* The loop of flush; finish goes on with the last packet.
flushLoop ==
  /\ at = "flush"
  /\ IF buf > 0 /\ (call # "write" \/ buf >= PacketSize)
     THEN cur' = makePacket /\ at' = "put" /\ UNCHANGED result
     ELSE IF call = "finish"
     THEN cur' = lastPacket /\ at' = "put" /\ UNCHANGED result
     ELSE at' = "idle" /\ result' = "ok" /\ UNCHANGED cur
  /\ buf' = IF at' = "put" THEN buf - cur'.len ELSE buf
  /\ UNCHANGED <<offset, seqno, closed, call, written, packets, packetsClosed, acker,
                 beating, beats, net>>

HasRoom == Len(packets) < MaxQueue

putPacket ==
  /\ at = "put" /\ HasRoom
  /\ packets' = Append(packets, cur)
  /\ offset' = offset + cur.len
  /\ seqno' = seqno + 1
  /\ at' = "send"
  /\ UNCHANGED <<buf, closed, call, cur, result, written, packetsClosed, acker,
                 beating, beats, net>>

writePacket ==
  /\ at = "send"
  /\ wire' = Append(wire, cur)
  /\ IF cur.last THEN at' = "wait" /\ packetsClosed' = TRUE
     ELSE at' = "flush" /\ UNCHANGED packetsClosed
  /\ UNCHANGED <<buf, offset, seqno, closed, call, cur, result, written, packets, acker,
                 beating, beats, acks, broken, stored>>

\* The error is returned at once; closing the block writer closes the connection.
writePacketFails ==
  /\ at = "send" /\ broken
  /\ result' = "error"
  /\ at' = IF call = "finish" THEN "end" ELSE "idle"
  /\ UNCHANGED <<buf, offset, seqno, closed, call, cur, written, packets, packetsClosed, acker,
                 beating, beats, net>>

waitForAcks ==
  /\ at = "wait" /\ ackAt = "done"
  /\ at' = "end" /\ broken' = TRUE
  /\ result' = IF getAckError THEN "error" ELSE "ok"
  /\ UNCHANGED <<buf, offset, seqno, closed, call, cur, written, packets, packetsClosed, acker,
                 beating, beats, wire, acks, stored>>

-----------------------------------------------------------------------------
(* The acknowledging goroutine.                                            *)

ackRecv ==
  /\ ackAt = "recv"
  /\ IF packets # << >>
     THEN held' = Head(packets) /\ packets' = Tail(packets) /\ ackAt' = "read"
     ELSE packetsClosed /\ ackAt' = "done" /\ UNCHANGED <<held, packets>>
  /\ UNCHANGED <<writer, packetsClosed, ackError, beating, beats, net>>

\* Mutant: the number of an acknowledgement is not compared.
AcceptsAny(ack) == ack.ok

Accepts(ack) == ack.ok /\ ack.seqno \in {HeartbeatSeqno, held.seqno}

\* An acknowledgement of a heartbeat is skipped.
ackRead ==
  /\ ackAt = "read" /\ acks # << >>
  /\ acks' = Tail(acks)
  /\ ackError' = ~Accepts(Head(acks))
  /\ ackAt' = IF ackError' THEN "drain"
              ELSE IF Head(acks).seqno = HeartbeatSeqno THEN "read" ELSE "recv"
  /\ UNCHANGED <<writer, packets, packetsClosed, held, beating, beats, wire, broken, stored>>

ackReadFails ==
  /\ ackAt = "read" /\ broken
  /\ ackError' = TRUE /\ ackAt' = "drain"
  /\ UNCHANGED <<writer, packets, packetsClosed, held, beating, beats, net>>

\* Mutant: the loop stops at the first error and leaves the channel alone.
ackDrainStop ==
  /\ ackAt = "drain"
  /\ ackAt' = "done"
  /\ UNCHANGED <<writer, packets, packetsClosed, held, ackError, beating, beats, net>>

\* After an error packets are only taken off the channel.
ackDrain ==
  /\ ackAt = "drain"
  /\ IF packets # << >>
     THEN packets' = Tail(packets) /\ UNCHANGED ackAt
     ELSE packetsClosed /\ ackAt' = "done" /\ UNCHANGED packets
  /\ UNCHANGED <<writer, packetsClosed, held, ackError, beating, beats, net>>

-----------------------------------------------------------------------------
(* Heartbeats, which wait while flush holds writeLock.                     *)

Locked == at \in {"flush", "put", "send"} /\ ~cur.last

writeHeartbeat ==
  /\ beating /\ ~Locked /\ beats < MaxBeats
  /\ beats' = beats + 1
  /\ wire' = IF broken THEN wire ELSE Append(wire, Beat)
  /\ UNCHANGED <<writer, packets, packetsClosed, acker, beating, acks, broken, stored>>

stopHeartbeats ==
  /\ beating /\ closed
  /\ beating' = FALSE
  /\ UNCHANGED <<writer, packets, packetsClosed, acker, beats, net>>

-----------------------------------------------------------------------------
(* The datanode: it acknowledges a packet, reports a failure, or answers   *)
(* with a number that is not expected.                                     *)

Reply(p, ok, n) ==
  /\ acks' = Append(acks, [seqno |-> n, ok |-> ok])
  /\ stored' = IF ok /\ n = p.seqno /\ p.offset = stored THEN stored + p.len ELSE stored
  /\ wire' = Tail(wire)
  /\ UNCHANGED <<writer, packets, packetsClosed, acker, beating, beats, broken>>

Datanode ==
  /\ wire # << >> /\ ~broken
  /\ LET p == Head(wire) IN
     \/ Reply(p, TRUE, p.seqno)
     \/ Reply(p, FALSE, p.seqno)
     \/ p.seqno # HeartbeatSeqno /\ Reply(p, TRUE, p.seqno + 1)

Break ==
  /\ ~broken
  /\ broken' = TRUE
  /\ UNCHANGED <<writer, packets, packetsClosed, acker, beating, beats, wire, acks, stored>>

Writer ==
  flushLoop \/ putPacket \/ writePacket \/ writePacketFails \/ waitForAcks
Acker == ackRecv \/ ackRead \/ ackReadFails \/ ackDrain

Next ==
  \/ \E n \in WriteSizes : Write(n)
  \/ Flush \/ finish \/ Writer \/ Acker
  \/ writeHeartbeat \/ stopHeartbeats
  \/ Datanode \/ Break

Spec == Init /\ [][Next]_vars

\* The goroutines run, and the datanode answers unless the connection breaks; the
\* deadline of the connection makes a silent datanode a broken connection.
FairSpec ==
  Spec /\ WF_vars(Writer) /\ WF_vars(Acker) /\ WF_vars(stopHeartbeats) /\ WF_vars(Datanode)

-----------------------------------------------------------------------------
(* Properties.                                                             *)

\* finish succeeds only when every unit written has been acknowledged by the
\* datanode, in order: "waiting for acknowledgements from the datanodes".
FinishMeansStored ==
  at = "end" /\ result = "ok" => stored = FirstOffset + written /\ buf = 0

\* A packet that starts inside a chunk stays inside it: "a partial chunk must be sent
\* in an individual packet".
PacketsAligned ==
  \A i \in 1..Len(wire) : LET p == wire[i] IN
    p.offset % outboundChunkSize # 0 =>
      p.len = 0 \/ p.offset \div outboundChunkSize = (p.offset + p.len - 1) \div outboundChunkSize

DataOnWire == SelectSeq(wire, LAMBDA p : p.seqno # HeartbeatSeqno)

\* While acknowledgements are good, the channel bounds what is sent and not yet
\* acknowledged.
InFlightBounded == ~ackError => Len(DataOnWire) <= MaxQueue + 1

\* A call that must return, although an error stops the reading of acknowledgements: "If
\* we don't, the upstream thread could deadlock waiting for the channel to have space."
StreamPending == at \notin {"idle", "end"}
=============================================================================
