----------------------------- MODULE MCHdfsData -----------------------------
(* The data path of the HDFS client: reading and writing files and their   *)
(* blocks, listing, the calls to the namenode and the protected            *)
(* connections to datanodes; one of them in each behaviour.                *)
EXTENDS HdfsReader, HdfsSession, HdfsWriter, BlockWriteStream, Namenode, DatanodeSasl

VARIABLE part

readAll == <<readVars, checksumVars, listVars, transferVars>>
dataVars == <<part, readAll, writeVars, vars, rpcVars, saslVars>>

-----------------------------------------------------------------------------
MCBlockSizes == <<5, 3>>
MCLocations == << <<1, 2>>, <<2, 3>> >>
MCDamaged == {<<1, 1, 0>>}
MCReplicas == <<2, 1, 0, 1, 1>>
MCHostList == <<"n1", "n2">>
MCQop == [h \in {"n1", "n2"} |-> "auth-int"]
MCOffers ==
  [qop : {<< >>, <<"auth">>, <<"auth-int", "auth">>, <<"auth-conf">>},
   ciphers : {{}, {"rc4-40"}, {"rc4", "rc4-56"}}, aes : BOOLEAN]

\* A part that does not run stays in one state.
ReadIdle == ReadInit /\ damaged = {}
ListIdle == ListInit /\ dir.now = {} /\ lister.n = 0
TransferIdle == TransferStart("download")
RpcIdle ==
  /\ act = [a \in Actors |-> [at |-> "unborn", pos |-> 1, id |-> 0, calls |-> 0, result |-> NoOne]]
  /\ lock = NoOne /\ conns = << >> /\ limits = [faults |-> 0, expiries |-> 0]
  /\ nnc = [conn |-> 0, transport |-> "auth", requestID |-> 0, done |-> FALSE, backoff |-> {}]
  /\ cluster = [active |-> "n1", executed |-> [i \in {} |-> 0]]
SaslIdle ==
  SaslInit /\ hs.offer = [qop |-> << >>, ciphers |-> {}, aes |-> FALSE] /\ hs.enforce = "" /\ ~hs.keyed
    /\ dn.passwd = "ours"

DataInit ==
  /\ part \in {"read", "checksum", "list", "transfer", "write", "block", "rpc", "sasl"}
  /\ SumInit /\ WriteInit /\ Init
  /\ IF part = "read" THEN ReadInit ELSE ReadIdle
  /\ IF part = "list" THEN ListInit ELSE ListIdle
  /\ IF part = "transfer" THEN TransferInit ELSE TransferIdle
  /\ IF part = "rpc" THEN RpcInit ELSE RpcIdle
  /\ IF part = "sasl" THEN SaslInit ELSE SaslIdle

InRead(A) == part = "read" /\ A /\ UNCHANGED <<part, checksumVars, listVars, transferVars, writeVars, vars, rpcVars, saslVars>>
InWrite(A) == part = "write" /\ A /\ UNCHANGED <<part, readAll, vars, rpcVars, saslVars>>
InBlockWrite(A) == part = "block" /\ A /\ UNCHANGED <<part, readAll, writeVars, rpcVars, saslVars>>
InRpc(A) == part = "rpc" /\ A /\ UNCHANGED <<part, readAll, writeVars, vars, saslVars>>

DataNext ==
  \/ InRead(ReadNext) \/ InWrite(WriteNext) \/ InBlockWrite(Next) \/ InRpc(RpcNext)
  \/ part = "checksum" /\ SumNext
     /\ UNCHANGED <<part, readVars, listVars, transferVars, writeVars, vars, rpcVars, saslVars>>
  \/ part = "list" /\ ListNext
     /\ UNCHANGED <<part, readVars, checksumVars, transferVars, writeVars, vars, rpcVars, saslVars>>
  \/ part = "transfer" /\ TransferNext
     /\ UNCHANGED <<part, readVars, checksumVars, listVars, writeVars, vars, rpcVars, saslVars>>
  \/ part = "sasl" /\ SaslNext /\ UNCHANGED <<part, readAll, writeVars, vars, rpcVars>>

\* A call goes on once it has begun, and so do the goroutines of a block, of which the
\* datanode answers unless the connection breaks (see FairSpec of BlockWriteStream); an
\* answer of the namenode, or the end of the connection, is noticed.
DataSpec ==
  /\ DataInit /\ [][DataNext]_dataVars
  /\ WF_dataVars(InRead(readSteps)) /\ WF_dataVars(InWrite(writerSteps)) /\ WF_dataVars(InRpc(rpcSteps))
  /\ WF_dataVars(InBlockWrite(Writer)) /\ WF_dataVars(InBlockWrite(Acker))
  /\ WF_dataVars(InBlockWrite(stopHeartbeats)) /\ WF_dataVars(InBlockWrite(Datanode))

Pending ==
  \/ part = "read" /\ ReadPending
  \/ part = "write" /\ WritePending
  \/ part = "block" /\ StreamPending
  \/ part = "rpc" /\ RpcPending

\* Every call returns, whatever fails meanwhile: Read when datanodes fail one after the
\* other, Write when blocks are full or datanodes break, a flush or finish when an
\* acknowledgement is bad or does not come, Execute and Close of the namenode's connection
\* when namenodes fail.
CallsReturn == Pending ~> ~Pending

\* Reads return the bytes of the file in order, over all failures, and its checksum is that
\* of all its blocks.
FileReadsExact == ReadsFollowFile /\ ChecksumCoversFile

\* What Close or finish reported as written is stored, in order, in packets that end with a
\* chunk and of which no more are under way than the channel holds.
WritesStored ==
  CloseMeansStored /\ BlocksInOrder /\ FinishMeansStored /\ PacketsAligned /\ InFlightBounded

\* Every call to the namenode is executed once at most and gets its own answer, over one
\* connection.
CallsOnce == ExecutedOnce /\ OwnAnswers /\ OneConnection

\* Both ends of a connection to a datanode agree on its protection, accept each other's
\* frames, and lose no byte of them.
ProtectedStreamSound == ProtectionAgreed /\ FramesAccepted /\ ReadsInOrder

\* An SFTP client sees the file and the directory of HDFS as they are: bytes at the offset
\* it asked for, and all entries that stay.
HandlerShowsFile == AtTheirOffset /\ ListsWhatStays /\ PagesAreTheListing
=============================================================================
