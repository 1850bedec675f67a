---------------------------- MODULE FramingLoop ----------------------------
(***************************************************************************)
(* One direction of the link, in the small: the loop of chunk_message      *)
(* (ble.py) cuts a message, the sender writes the chunks in order and the  *)
(* Reassembler at the other end is fed with them.  When a message has      *)
(* arrived the next one may follow on the same Reassembler.                *)
(***************************************************************************)
EXTENDS Framing

CONSTANTS Messages,      \* the messages that may be sent
          Mtus,          \* the MTUs a connection may negotiate
          MaxMessages    \* bound: messages sent in one behaviour

ASSUME FramingLoopAssumption ==
    /\ Messages \subseteq Seq(Int)
    /\ Mtus \subseteq Nat
    /\ MaxMessages \in Nat

VARIABLES pc,        \* "idle", "loop" (chunk_message), "write" (the sender), "rejected"
          mtu,       \* of the connection
          message,   \* the message being sent
          offset,    \* the loop's offset into it
          chunks,    \* the chunks cut so far
          fed,       \* how many of them the Reassembler has been fed
          buffer,    \* Reassembler._buffer
          delivered, \* the messages the Reassembler returned
          sent       \* the messages handed to chunk_message

vars == <<pc, mtu, message, offset, chunks, fed, buffer, delivered, sent>>

chunkSize   == NegotiateChunkSize(mtu)
payloadSize == chunkSize - 1

Init ==
    /\ pc = "idle"
    /\ mtu \in Mtus
    /\ message = <<>> /\ offset = 0 /\ chunks = <<>> /\ fed = 0
    /\ buffer = <<>> /\ delivered = <<>> /\ sent = <<>>

StartOffsetStale == offset
StartOffset      == 0

(* The entry of chunk_message: a size that leaves no room for a payload is *)
(* rejected, an empty message is one empty chunk, others go to the loop.   *)
Begin(m) ==
    /\ pc = "idle" /\ Len(sent) < MaxMessages
    /\ message' = m /\ sent' = Append(sent, m)
    /\ offset' = StartOffset /\ fed' = 0
    /\ pc' = IF chunkSize <= 1 THEN "rejected" ELSE IF m = <<>> THEN "write" ELSE "loop"
    /\ chunks' = IF m = <<>> /\ chunkSize > 1 THEN <<Chunk(TRUE, <<>>)>> ELSE <<>>
    /\ UNCHANGED <<mtu, buffer, delivered>>

(* One turn of `while offset < len(message)`.                              *)
PieceEndOverlong == Lesser(offset + chunkSize, Len(message))
PieceEnd         == Lesser(offset + payloadSize, Len(message))

IsLastIfShort(end) == end - offset < payloadSize
IsLast(end)        == end = Len(message)

CutChunk ==
    /\ pc = "loop" /\ offset < Len(message)
    /\ chunks' = Append(chunks, Chunk(IsLast(PieceEnd), SubSeq(message, offset + 1, PieceEnd)))
    /\ offset' = PieceEnd
    /\ UNCHANGED <<pc, mtu, message, fed, buffer, delivered, sent>>

LoopExit ==
    /\ pc = "loop" /\ offset >= Len(message)
    /\ pc' = "write"
    /\ UNCHANGED <<mtu, message, offset, chunks, fed, buffer, delivered, sent>>

(* The sender writes the next chunk, the other end feeds its Reassembler.  *)
Feed ==
    /\ pc = "write" /\ fed < Len(chunks)
    /\ LET c == chunks[fed + 1] IN
        /\ buffer' = FeedBuffer(buffer, c)
        /\ delivered' = IF c.last THEN Append(delivered, FeedResult(buffer, c)) ELSE delivered
    /\ fed' = fed + 1
    /\ UNCHANGED <<pc, mtu, message, offset, chunks, sent>>

Finish ==
    /\ pc = "write" /\ fed = Len(chunks)
    /\ pc' = "idle"
    /\ UNCHANGED <<mtu, message, offset, chunks, fed, buffer, delivered, sent>>

Next == (\E m \in Messages : Begin(m)) \/ CutChunk \/ LoopExit \/ Feed \/ Finish

Fairness == WF_vars(CutChunk \/ LoopExit \/ Feed \/ Finish)

Spec == Init /\ [][Next]_vars /\ Fairness
-----------------------------------------------------------------------------
TypeOK ==
    /\ pc \in {"idle", "loop", "write", "rejected"}
    /\ mtu \in Mtus
    /\ message \in Messages \cup {<<>>}
    /\ offset \in 0..Len(message)
    /\ chunks \in Seq([last : BOOLEAN, payload : Seq(Int)])
    /\ fed \in 0..Len(chunks)
    /\ buffer \in Seq(Int)
    /\ delivered \in Seq(Seq(Int))
    /\ sent \in Seq(Messages)

(* What chunk_message hands to write_gatt_char fits the link: no chunk is  *)
(* larger than the negotiated value, nor than 512 bytes, and none but that *)
(* of an empty message is without payload.  The loop in ble.py:55-59.      *)
ChunksFit ==
    \A i \in DOMAIN chunks :
        /\ WireSize(chunks[i]) <= Greater(mtu - 3, MIN_CHUNK_SIZE)
        /\ WireSize(chunks[i]) <= MAX_CHUNK_SIZE
        /\ message # <<>> => chunks[i].payload # <<>>

(* The loop computes the closed form that the other modules use in its     *)
(* place: after the loop, and while the chunks are written.                *)
LoopIsClosedForm == pc = "write" => chunks = ChunkMessage(message, chunkSize)

(* The Reassembler returns what was sent: at every moment the messages     *)
(* delivered are those sent, whole, in order, at most the current one      *)
(* still missing; and none is missing once its chunks are all fed.  Also   *)
(* no byte of one message is left over for the next (ble.py:70-77).        *)
RoundTrip ==
    /\ \/ delivered = sent
       \/ sent # <<>> /\ delivered = SubSeq(sent, 1, Len(sent) - 1)
    /\ pc = "idle" => delivered = sent /\ buffer = <<>>

(* The loop of chunk_message ends, and what is sent arrives.               *)
Arrives == []<>(pc = "idle")
=============================================================================
