------------------------------ MODULE Framing ------------------------------
(***************************************************************************)
(* The framing of ISO/IEC 18013-5 messages over GATT, as                   *)
(* src/siros_verifier/ble.py does it: the size of a chunk, the cutting of  *)
(* a message into chunks and the step of the Reassembler.  ble_peripheral  *)
(* uses the same three functions.                                          *)
(*                                                                         *)
(* A chunk is [last, payload]: `last` stands for the prefix byte (0x00     *)
(* last, anything else more), `payload` for the bytes after it.  A message *)
(* is a sequence; what its bytes mean plays no part here.                  *)
(***************************************************************************)
EXTENDS Integers, Sequences

CONSTANTS MIN_CHUNK_SIZE,  \* 20 in the code
          MAX_CHUNK_SIZE   \* 512 in the code

ASSUME ChunkSizeAssumption ==
    /\ MIN_CHUNK_SIZE \in Nat /\ MAX_CHUNK_SIZE \in Nat
    /\ 2 <= MIN_CHUNK_SIZE /\ MIN_CHUNK_SIZE <= MAX_CHUNK_SIZE

Lesser(a, b)  == IF a <= b THEN a ELSE b
Greater(a, b) == IF a >= b THEN a ELSE b

(* A chunk travels in one ATT value: the MTU less the 3-byte ATT header.   *)
UnclampedChunkSize(mtu) == Lesser(mtu - 3, MAX_CHUNK_SIZE)
NegotiateChunkSize(mtu) == Lesser(Greater(mtu - 3, MIN_CHUNK_SIZE), MAX_CHUNK_SIZE)

Chunk(isLast, bytes) == [last |-> isLast, payload |-> bytes]
WireSize(chunk)      == 1 + Len(chunk.payload)

(* What chunk_message returns: equal pieces of size - 1 bytes, the last    *)
(* one shorter, an empty message being one empty chunk.  FramingLoop shows *)
(* that the loop of the code computes this.                                *)
ChunkCount(message, size) ==
    IF message = <<>> THEN 1 ELSE (Len(message) + size - 2) \div (size - 1)

ChunkEnd(message, size, i) == Lesser(i * (size - 1), Len(message))

ChunkMessage(message, size) ==
    [i \in 1..ChunkCount(message, size) |->
        Chunk(ChunkEnd(message, size, i) = Len(message),
              SubSeq(message, (i - 1) * (size - 1) + 1, ChunkEnd(message, size, i)))]

(* Reassembler.feed: the buffer after a chunk, and the message that the    *)
(* chunk completes, if it is the last one.                                 *)
KeepBuffer(buffer, chunk) == buffer \o chunk.payload
FeedBuffer(buffer, chunk) == IF chunk.last THEN <<>> ELSE buffer \o chunk.payload
FeedResult(buffer, chunk) == buffer \o chunk.payload
=============================================================================
