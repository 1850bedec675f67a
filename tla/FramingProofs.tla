--------------------------- MODULE FramingProofs ---------------------------
(* What chunk_message returns, for every message and chunk size (ble.py). *)
EXTENDS Framing, SequenceTheorems, TLAPS

(* A negotiated size is between 2 and the limits (ble.py:41-42).           *)
LEMMA SizeNegotiated ==
    ASSUME NEW mtu \in Nat
    PROVE  /\ NegotiateChunkSize(mtu) \in Nat
           /\ 2 <= NegotiateChunkSize(mtu) /\ NegotiateChunkSize(mtu) <= MAX_CHUNK_SIZE
           /\ NegotiateChunkSize(mtu) <= Greater(mtu - 3, MIN_CHUNK_SIZE)
BY ChunkSizeAssumption DEF NegotiateChunkSize, Lesser, Greater

(* Division that rounds up.                                                *)
LEMMA Ceiling ==
    ASSUME NEW n \in Nat, NEW p \in Nat, n > 0, p > 0
    PROVE  LET q == (n + p - 1) \div p IN
           q \in Nat /\ q >= 1 /\ q * p >= n /\ (q - 1) * p < n
<1> DEFINE a == n + p - 1
           q == a \div p
<1>1. q \in Int /\ p * q <= a /\ a < p * q + p
  BY Z3
<1>2. q >= 1
  BY <1>1
<1>3. q * p = p * q /\ (q - 1) * p = p * q - p
  BY <1>1
<1> QED
  BY <1>1, <1>2, <1>3

(* There is at least one chunk.                                            *)
LEMMA CountOfChunks ==
    ASSUME NEW message \in Seq(Int), NEW size \in Nat, size >= 2
    PROVE  ChunkCount(message, size) \in Nat \ {0}
<1>1. CASE message = <<>>
  BY <1>1 DEF ChunkCount
<1>2. CASE message # <<>>
  <2>1. Len(message) \in Nat /\ Len(message) > 0
    BY <1>2
  <2>2. ((Len(message) + (size - 1) - 1) \div (size - 1)) \in Nat \ {0}
    BY <2>1, Ceiling
  <2> QED
    BY <1>2, <2>1, <2>2 DEF ChunkCount
<1> QED
  BY <1>1, <1>2

(* Cutting a message gives a sequence of chunks.                           *)
LEMMA ChunksTyped ==
    ASSUME NEW message \in Seq(Int), NEW size \in Nat, size >= 2
    PROVE  /\ ChunkMessage(message, size) \in Seq([last : BOOLEAN, payload : Seq(Int)])
           /\ Len(ChunkMessage(message, size)) = ChunkCount(message, size)
<1> DEFINE C == ChunkMessage(message, size)
           n == ChunkCount(message, size)
           T == [last : BOOLEAN, payload : Seq(Int)]
<1>1. n \in Nat
  BY CountOfChunks
<1>2. ASSUME NEW i \in 1..n
      PROVE  C[i] \in T
  <2>1. i * (size - 1) \in Nat /\ (i - 1) * (size - 1) \in Nat
    BY <1>1
  <2>2. ChunkEnd(message, size, i) \in 0..Len(message)
    BY <2>1 DEF ChunkEnd, Lesser
  <2>3. SubSeq(message, (i - 1) * (size - 1) + 1, ChunkEnd(message, size, i)) \in Seq(Int)
    BY <2>1, <2>2
  <2> QED
    BY <2>3 DEF ChunkMessage, Chunk
<1>3. C \in [1..n -> T]
  BY <1>2 DEF ChunkMessage
<1> HIDE DEF C, n, T
<1>4. C \in Seq(T)
  BY <1>1, <1>3, SeqDef
<1>5. Len(C) = n
  BY <1>1, <1>3, <1>4, LenProperties
<1> QED
  BY <1>4, <1>5 DEF C, n, T

(* Only the last chunk of a message is marked so.                          *)
LEMMA LastOnly ==
    ASSUME NEW message \in Seq(Int), NEW size \in Nat, size >= 2,
           NEW i \in 1..ChunkCount(message, size)
    PROVE  ChunkMessage(message, size)[i].last <=> i = ChunkCount(message, size)
<1> DEFINE n == ChunkCount(message, size)
           l == Len(message)
           p == size - 1
<1>1. n \in Nat \ {0} /\ l \in Nat /\ p \in Nat /\ p > 0 /\ i \in Nat /\ i >= 1 /\ i <= n
  BY CountOfChunks
<1>2. ChunkMessage(message, size)[i].last <=> ChunkEnd(message, size, i) = l
  BY DEF ChunkMessage, Chunk
<1>3. ChunkEnd(message, size, i) = Lesser(i * p, l)
  BY DEF ChunkEnd
<1>4. CASE message = <<>>
  <2>1. n = 1 /\ i = 1 /\ l = 0
    BY <1>1, <1>4 DEF ChunkCount
  <2>2. Lesser(i * p, l) = l
    BY <1>1, <2>1 DEF Lesser
  <2> QED
    BY <1>2, <1>3, <2>1, <2>2
<1>5. CASE message # <<>>
  <2>1. l > 0
    BY <1>5
  <2>2. n = (l + p - 1) \div p
    <3>1. l + size - 2 = l + p - 1
      OBVIOUS
    <3> QED
      BY <1>5, <3>1 DEF ChunkCount
  <2> HIDE DEF n, l, p
  <2>3. n * p >= l /\ (n - 1) * p < l
    BY <1>1, <2>1, <2>2, Ceiling
  <2>4. CASE i = n
    <3>1. Lesser(i * p, l) = l
      BY <1>1, <2>3, <2>4 DEF Lesser
    <3> QED
      BY <1>2, <1>3, <2>4, <3>1 DEF n
  <2>5. CASE i # n
    <3>1. i <= n - 1
      BY <1>1, <2>5
    <3>2. i * p <= (n - 1) * p
      BY <1>1, <3>1
    <3>3. i * p \in Nat /\ (n - 1) * p \in Int
      BY <1>1
    <3>4. Lesser(i * p, l) # l
      <4>1. i * p < l /\ l \in Nat
        BY <1>1, <2>3, <3>2, <3>3
      <4> QED
        BY <3>3, <4>1 DEF Lesser
    <3> QED
      BY <1>2, <1>3, <2>5, <3>4 DEF n
  <2> QED
    BY <2>4, <2>5
<1> QED
  BY <1>4, <1>5

(* Adjacent subsequences make up one.                                      *)
LEMMA SubSeqsMeet ==
    ASSUME NEW s \in Seq(Int), NEW a \in Nat, NEW b \in Nat, a <= b, b <= Len(s)
    PROVE  SubSeq(s, 1, a) \o SubSeq(s, a + 1, b) = SubSeq(s, 1, b)
<1>1. 1 \in 1..(Len(s) + 1) /\ a \in (1 - 1)..Len(s) /\ b \in a..Len(s)
  OBVIOUS
<1> QED
  BY <1>1, ConcatAdjacentSubSeq

(* A chunk adds to the beginning of a message what comes next of it, and   *)
(* the last chunk makes it whole.                                          *)
LEMMA ChunksMeet ==
    ASSUME NEW message \in Seq(Int), NEW size \in Nat, size >= 2,
           NEW k \in Nat, k < ChunkCount(message, size)
    PROVE  LET added == SubSeq(message, 1, ChunkEnd(message, size, k))
                        \o ChunkMessage(message, size)[k + 1].payload
           IN  /\ added = SubSeq(message, 1, ChunkEnd(message, size, k + 1))
               /\ k + 1 = ChunkCount(message, size) => added = message
<1> DEFINE n == ChunkCount(message, size)
           l == Len(message)
           p == size - 1
           a == ChunkEnd(message, size, k)
           b == ChunkEnd(message, size, k + 1)
<1>1. n \in Nat \ {0} /\ l \in Nat /\ p \in Nat /\ p > 0 /\ k + 1 \in 1..n
  BY CountOfChunks
<1>2. k * p \in Nat /\ (k + 1) * p \in Nat /\ k * p <= (k + 1) * p
  <2>1. k \in Nat /\ p \in Nat
    BY <1>1
  <2> HIDE DEF p
  <2>2. k * p \in Nat /\ (k + 1) * p = k * p + p
    BY <2>1
  <2> QED
    BY <2>1, <2>2
<1>3. a = Lesser(k * p, l) /\ b = Lesser((k + 1) * p, l)
  BY DEF ChunkEnd
<1>4. a \in Nat /\ b \in Nat /\ a <= b /\ b <= l
  BY <1>1, <1>2, <1>3 DEF Lesser
<1>5. a = k * p
  <2>1. CASE k = 0
    BY <1>1, <1>3, <2>1 DEF Lesser
  <2>2. CASE k # 0
    <3>1. k \in 1..n /\ k # n
      BY <1>1, <2>2
    <3>2. ~ChunkMessage(message, size)[k].last
      BY <3>1, LastOnly
    <3>3. ChunkMessage(message, size)[k].last <=> a = l
      BY <3>1 DEF ChunkMessage, Chunk
    <3> QED
      BY <1>3, <3>2, <3>3 DEF Lesser
  <2> QED
    BY <2>1, <2>2
<1>6. ChunkMessage(message, size)[k + 1].payload = SubSeq(message, a + 1, b)
  <2>1. ChunkMessage(message, size)[k + 1].payload
            = SubSeq(message, ((k + 1) - 1) * (size - 1) + 1, ChunkEnd(message, size, k + 1))
    BY <1>1 DEF ChunkMessage, Chunk
  <2>2. (k + 1) - 1 = k
    OBVIOUS
  <2> QED
    BY <1>5, <2>1, <2>2
<1>7. SubSeq(message, 1, a) \o SubSeq(message, a + 1, b) = SubSeq(message, 1, b)
  BY <1>4, SubSeqsMeet
<1>8. k + 1 = n => b = l
  <2>1. ChunkMessage(message, size)[k + 1].last <=> k + 1 = n
    BY <1>1, LastOnly
  <2>2. ChunkMessage(message, size)[k + 1].last <=> b = l
    BY <1>1 DEF ChunkMessage, Chunk
  <2> QED
    BY <2>1, <2>2
<1>9. SubSeq(message, 1, l) = message
  BY SubSeqFull
<1> QED
  BY <1>6, <1>7, <1>8, <1>9
=============================================================================
