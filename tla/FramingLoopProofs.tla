------------------------- MODULE FramingLoopProofs -------------------------
(***************************************************************************)
(* chunk_message and the Reassembler, for messages of every length and     *)
(* every MTU: the chunks fit, the loop computes the closed form, and what  *)
(* is reassembled is what was sent.  And what the mdoc puts together of    *)
(* the chunks that a fuzz scenario writes is never the whole.              *)
(***************************************************************************)
EXTENDS FramingLoop, FramingProofs

ChunkT == [last : BOOLEAN, payload : Seq(Int)]

(* Where chunk i ends, if the message goes so far, and where it does end; *)
(* the chunk after the first k.                                            *)
At(i)    == i * payloadSize
End(i)   == Lesser(At(i), Len(message))
Piece(k) == Chunk(End(k + 1) = Len(message), SubSeq(message, At(k) + 1, End(k + 1)))

(* How far the loop has cut the message.                                   *)
Cut ==
    /\ offset = End(Len(chunks))
    /\ \A k \in 0..(Len(chunks) - 1) :
            chunks[k + 1] = Piece(k) /\ (k = 0 \/ At(k) < Len(message))
    /\ pc = "loop" => message # <<>>
    /\ pc = "write" => chunks # <<>> /\ offset = Len(message)

(* How far the Reassembler has put it together again.                      *)
Fed ==
    /\ pc # "rejected"
    /\ pc = "idle" => delivered = sent /\ buffer = <<>>
    /\ pc \in {"loop", "write"} => sent # <<>> /\ message \in Messages /\ message = sent[Len(sent)]
    /\ pc = "loop" => fed = 0
    /\ pc = "loop" \/ (pc = "write" /\ fed < Len(chunks)) =>
        /\ delivered = SubSeq(sent, 1, Len(sent) - 1)
        /\ buffer = SubSeq(message, 1, End(fed))
    /\ pc = "write" /\ fed = Len(chunks) => delivered = sent /\ buffer = <<>>

IInv == TypeOK /\ Cut /\ Fed
-----------------------------------------------------------------------------
(* A negotiated size leaves room for a payload (ble.py:41-50).             *)
LEMMA Sizes ==
    ASSUME TypeOK
    PROVE  /\ chunkSize \in Nat /\ chunkSize >= 2 /\ payloadSize \in Nat /\ payloadSize >= 1
           /\ payloadSize = chunkSize - 1
           /\ chunkSize <= MAX_CHUNK_SIZE /\ chunkSize <= Greater(mtu - 3, MIN_CHUNK_SIZE)
           /\ message \in Seq(Int) /\ Len(message) \in Nat
<1>1. mtu \in Nat
  BY FramingLoopAssumption DEF TypeOK
<1>2. message \in Seq(Int)
  <2>1. CASE message = <<>>
    BY <2>1
  <2>2. CASE message \in Messages
    BY <2>2, FramingLoopAssumption
  <2> QED
    BY <2>1, <2>2 DEF TypeOK
<1>3. chunkSize \in Nat /\ 2 <= chunkSize /\ chunkSize <= MAX_CHUNK_SIZE
      /\ chunkSize <= Greater(mtu - 3, MIN_CHUNK_SIZE)
  BY <1>1, SizeNegotiated DEF chunkSize
<1> QED
  BY <1>2, <1>3 DEF payloadSize

(* Consecutive pieces meet.                                                *)
LEMMA Ends ==
    ASSUME TypeOK, NEW i \in Nat
    PROVE  /\ At(i) \in Nat /\ At(0) = 0
           /\ At(i + 1) = At(i) + payloadSize /\ At(i + 1) \in Nat
           /\ End(i) \in Nat /\ End(i) <= Len(message) /\ End(i) <= At(i)
           /\ End(i) = At(i) \/ End(i) = Len(message)
           /\ End(i) <= End(i + 1)
<1>1. payloadSize \in Nat /\ Len(message) \in Nat
  BY Sizes
<1>2. At(0) = 0 /\ At(i) \in Nat /\ At(i + 1) = At(i) + payloadSize
  BY <1>1 DEF At
<1> QED
  BY <1>1, <1>2 DEF End, Lesser

(* A piece of a message is a chunk.                                        *)
LEMMA PieceIsChunk ==
    ASSUME TypeOK, NEW k \in Nat
    PROVE  Piece(k) \in ChunkT
<1>1. At(k) \in Nat /\ k + 1 \in Nat
  BY Ends
<1>2. End(k + 1) \in Nat /\ End(k + 1) <= Len(message)
  BY <1>1, Ends
<1>3. message \in Seq(Int)
  BY Sizes
<1>4. SubSeq(message, At(k) + 1, End(k + 1)) \in Seq(Int)
  BY <1>1, <1>2, <1>3
<1> QED
  BY <1>4 DEF Piece, Chunk, ChunkT

(* The parts of a piece.                                                   *)
LEMMA PieceFields ==
    ASSUME NEW k \in Nat
    PROVE  /\ Piece(k).payload = SubSeq(message, At(k) + 1, End(k + 1))
           /\ Piece(k).last <=> End(k + 1) = Len(message)
BY DEF Piece, Chunk

(* The length of a subsequence.                                            *)
LEMMA SubSeqLength ==
    ASSUME NEW s \in Seq(Int), NEW a \in Nat, NEW b \in Nat, a <= b, b <= Len(s)
    PROVE  Len(SubSeq(s, a + 1, b)) = b - a
OBVIOUS

(* A sequence is its front with its last element appended.                 *)
LEMMA ButLast ==
    ASSUME NEW S, NEW s \in Seq(S), s # <<>>
    PROVE  Append(SubSeq(s, 1, Len(s) - 1), s[Len(s)]) = s
<1> DEFINE l == Len(s)
           b == SubSeq(s, 1, l - 1)
           r == Append(b, s[l])
<1>1. l \in Nat /\ l # 0 /\ l = Len(s)
  OBVIOUS
<1>2. \A i \in 1..l : s[i] \in S
  OBVIOUS
<1> HIDE DEF l
<1>3. l - 1 \in Int /\ l - 1 >= 0 /\ \A i \in 1..(l - 1) : s[i] \in S
  BY <1>1, <1>2
<1>4. b \in Seq(S)
  BY <1>3, SubSeqProperties
<1>5. Len(b) = IF 1 <= l - 1 THEN l - 1 - 1 + 1 ELSE 0
  BY <1>3, SubSeqProperties
<1>6. \A i \in 1..(l - 1 - 1 + 1) : b[i] = s[1 + i - 1]
  BY <1>3, SubSeqProperties
<1> HIDE DEF b
<1>7. Len(b) = l - 1
  BY <1>1, <1>5
<1>8. ASSUME NEW i \in 1..(l - 1) PROVE b[i] = s[i]
  <2>1. i \in 1..(l - 1 - 1 + 1) /\ 1 + i - 1 = i
    BY <1>1
  <2> QED
    BY <1>6, <2>1
<1>9. s[l] \in S
  BY <1>1, <1>2
<1>10. r \in Seq(S) /\ Len(r) = l /\ r[l] = s[l] /\ \A i \in 1..(l - 1) : r[i] = b[i]
  BY <1>1, <1>4, <1>7, <1>9
<1>11. \A i \in 1..Len(r) : r[i] = s[i]
  BY <1>1, <1>8, <1>10
<1> HIDE DEF r
<1> QED
  BY <1>1, <1>10, <1>11, SeqEqual DEF r, b, l

(* The invariant holds initially.                                          *)
LEMMA InitIInv == Init => IInv
<1> SUFFICES ASSUME Init PROVE IInv
  OBVIOUS
<1>1. TypeOK
  BY DEF Init, TypeOK
<1>2. End(0) = 0
  <2>1. At(0) = 0 /\ message = <<>>
    BY <1>1, Ends DEF Init
  <2> QED
    BY <2>1 DEF End, Lesser
<1>3. Cut /\ Fed
  BY <1>2 DEF Init, Cut, Fed
<1> QED
  BY <1>1, <1>3 DEF IInv

(* Begin preserves the invariant.                                          *)
LEMMA BeginIInv == \A m \in Messages : IInv /\ Begin(m) => IInv'
<1> SUFFICES ASSUME NEW m \in Messages, IInv, Begin(m) PROVE IInv'
  OBVIOUS
<1>1. /\ message' = m /\ offset' = 0 /\ fed' = 0 /\ mtu' = mtu /\ sent' = Append(sent, m)
      /\ buffer' = buffer /\ delivered' = delivered /\ pc = "idle"
  BY DEF Begin, StartOffset
<1>2. chunkSize >= 2 /\ chunkSize \in Nat
  BY Sizes DEF IInv
<1>3. m \in Seq(Int) /\ Len(m) \in Nat
  BY FramingLoopAssumption
<1> DEFINE only == Chunk(TRUE, <<>>)
<1>t. only \in ChunkT
  BY DEF Chunk, ChunkT
<1>e. ASSUME m = <<>>
      PROVE  pc' = "write" /\ chunks' = <<only>>
  <2>1. chunkSize > 1 /\ ~(chunkSize <= 1)
    BY <1>2
  <2> QED
    BY <1>e, <2>1 DEF Begin
<1>n. ASSUME m # <<>>
      PROVE  pc' = "loop" /\ chunks' = <<>>
  <2>1. ~(chunkSize <= 1)
    BY <1>2
  <2> QED
    BY <1>n, <2>1 DEF Begin
<1> HIDE DEF only
<1>4. /\ m = <<>> => pc' = "write" /\ chunks' = <<only>> /\ Len(chunks') = 1 /\ chunks'[1] = only
      /\ m # <<>> => pc' = "loop" /\ chunks' = <<>> /\ Len(chunks') = 0
  BY <1>e, <1>n
<1>5. chunks' \in Seq(ChunkT)
  <2>1. <<only>> \in Seq(ChunkT) /\ <<>> \in Seq(ChunkT)
    BY <1>t
  <2>2. chunks' = <<only>> \/ chunks' = <<>>
    BY <1>4
  <2> QED
    BY <2>1, <2>2
<1>6. sent \in Seq(Messages) /\ buffer = <<>> /\ delivered = sent /\ delivered \in Seq(Seq(Int))
      /\ mtu \in Mtus
  BY <1>1 DEF IInv, TypeOK, Fed
<1>7. sent' \in Seq(Messages) /\ Len(sent') = Len(sent) + 1 /\ sent'[Len(sent')] = m
      /\ SubSeq(sent', 1, Len(sent') - 1) = sent /\ sent' # <<>>
  <2>1. sent' \in Seq(Messages) /\ Len(sent') = Len(sent) + 1 /\ sent'[Len(sent')] = m
        /\ Len(sent) \in Nat
    BY <1>1, <1>6
  <2>2. SubSeq(sent', 1, Len(sent)) = sent
    BY <1>1, <1>6
  <2> QED
    BY <2>1, <2>2
<1>8. TypeOK'
  <2>1. message' \in Messages \cup {<<>>} /\ offset' \in 0..Len(message') /\ mtu' \in Mtus
    BY <1>1, <1>3, <1>6
  <2>2. fed' \in 0..Len(chunks') /\ pc' \in {"idle", "loop", "write", "rejected"}
    BY <1>1, <1>4, <1>5
  <2>3. buffer' \in Seq(Int) /\ delivered' \in Seq(Seq(Int))
    BY <1>1, <1>6
  <2> QED
    BY <1>5, <1>7, <2>1, <2>2, <2>3 DEF TypeOK, ChunkT
<1>9. At(0)' = 0 /\ End(0)' = 0 /\ End(1)' <= Len(m) /\ End(1)' \in Nat
  <2>1. payloadSize' \in Nat /\ payloadSize' = payloadSize
    BY <1>1, <1>2 DEF payloadSize, chunkSize
  <2> QED
    BY <1>1, <1>3, <2>1 DEF At, End, Lesser
<1>10. Cut'
  <2>1. CASE m = <<>>
    <3>1. Len(m) = 0 /\ Len(chunks') = 1 /\ chunks'[1] = only /\ chunks' # <<>> /\ pc' = "write"
      BY <1>4, <2>1
    <3>2. End(1)' = 0
      BY <1>9, <3>1
    <3>3. Piece(0)' = only
      <4>1. Piece(0)' = Chunk(End(1)' = Len(m), SubSeq(m, At(0)' + 1, End(1)'))
        BY <1>1 DEF Piece, Chunk
      <4>2. SubSeq(m, 1, 0) = <<>>
        BY <1>3
      <4>3. Piece(0)' = Chunk(TRUE, SubSeq(m, 1, 0))
        <5>1. At(0)' + 1 = 1 /\ End(1)' = 0 /\ (End(1)' = Len(m)) = TRUE
          BY <1>9, <3>1, <3>2
        <5> QED
          BY <4>1, <5>1, Zenon DEF Chunk
      <4> QED
        BY <4>2, <4>3 DEF only
    <3>4. offset' = End(Len(chunks))' /\ offset' = Len(message')
      <4>1. End(Len(chunks))' = End(1)'
        BY <3>1 DEF End, At
      <4> QED
        BY <1>1, <3>1, <3>2, <4>1
    <3>5. \A k \in 0..(Len(chunks') - 1) : k = 0
      BY <3>1
    <3> QED
      BY <3>1, <3>3, <3>4, <3>5 DEF Cut
  <2>2. CASE m # <<>>
    <3>1. chunks' = <<>> /\ pc' = "loop" /\ Len(chunks') = 0
      BY <1>4, <2>2
    <3>2. End(Len(chunks))' = End(0)'
      BY <3>1 DEF End, At
    <3> QED
      BY <1>1, <1>9, <2>2, <3>1, <3>2 DEF Cut
  <2> QED
    BY <2>1, <2>2
<1>11. Fed'
  <2>1. SubSeq(m, 1, 0) = <<>>
    BY <1>3
  <2>2. buffer' = SubSeq(message', 1, End(fed)')
    <3>1. End(fed)' = 0
      BY <1>1, <1>9 DEF End, At
    <3> QED
      BY <1>1, <1>6, <2>1, <3>1
  <2>3. delivered' = SubSeq(sent', 1, Len(sent') - 1) /\ message' \in Messages
        /\ message' = sent'[Len(sent')]
    BY <1>1, <1>6, <1>7
  <2>4. ~(pc' = "write" /\ fed' = Len(chunks')) /\ pc' \in {"loop", "write"}
    BY <1>1, <1>4
  <2> QED
    BY <1>1, <1>7, <2>2, <2>3, <2>4 DEF Fed
<1> QED
  BY <1>8, <1>10, <1>11 DEF IInv

(* CutChunk preserves the invariant.                                       *)
LEMMA CutChunkIInv == IInv /\ CutChunk => IInv'
<1> SUFFICES ASSUME IInv, CutChunk PROVE IInv'
  OBVIOUS
<1> DEFINE n == Len(chunks)
<1>1. /\ pc' = pc /\ mtu' = mtu /\ message' = message /\ fed' = fed /\ buffer' = buffer
      /\ delivered' = delivered /\ sent' = sent /\ pc = "loop" /\ offset < Len(message)
      /\ offset' = PieceEnd
  BY DEF CutChunk
<1>2. payloadSize \in Nat /\ payloadSize >= 1 /\ Len(message) \in Nat /\ message \in Seq(Int)
      /\ message # <<>>
  BY <1>1, Sizes DEF IInv, Cut
<1>3. n \in Nat /\ chunks \in Seq(ChunkT) /\ offset = End(n)
  BY DEF IInv, TypeOK, Cut, ChunkT
<1>4. /\ At(n) \in Nat /\ At(n + 1) = At(n) + payloadSize
      /\ End(n) = At(n) \/ End(n) = Len(message)
  BY <1>3, Ends DEF IInv
<1>5. offset = At(n)
  BY <1>1, <1>3, <1>4
<1>6. PieceEnd = End(n + 1)
  BY <1>4, <1>5 DEF PieceEnd, End
<1>7. End(n + 1) \in Nat /\ End(n + 1) <= Len(message)
  BY <1>3, Ends DEF IInv
<1>8. chunks' = Append(chunks, Piece(n))
  BY <1>5, <1>6 DEF CutChunk, Piece, IsLast
<1>9. Piece(n) \in ChunkT
  BY <1>3, PieceIsChunk DEF IInv
<1>10. chunks' \in Seq(ChunkT) /\ Len(chunks') = n + 1 /\ chunks'[n + 1] = Piece(n)
       /\ \A k \in 0..(n - 1) : chunks'[k + 1] = chunks[k + 1]
  BY <1>3, <1>8, <1>9
<1>11. TypeOK'
  <2>1. offset' \in 0..Len(message') /\ message' \in Messages \cup {<<>>}
    BY <1>1, <1>2, <1>6, <1>7 DEF IInv, TypeOK
  <2>2. fed' \in 0..Len(chunks')
    BY <1>1, <1>3, <1>10 DEF IInv, TypeOK
  <2> QED
    BY <1>1, <1>10, <2>1, <2>2 DEF IInv, TypeOK, ChunkT
<1>12. \A i : At(i)' = At(i) /\ End(i)' = End(i)
  BY <1>1 DEF At, End, Lesser, payloadSize, chunkSize
<1>13. \A k : Piece(k)' = Piece(k)
  BY <1>1, <1>12 DEF Piece, Chunk
<1>14. ASSUME NEW k \in 0..n
       PROVE  chunks'[k + 1] = Piece(k) /\ (k = 0 \/ At(k) < Len(message))
  <2>1. CASE k = n
    BY <1>1, <1>5, <1>10, <2>1
  <2>2. CASE k \in 0..(n - 1)
    BY <1>10, <2>2 DEF IInv, Cut
  <2> QED
    BY <1>3, <2>1, <2>2
<1>15. Cut'
  <2>1. offset' = End(Len(chunks))'
    <3>1. payloadSize' = payloadSize
      BY <1>1 DEF payloadSize, chunkSize
    <3>2. offset' = End(n + 1)
      BY <1>1, <1>6
    <3>3. End(Len(chunks))' = Lesser((n + 1) * payloadSize, Len(message))
      BY <1>1, <1>10, <3>1 DEF End, At
    <3> QED
      BY <3>2, <3>3 DEF End, At
  <2>2. \A k \in 0..(Len(chunks') - 1) :
            chunks'[k + 1] = Piece(k)' /\ (k = 0 \/ At(k)' < Len(message'))
    <3>1. ASSUME NEW k \in 0..(Len(chunks') - 1)
          PROVE  chunks'[k + 1] = Piece(k) /\ (k = 0 \/ At(k) < Len(message))
      <4>1. k \in 0..n
        BY <1>3, <1>10
      <4> QED
        BY <1>14, <4>1
    <3> QED
      BY <1>1, <1>12, <1>13, <3>1
  <2>3. (pc = "loop" => message # <<>>)' /\ (pc = "write" => chunks # <<>> /\ offset = Len(message))'
    BY <1>1, <1>2
  <2> QED
    BY <2>1, <2>2, <2>3 DEF Cut
<1>16. Fed'
  BY <1>1, <1>12 DEF IInv, Fed
<1> QED
  BY <1>11, <1>15, <1>16 DEF IInv

(* LoopExit preserves the invariant.                                       *)
LEMMA LoopExitIInv == IInv /\ LoopExit => IInv'
<1> SUFFICES ASSUME IInv, LoopExit PROVE IInv'
  OBVIOUS
<1>1. /\ pc = "loop" /\ pc' = "write" /\ offset >= Len(message)
      /\ mtu' = mtu /\ message' = message /\ offset' = offset /\ chunks' = chunks
      /\ fed' = fed /\ buffer' = buffer /\ delivered' = delivered /\ sent' = sent
  BY DEF LoopExit
<1>2. offset = Len(message) /\ Len(message) > 0 /\ chunks \in Seq(ChunkT)
  <2>1. message # <<>> /\ message \in Seq(Int) /\ offset \in 0..Len(message)
    BY <1>1, Sizes DEF IInv, Cut, TypeOK
  <2> QED
    BY <1>1, <2>1 DEF IInv, TypeOK, ChunkT
<1>3. chunks # <<>> /\ Len(chunks) # 0
  <2>1. SUFFICES ASSUME Len(chunks) = 0 PROVE FALSE
    BY <1>2
  <2>2. offset = End(0)
    BY <2>1 DEF IInv, Cut
  <2>3. End(0) <= At(0) /\ At(0) = 0 /\ End(0) \in Nat
    BY Ends DEF IInv
  <2> QED
    BY <1>2, <2>2, <2>3
<1>4. TypeOK'
  BY <1>1 DEF IInv, TypeOK
<1>5. \A i : At(i)' = At(i) /\ End(i)' = End(i)
  BY <1>1 DEF At, End, Lesser, payloadSize, chunkSize
<1>6. \A k : Piece(k)' = Piece(k)
  BY <1>1, <1>5 DEF Piece, Chunk
<1>7. Cut'
  BY <1>1, <1>2, <1>3, <1>5, <1>6 DEF IInv, Cut
<1>8. fed = 0 /\ fed' # Len(chunks')
  BY <1>1, <1>3 DEF IInv, Fed
<1>9. Fed'
  BY <1>1, <1>5, <1>8 DEF IInv, Fed
<1> QED
  BY <1>4, <1>7, <1>9 DEF IInv

(* Feed preserves the invariant.                                           *)
LEMMA FeedIInv == IInv /\ Feed => IInv'
<1> SUFFICES ASSUME IInv, Feed PROVE IInv'
  OBVIOUS
<1> DEFINE n == Len(chunks)
           c == chunks[fed + 1]
           whole == buffer \o c.payload
<1>1. /\ pc = "write" /\ pc' = pc /\ mtu' = mtu /\ message' = message /\ offset' = offset
      /\ chunks' = chunks /\ sent' = sent /\ fed' = fed + 1 /\ fed < n
  BY DEF Feed
<1>2. fed \in Nat /\ n \in Nat /\ fed \in 0..(n - 1) /\ chunks \in Seq(ChunkT)
  BY <1>1 DEF IInv, TypeOK, ChunkT
<1>3. /\ buffer' = IF c.last THEN <<>> ELSE whole
      /\ delivered' = IF c.last THEN Append(delivered, whole) ELSE delivered
  BY DEF Feed, FeedBuffer, FeedResult
<1>4. /\ delivered = SubSeq(sent, 1, Len(sent) - 1) /\ buffer = SubSeq(message, 1, End(fed))
      /\ sent # <<>> /\ message = sent[Len(sent)] /\ message \in Messages
      /\ sent \in Seq(Messages) /\ delivered \in Seq(Seq(Int))
  BY <1>1 DEF IInv, Fed, TypeOK
<1>5. message \in Seq(Int) /\ Len(message) \in Nat /\ payloadSize \in Nat /\ payloadSize >= 1
  BY Sizes DEF IInv
<1>6. c = Piece(fed) /\ (fed = 0 \/ At(fed) < Len(message)) /\ offset = Len(message)
      /\ offset = End(n)
  BY <1>1, <1>2 DEF IInv, Cut
<1>7. /\ End(fed) \in Nat /\ End(fed) <= End(fed + 1) /\ At(fed) \in Nat /\ At(0) = 0
      /\ End(fed) = At(fed) \/ End(fed) = Len(message)
      /\ End(fed) <= At(fed)
  BY <1>2, Ends DEF IInv
<1>8. End(fed + 1) \in Nat /\ End(fed + 1) <= Len(message)
      /\ (End(fed + 1) = At(fed + 1) \/ End(fed + 1) = Len(message))
      /\ End(fed + 1) <= At(fed + 1) /\ At(fed + 1) \in Nat
  BY <1>2, Ends DEF IInv
<1>9. c.payload = SubSeq(message, At(fed) + 1, End(fed + 1))
  BY <1>2, <1>6, PieceFields
<1>l. c.last <=> End(fed + 1) = Len(message)
  BY <1>2, <1>6, PieceFields
<1> HIDE DEF c, whole
<1>10. End(fed) = At(fed)
  BY <1>5, <1>6, <1>7
<1>11. whole = SubSeq(message, 1, End(fed + 1))
  <2>1. End(fed) <= End(fed + 1) /\ c.payload = SubSeq(message, End(fed) + 1, End(fed + 1))
    BY <1>7, <1>9, <1>10
  <2>2. SubSeq(message, 1, End(fed)) \o SubSeq(message, End(fed) + 1, End(fed + 1))
            = SubSeq(message, 1, End(fed + 1))
    BY <1>5, <1>7, <1>8, <2>1, SubSeqsMeet
  <2> QED
    BY <1>4, <2>1, <2>2 DEF whole
<1>12. fed + 1 = n => End(fed + 1) = Len(message)
  BY <1>6
<1>13. ASSUME fed + 1 # n PROVE End(fed + 1) # Len(message)
  <2>1. fed + 1 \in 0..(n - 1) /\ fed + 1 # 0
    BY <1>1, <1>2, <1>13
  <2>2. At(fed + 1) < Len(message)
    BY <2>1 DEF IInv, Cut
  <2> QED
    BY <1>5, <1>8, <2>2
<1>14. c.last <=> fed + 1 = n
  BY <1>l, <1>12, <1>13
<1>15. whole \in Seq(Int)
  BY <1>5, <1>8, <1>11
<1>16. fed + 1 = n => whole = message
  BY <1>5, <1>11, <1>12, SubSeqFull
<1>17. Append(SubSeq(sent, 1, Len(sent) - 1), message) = sent
  BY <1>4, ButLast
<1>18. TypeOK'
  <2>1. buffer' \in Seq(Int)
    BY <1>3, <1>15
  <2>2. delivered' \in Seq(Seq(Int))
    BY <1>3, <1>4, <1>15
  <2>3. fed' \in 0..Len(chunks')
    BY <1>1, <1>2
  <2> QED
    BY <1>1, <2>1, <2>2, <2>3 DEF IInv, TypeOK
<1>19. \A i : At(i)' = At(i) /\ End(i)' = End(i)
  BY <1>1 DEF At, End, Lesser, payloadSize, chunkSize
<1>20. \A k : Piece(k)' = Piece(k)
  BY <1>1, <1>19 DEF Piece, Chunk
<1>21. Cut'
  BY <1>1, <1>19, <1>20 DEF IInv, Cut
<1>22. Fed'
  <2>1. CASE fed + 1 = n
    <3>1. buffer' = <<>> /\ delivered' = sent
      BY <1>3, <1>4, <1>14, <1>16, <1>17, <2>1
    <3>2. fed' = Len(chunks')
      BY <1>1, <2>1
    <3> QED
      BY <1>1, <1>2, <1>4, <3>1, <3>2 DEF Fed
  <2>2. CASE fed + 1 # n
    <3>1. buffer' = SubSeq(message, 1, End(fed + 1)) /\ delivered' = delivered
      BY <1>3, <1>11, <1>14, <2>2
    <3>2. fed' # Len(chunks')
      BY <1>1, <2>2
    <3>3. End(fed)' = End(fed + 1)
      <4>1. payloadSize' = payloadSize
        BY <1>1 DEF payloadSize, chunkSize
      <4> QED
        BY <1>1, <4>1 DEF End, At
    <3> QED
      BY <1>1, <1>4, <3>1, <3>2, <3>3 DEF Fed
  <2> QED
    BY <2>1, <2>2
<1> QED
  BY <1>18, <1>21, <1>22 DEF IInv

(* Finish preserves the invariant.                                         *)
LEMMA FinishIInv == IInv /\ Finish => IInv'
<1> SUFFICES ASSUME IInv, Finish PROVE IInv'
  OBVIOUS
<1> USE DEF Finish
<1>1. TypeOK'
  BY DEF IInv, TypeOK
<1>2. \A i : At(i)' = At(i) /\ End(i)' = End(i)
  BY DEF At, End, Lesser, payloadSize, chunkSize
<1>3. \A k : Piece(k)' = Piece(k)
  BY <1>2 DEF Piece, Chunk
<1>4. Cut'
  BY <1>2, <1>3 DEF IInv, Cut
<1>5. Fed'
  BY DEF IInv, Fed
<1> QED
  BY <1>1, <1>4, <1>5 DEF IInv

(* A step that changes nothing preserves the invariant.                    *)
LEMMA StutterIInv == IInv /\ UNCHANGED vars => IInv'
<1> SUFFICES ASSUME IInv, UNCHANGED vars PROVE IInv'
  OBVIOUS
<1>1. \A i : At(i)' = At(i) /\ End(i)' = End(i)
  BY DEF vars, At, End, Lesser, payloadSize, chunkSize
<1>2. \A k : Piece(k)' = Piece(k)
  BY <1>1 DEF vars, Piece, Chunk
<1>3. TypeOK'
  BY DEF IInv, vars, TypeOK
<1>4. Cut'
  BY <1>1, <1>2 DEF IInv, vars, Cut
<1>5. Fed'
  BY <1>1 DEF IInv, vars, Fed
<1> QED
  BY <1>3, <1>4, <1>5 DEF IInv

(* The invariant holds while any messages are cut and fed (ble.py:45-77).  *)
THEOREM Inductive == Spec => []IInv
<1>1. IInv /\ [Next]_vars => IInv'
  BY BeginIInv, CutChunkIInv, LoopExitIInv, FeedIInv, FinishIInv, StutterIInv DEF Next
<1> QED
  BY InitIInv, <1>1, PTL DEF Spec
-----------------------------------------------------------------------------
(* The variables keep their types: the offset stays inside the message.    *)
THEOREM TypeCorrect == Spec => []TypeOK
<1>1. IInv => TypeOK
  BY DEF IInv
<1> QED
  BY <1>1, Inductive, PTL

(* Every message arrives whole and in order at the other end, and leaves   *)
(* nothing behind for the next (ble.py:45-77).                             *)
THEOREM RoundTripHolds == Spec => []RoundTrip
<1>1. IInv => RoundTrip
  <2> SUFFICES ASSUME IInv PROVE RoundTrip
    OBVIOUS
  <2>1. pc \in {"idle", "loop", "write", "rejected"} /\ fed \in 0..Len(chunks)
    BY DEF IInv, TypeOK
  <2>2. pc # "rejected" /\ (pc = "loop" => fed = 0)
    BY DEF IInv, Fed
  <2>3. pc = "idle" => delivered = sent /\ buffer = <<>>
    BY DEF IInv, Fed
  <2>4. CASE pc \in {"loop", "write"}
    <3>1. sent # <<>>
      BY <2>4 DEF IInv, Fed
    <3>2. delivered = sent \/ delivered = SubSeq(sent, 1, Len(sent) - 1)
      BY <2>1, <2>4 DEF IInv, Fed
    <3> QED
      BY <2>3, <3>1, <3>2 DEF RoundTrip
  <2> QED
    BY <2>1, <2>2, <2>3, <2>4 DEF RoundTrip
<1> QED
  BY <1>1, Inductive, PTL

(* Every chunk fits the negotiated value (ble.py:41-59).                   *)
THEOREM ChunksAlwaysFit == Spec => []ChunksFit
<1>1. IInv => ChunksFit
  <2> SUFFICES ASSUME IInv, NEW i \in DOMAIN chunks
               PROVE  /\ WireSize(chunks[i]) <= Greater(mtu - 3, MIN_CHUNK_SIZE)
                      /\ WireSize(chunks[i]) <= MAX_CHUNK_SIZE
                      /\ message # <<>> => chunks[i].payload # <<>>
    BY DEF ChunksFit
  <2>1. /\ chunkSize \in Nat /\ chunkSize >= 2 /\ payloadSize = chunkSize - 1
        /\ chunkSize <= MAX_CHUNK_SIZE /\ chunkSize <= Greater(mtu - 3, MIN_CHUNK_SIZE)
        /\ message \in Seq(Int) /\ Len(message) \in Nat /\ i \in 1..Len(chunks) /\ Len(chunks) \in Nat
        /\ MAX_CHUNK_SIZE \in Nat /\ Greater(mtu - 3, MIN_CHUNK_SIZE) \in Int
    <3>1. TypeOK
      BY DEF IInv
    <3>2. i \in 1..Len(chunks) /\ Len(chunks) \in Nat
      BY <3>1 DEF TypeOK
    <3>3. mtu \in Nat
      BY <3>1, FramingLoopAssumption DEF TypeOK
    <3>4. MAX_CHUNK_SIZE \in Nat /\ Greater(mtu - 3, MIN_CHUNK_SIZE) \in Int
      BY <3>3, ChunkSizeAssumption DEF Greater
    <3> QED
      BY <3>1, <3>2, <3>4, Sizes
  <2> DEFINE k == i - 1
  <2>2. k \in 0..(Len(chunks) - 1) /\ i = k + 1 /\ k \in Nat
    BY <2>1
  <2>3. chunks[i] = Piece(k) /\ (k = 0 \/ At(k) < Len(message))
    BY <2>2 DEF IInv, Cut
  <2>4. /\ At(k) \in Nat /\ At(0) = 0 /\ At(k + 1) = At(k) + payloadSize
        /\ End(k + 1) = At(k + 1) \/ End(k + 1) = Len(message)
        /\ End(k + 1) <= At(k + 1) /\ End(k + 1) <= Len(message) /\ End(k + 1) \in Nat
    <3> HIDE DEF k
    <3>1. TypeOK /\ k \in Nat /\ k + 1 \in Nat
      BY <2>2 DEF IInv
    <3>2. At(k) \in Nat /\ At(0) = 0 /\ At(k + 1) = At(k) + payloadSize
      BY <3>1, Ends
    <3>3. /\ End(k + 1) = At(k + 1) \/ End(k + 1) = Len(message)
          /\ End(k + 1) <= At(k + 1) /\ End(k + 1) <= Len(message) /\ End(k + 1) \in Nat
      BY <3>1, Ends
    <3> QED
      BY <3>2, <3>3
  <2> HIDE DEF k
  <2>5. At(k) <= Len(message)
    <3>1. Len(message) \in Nat
      BY <2>1
    <3>2. At(k) \in Nat /\ (k = 0 => At(k) = 0)
      BY <2>4
    <3> QED
      BY <2>3, <3>1, <3>2
  <2>6. chunks[i].payload = SubSeq(message, At(k) + 1, End(k + 1))
    BY <2>2, <2>3, PieceFields
  <2>7. Len(chunks[i].payload) = End(k + 1) - At(k) /\ End(k + 1) - At(k) \in Nat
    <3>1. At(k) <= End(k + 1)
      <4>1. payloadSize \in Nat /\ At(k) \in Nat
        BY <2>1, <2>4
      <4>2. End(k + 1) = At(k) + payloadSize \/ End(k + 1) = Len(message)
        BY <2>4
      <4> QED
        BY <2>5, <4>1, <4>2
    <3>2. message \in Seq(Int) /\ At(k) \in Nat /\ End(k + 1) \in Nat /\ End(k + 1) <= Len(message)
      BY <2>1, <2>4
    <3>3. Len(SubSeq(message, At(k) + 1, End(k + 1))) = End(k + 1) - At(k)
      BY <3>1, <3>2, SubSeqLength
    <3> QED
      BY <2>6, <3>1, <3>2, <3>3
  <2>8. WireSize(chunks[i]) <= chunkSize
    <3>1. End(k + 1) - At(k) <= payloadSize
      <4>1. At(k) \in Nat /\ End(k + 1) \in Nat /\ payloadSize \in Int
        BY <2>1, <2>4
      <4>2. End(k + 1) <= At(k) + payloadSize
        BY <2>4
      <4> QED
        BY <4>1, <4>2
    <3>2. payloadSize = chunkSize - 1 /\ chunkSize \in Nat
      BY <2>1
    <3> QED
      BY <2>7, <3>1, <3>2 DEF WireSize
  <2>9. ASSUME message # <<>> PROVE chunks[i].payload # <<>>
    <3>1. Len(message) > 0
      BY <2>1, <2>9
    <3>2. End(k + 1) - At(k) > 0
      <4>1. /\ At(k) \in Nat /\ End(k + 1) \in Nat /\ Len(message) \in Nat
            /\ payloadSize \in Int /\ payloadSize > 0
        BY <2>1, <2>4
      <4>2. At(k) < Len(message)
        <5>1. k = 0 => At(k) = 0
          BY <2>4
        <5> QED
          BY <2>3, <3>1, <5>1
      <4>3. End(k + 1) = At(k) + payloadSize \/ End(k + 1) = Len(message)
        BY <2>4
      <4> QED
        BY <4>1, <4>2, <4>3
    <3> QED
      BY <2>7, <3>2
  <2>10. WireSize(chunks[i]) \in Int
    BY <2>7 DEF WireSize
  <2> QED
    BY <2>1, <2>8, <2>9, <2>10
<1> QED
  BY <1>1, Inductive, PTL

(* There is one count of pieces of p that just covers l.                   *)
LEMMA CeilingUnique ==
    ASSUME NEW a \in Nat, NEW b \in Nat, NEW p \in Nat, NEW l \in Nat,
           a * p >= l, (a - 1) * p < l, b * p >= l, (b - 1) * p < l
    PROVE  a = b
<1>1. ASSUME NEW x \in Nat, NEW y \in Nat, x < y, x * p >= l, (y - 1) * p < l
      PROVE  FALSE
  <2>1. x <= y - 1
    BY <1>1
  <2>2. x * p <= (y - 1) * p
    BY <2>1
  <2> QED
    BY <1>1, <2>2
<1> QED
  BY <1>1

(* The loop of chunk_message computes ChunkMessage (ble.py:53-60).         *)
THEOREM LoopComputesClosedForm == Spec => []LoopIsClosedForm
<1>1. IInv => LoopIsClosedForm
  <2> SUFFICES ASSUME IInv, pc = "write" PROVE chunks = ChunkMessage(message, chunkSize)
    BY DEF LoopIsClosedForm
  <2> DEFINE n == Len(chunks)
             C == ChunkMessage(message, chunkSize)
  <2>1. /\ chunkSize \in Nat /\ chunkSize >= 2 /\ payloadSize = chunkSize - 1 /\ payloadSize \in Nat
        /\ message \in Seq(Int) /\ Len(message) \in Nat /\ n \in Nat \ {0} /\ chunks \in Seq(ChunkT)
    <3>1. TypeOK /\ chunks # <<>>
      BY DEF IInv, Cut
    <3>2. chunks \in Seq(ChunkT)
      BY <3>1 DEF TypeOK, ChunkT
    <3>3. n \in Nat \ {0}
      BY <3>1, <3>2
    <3> QED
      BY <3>1, <3>2, <3>3, Sizes
  <2>2. n = ChunkCount(message, chunkSize)
    <3> DEFINE k == n - 1
    <3>1. k \in Nat /\ n = k + 1 /\ k \in 0..(n - 1)
      BY <2>1
    <3>2. offset = End(n) /\ offset = Len(message) /\ (k = 0 \/ At(k) < Len(message))
      BY <3>1 DEF IInv, Cut
    <3>3. End(n) <= At(n) /\ At(n) = n * payloadSize
      BY <2>1, Ends DEF IInv, At
    <3>4. CASE message = <<>>
      <4>1. Len(message) = 0 /\ ~(At(k) < Len(message))
        <5> HIDE DEF k
        <5>1. TypeOK /\ k \in Nat
          BY <3>1 DEF IInv
        <5>2. At(k) \in Nat
          BY <5>1, Ends
        <5>3. Len(message) = 0
          BY <3>4
        <5> QED
          BY <5>2, <5>3
      <4> QED
        BY <3>1, <3>2, <3>4, <4>1 DEF ChunkCount
    <3>5. CASE message # <<>>
      <4> DEFINE q == (Len(message) + payloadSize - 1) \div payloadSize
      <4>1. Len(message) > 0 /\ payloadSize > 0
        BY <2>1, <3>5
      <4>2. q \in Nat /\ q * payloadSize >= Len(message) /\ (q - 1) * payloadSize < Len(message)
        BY <2>1, <4>1, Ceiling
      <4>3. n * payloadSize >= Len(message)
        BY <3>2, <3>3
      <4>4. (n - 1) * payloadSize < Len(message)
        <5>1. k * payloadSize < Len(message)
          <6>1. At(0) = 0 /\ At(k) = k * payloadSize
            BY <3>1, Ends DEF IInv, At
          <6> QED
            BY <3>2, <4>1, <6>1
        <5> QED
          BY <5>1
      <4>5. ChunkCount(message, chunkSize) = q
        <5>1. Len(message) + chunkSize - 2 = Len(message) + payloadSize - 1
          BY <2>1
        <5> QED
          BY <2>1, <3>5, <5>1 DEF ChunkCount
      <4> HIDE DEF q
      <4> QED
        BY <2>1, <4>2, <4>3, <4>4, <4>5, CeilingUnique
    <3> QED
      BY <3>4, <3>5
  <2>3. C \in Seq(ChunkT) /\ Len(C) = n
    BY <2>1, <2>2, ChunksTyped DEF ChunkT
  <2>4. ASSUME NEW i \in 1..n PROVE chunks[i] = C[i]
    <3> DEFINE k == i - 1
    <3>1. k \in 0..(n - 1) /\ i = k + 1 /\ k \in Nat
      BY <2>1
    <3>2. chunks[i] = Piece(k)
      BY <3>1 DEF IInv, Cut
    <3>3. C[i] = Chunk(ChunkEnd(message, chunkSize, i) = Len(message),
                       SubSeq(message, (i - 1) * (chunkSize - 1) + 1,
                              ChunkEnd(message, chunkSize, i)))
      BY <2>2 DEF ChunkMessage
    <3>4. ChunkEnd(message, chunkSize, i) = End(k + 1) /\ (i - 1) * (chunkSize - 1) = At(k)
      BY <2>1, <3>1 DEF ChunkEnd, End, At
    <3> QED
      BY <3>2, <3>3, <3>4 DEF Piece
  <2> HIDE DEF C
  <2>5. chunks = C
    BY <2>1, <2>3, <2>4, SeqEqual
  <2> QED
    BY <2>5 DEF C
<1> QED
  BY <1>1, Inductive, PTL
-----------------------------------------------------------------------------
(* The transport scenarios of `fuzz`, a program of its own: of the         *)
(* variables here it has pc, chunks and sent.                              *)
CONSTANTS Request, Fractions, Cycles
VARIABLES scenario, fraction, greet, link, raised, results, exit, held, whole

Fuzz == INSTANCE FuzzTransport

(* How much of a request in several chunks the mdoc has heard: less than   *)
(* all of it, and all that was to be kept if the scenario went as planned. *)
Heard(size) ==
    /\ chunks = ChunkMessage(Request, size)
    /\ sent \in 0..Fuzz!Keep(Len(chunks)) /\ (pc = "chunks" => sent < Fuzz!Keep(Len(chunks)))
    /\ held = SubSeq(Request, 1, ChunkEnd(Request, size, sent)) /\ ~whole
    /\ exit = "ok" \/ (pc = "leave" /\ raised = "nothing") => sent >= 1

TailInv ==
    /\ fraction \in Fractions
    /\ pc \in {"scan", "connect", "subscribe", "start", "chunks", "leave", "done"}
    /\ pc \in {"scan", "connect", "subscribe", "start"} => chunks = <<>>
    /\ chunks = <<>> => sent = 0 /\ held = <<>> /\ ~whole /\ pc # "chunks"
    /\ scenario # "drop-mid-chunk" => chunks = <<>>
    /\ exit = "ok" => pc = "done"
    /\ Len(chunks) > 1 => \E size \in Nat \ {0, 1} : Heard(size)

LEMMA SameFraming ==
    /\ \A m, size : Fuzz!ChunkMessage(m, size) = ChunkMessage(m, size)
    /\ \A u : Fuzz!NegotiateChunkSize(u) = NegotiateChunkSize(u)
<1>1. \A a, b : Fuzz!Lesser(a, b) = Lesser(a, b) /\ Fuzz!Greater(a, b) = Greater(a, b)
  BY DEF Fuzz!Lesser, Lesser, Fuzz!Greater, Greater
<1>2. \A a, b : Fuzz!Chunk(a, b) = Chunk(a, b)
  BY DEF Fuzz!Chunk, Chunk
<1>3. \A a, b : Fuzz!ChunkCount(a, b) = ChunkCount(a, b)
  BY DEF Fuzz!ChunkCount, ChunkCount
<1>4. \A a, b, c : Fuzz!ChunkEnd(a, b, c) = ChunkEnd(a, b, c)
  BY <1>1 DEF Fuzz!ChunkEnd, ChunkEnd
<1>5. \A a, b : Fuzz!ChunkMessage(a, b) = ChunkMessage(a, b)
  BY <1>2, <1>3, <1>4 DEF Fuzz!ChunkMessage, ChunkMessage
<1>6. \A a : Fuzz!NegotiateChunkSize(a) = NegotiateChunkSize(a)
  BY <1>1 DEF Fuzz!NegotiateChunkSize, NegotiateChunkSize
<1> QED
  BY <1>5, <1>6

(* At least one chunk is kept, and not all of several.                     *)
LEMMA SomeAreKept ==
    ASSUME Fractions \subseteq [num : Int, den : Nat \ {0}], fraction \in Fractions,
           NEW total \in Nat, total > 1
    PROVE  Fuzz!Keep(total) \in 1..(total - 1)
<1>1. fraction.num \in Int /\ fraction.den \in Nat /\ fraction.den > 0
  OBVIOUS
<1>2. PICK a \in Int : a = total * fraction.num
  BY <1>1
<1>3. a \div fraction.den \in Int
  BY <1>1
<1>4. PICK q \in Int : q = (total * fraction.num) \div fraction.den
  BY <1>2, <1>3
<1>5. Fuzz!Keep(total) = Fuzz!Greater(1, Fuzz!Lesser(total - 1, q))
  BY <1>4 DEF Fuzz!Keep
<1> QED
  BY <1>5 DEF Fuzz!Greater, Fuzz!Lesser

(* The steps that write no chunk.                                          *)
LEMMA TailKept ==
    ASSUME TailInv, UNCHANGED <<scenario, fraction, chunks, sent, held, whole>>,
           pc' \in {"scan", "connect", "subscribe", "start", "leave", "done"},
           pc' \in {"scan", "connect", "subscribe", "start"} => chunks = <<>>,
           exit' = "ok" => pc' = "done",
           exit' = "ok" \/ (pc' = "leave" /\ raised' = "nothing")
               => chunks = <<>> \/ exit = "ok" \/ (pc = "leave" /\ raised = "nothing")
    PROVE  TailInv'
<1>1. ASSUME Len(chunks') > 1 PROVE \E size \in Nat \ {0, 1} : Heard(size)'
  <2>1. Len(chunks) > 1 /\ chunks # <<>>
    BY <1>1
  <2>2. PICK size \in Nat \ {0, 1} : Heard(size)
    BY <2>1 DEF TailInv
  <2>3. Fuzz!Keep(Len(chunks))' = Fuzz!Keep(Len(chunks))
    BY DEF Fuzz!Keep, Fuzz!Greater, Fuzz!Lesser
  <2>4. Heard(size)'
    BY <2>1, <2>2, <2>3 DEF Heard
  <2> QED
    BY <2>4
<1> QED
  BY <1>1 DEF TailInv

LEMMA TailStart ==
    ASSUME Fractions \subseteq [num : Int, den : Nat \ {0}], Request \in Seq(Int), TailInv, Fuzz!Start
    PROVE  TailInv'
<1>1. /\ pc = "start" /\ chunks = <<>> /\ sent = 0 /\ held = <<>> /\ ~whole /\ exit # "ok"
      /\ UNCHANGED <<scenario, fraction, sent, held, whole, exit>>
  BY DEF TailInv, Fuzz!Start, Fuzz!setting, Fuzz!mdoc
<1>2. CASE scenario = "drop-mid-chunk"
  <2>1. PICK mtu0 \in Mtus : chunks' = ChunkMessage(Request, NegotiateChunkSize(mtu0)) /\ pc' = "chunks"
    BY <1>2, SameFraming DEF Fuzz!Start
  <2>2. PICK size \in Nat \ {0, 1} : chunks' = ChunkMessage(Request, size)
    <3>1. mtu0 \in Nat
      BY FramingLoopAssumption
    <3>2. NegotiateChunkSize(mtu0) \in Nat /\ 2 <= NegotiateChunkSize(mtu0)
      BY <3>1, SizeNegotiated
    <3>3. NegotiateChunkSize(mtu0) \in Nat \ {0, 1}
      BY <3>2
    <3> QED
      BY <2>1, <3>3
  <2>3. size >= 2
    OBVIOUS
  <2>4. Len(chunks') = ChunkCount(Request, size) /\ Len(chunks') \in Nat \ {0}
    BY <2>2, <2>3, ChunksTyped, CountOfChunks
  <2>5. chunks' # <<>>
    BY <2>4
  <2>6. ASSUME Len(chunks') > 1 PROVE Heard(size)'
    <3>1. Fuzz!Keep(Len(chunks')) \in 1..(Len(chunks') - 1)
      BY <2>4, <2>6, SomeAreKept DEF TailInv
    <3>2. Fuzz!Keep(Len(chunks))' = Fuzz!Keep(Len(chunks'))
      BY <1>1 DEF Fuzz!Keep, Fuzz!Greater, Fuzz!Lesser
    <3>3. sent' = 0 /\ 0 < Fuzz!Keep(Len(chunks))' /\ 0 \in 0..Fuzz!Keep(Len(chunks))'
      BY <1>1, <2>4, <3>1, <3>2
    <3>4. ChunkEnd(Request, size, 0) = 0 /\ SubSeq(Request, 1, 0) = <<>>
      BY <2>3 DEF ChunkEnd, Lesser
    <3> QED
      BY <1>1, <2>1, <2>2, <3>3, <3>4 DEF Heard
  <2> QED
    BY <1>1, <1>2, <2>1, <2>5, <2>6 DEF TailInv
<1>3. CASE scenario # "drop-mid-chunk"
  <2>1. pc' = "leave" /\ chunks' = chunks
    BY <1>3 DEF Fuzz!Start
  <2> QED
    BY <1>1, <2>1, TailKept
<1> QED
  BY <1>2, <1>3

LEMMA TailWrite ==
    ASSUME Fractions \subseteq [num : Int, den : Nat \ {0}], Request \in Seq(Int), TailInv, Fuzz!WriteChunk
    PROVE  TailInv'
<1>1. /\ pc = "chunks" /\ chunks # <<>> /\ exit # "ok" /\ sent' = sent + 1
      /\ held' = Fuzz!FeedBuffer(held, chunks[sent + 1]) /\ whole' = (whole \/ chunks[sent + 1].last)
      /\ pc' \in {"leave", "chunks"} /\ UNCHANGED <<scenario, fraction, raised, chunks, exit>>
  BY DEF TailInv, Fuzz!WriteChunk, Fuzz!setting
<1>2. pc' = IF sent + 1 = Fuzz!Lesser(Fuzz!Keep(Len(chunks)), Len(chunks)) THEN "leave" ELSE "chunks"
  BY DEF Fuzz!WriteChunk
<1>3. ASSUME Len(chunks) > 1 PROVE \E size \in Nat \ {0, 1} : Heard(size)'
  <2>1. PICK size \in Nat \ {0, 1} : Heard(size)
    BY <1>3 DEF TailInv
  <2>2. /\ chunks = ChunkMessage(Request, size) /\ held = SubSeq(Request, 1, ChunkEnd(Request, size, sent)) /\ ~whole
        /\ sent \in Nat /\ sent < Fuzz!Keep(Len(chunks))
    BY <1>1, <2>1 DEF Heard
  <2>3. size \in Nat /\ size >= 2
    OBVIOUS
  <2>4. Len(chunks) = ChunkCount(Request, size) /\ Len(chunks) \in Nat
    BY <2>2, <2>3, ChunksTyped, CountOfChunks
  <2>5. PICK keep \in 1..(Len(chunks) - 1) : keep = Fuzz!Keep(Len(chunks))
    BY <1>3, <2>4, SomeAreKept DEF TailInv
  <2>6. sent + 1 \in 1..ChunkCount(Request, size) /\ sent + 1 # ChunkCount(Request, size) /\ sent < ChunkCount(Request, size)
    BY <2>2, <2>4, <2>5
  <2>7. ~chunks[sent + 1].last
    BY <2>2, <2>3, <2>6, LastOnly
  <2>8. whole' = FALSE
    BY <1>1, <2>2, <2>7
  <2>9. held' = held \o chunks[sent + 1].payload
    BY <1>1, <2>7 DEF Fuzz!FeedBuffer
  <2>10. held' = SubSeq(Request, 1, ChunkEnd(Request, size, sent + 1))
    BY <2>2, <2>3, <2>6, <2>9, ChunksMeet
  <2>11. Fuzz!Keep(Len(chunks))' = keep
    BY <1>1, <2>5 DEF Fuzz!Keep, Fuzz!Greater, Fuzz!Lesser
  <2>12. Fuzz!Lesser(Fuzz!Keep(Len(chunks)), Len(chunks)) = keep
    BY <2>4, <2>5 DEF Fuzz!Lesser
  <2>13. sent' \in 0..keep /\ (pc' = "chunks" => sent' < keep) /\ sent' >= 1
    BY <1>1, <1>2, <2>2, <2>4, <2>5, <2>12
  <2>14. chunks' = ChunkMessage(Request, size)
    BY <1>1, <2>2
  <2>15. held' = SubSeq(Request, 1, ChunkEnd(Request, size, sent'))
    BY <1>1, <2>10
  <2> QED
    BY <1>1, <2>8, <2>11, <2>13, <2>14, <2>15 DEF Heard
<1> QED
  BY <1>1, <1>3 DEF TailInv

(* However a scenario goes, a transfer of several chunks is not completed, *)
(* and one that goes as planned leaves the mdoc with a part of the request *)
(* (ble.py:184-189).                                                       *)
THEOREM TailIsDropped ==
    ASSUME Fractions \subseteq [num : Int, den : Nat \ {0}], Request \in Seq(Int)
    PROVE  Fuzz!Spec => [](Fuzz!TailDropped)
<1>1. Fuzz!Init => TailInv
  <2> SUFFICES ASSUME Fuzz!Init PROVE TailInv
    OBVIOUS
  <2>1. Len(chunks) = 0 /\ chunks = <<>>
    BY DEF Fuzz!Init
  <2> QED
    BY <2>1 DEF Fuzz!Init, TailInv
<1>2. ASSUME TailInv, [Fuzz!Next]_(Fuzz!vars) PROVE TailInv'
  <2> USE DEF Fuzz!setting, Fuzz!reader, Fuzz!mdoc
  <2>1. CASE Fuzz!Scan
    BY <1>2, <2>1, TailKept DEF Fuzz!Scan, Fuzz!AttemptEnds, Fuzz!CycleEnds, TailInv
  <2>2. CASE Fuzz!Connect
    BY <1>2, <2>2, TailKept DEF Fuzz!Connect, Fuzz!AfterConnect, Fuzz!AttemptEnds, Fuzz!CycleEnds, TailInv
  <2>3. CASE Fuzz!BleError
    BY <1>2, <2>3, TailKept DEF Fuzz!BleError, TailInv
  <2>4. CASE Fuzz!Subscribe
    BY <1>2, <2>4, TailKept DEF Fuzz!Subscribe, TailInv
  <2>5. CASE Fuzz!Start
    BY <1>2, <2>5, TailStart
  <2>6. CASE Fuzz!WriteChunk
    BY <1>2, <2>6, TailWrite
  <2>7. CASE Fuzz!Leave
    <3>1. pc = "leave" /\ UNCHANGED <<scenario, fraction, chunks, sent, held, whole, raised>>
      BY <2>7 DEF Fuzz!Leave
    <3>2. pc' \in {"scan", "done"} /\ (pc' = "scan" => scenario = "rapid-reconnect")
      BY <2>7 DEF Fuzz!Leave, Fuzz!AttemptEnds, Fuzz!CycleEnds
    <3>3. exit' = "ok" => pc' = "done" /\ raised = "nothing"
      BY <1>2, <2>7 DEF Fuzz!Leave, Fuzz!AttemptEnds, Fuzz!CycleEnds, TailInv
    <3> QED
      BY <1>2, <3>1, <3>2, <3>3, TailKept DEF TailInv
  <2>8. CASE Fuzz!Interrupt
    BY <1>2, <2>8, TailKept DEF Fuzz!Interrupt, TailInv
  <2>9. CASE Fuzz!MdocHangsUp \/ UNCHANGED Fuzz!vars
    <3>1. UNCHANGED <<scenario, fraction, pc, raised, chunks, sent, exit, held, whole>>
      BY <2>9 DEF Fuzz!MdocHangsUp, Fuzz!vars
    <3>2. ASSUME Len(chunks) > 1 PROVE \E size \in Nat \ {0, 1} : Heard(size)'
      <4>1. PICK size \in Nat \ {0, 1} : Heard(size)
        BY <1>2, <3>2 DEF TailInv
      <4>2. Fuzz!Keep(Len(chunks))' = Fuzz!Keep(Len(chunks))
        BY <3>1 DEF Fuzz!Keep, Fuzz!Greater, Fuzz!Lesser
      <4> QED
        BY <3>1, <4>1, <4>2 DEF Heard
    <3> QED
      BY <1>2, <3>1, <3>2 DEF TailInv
  <2> QED
    BY <1>2, <2>1, <2>2, <2>3, <2>4, <2>5, <2>6, <2>7, <2>8, <2>9 DEF Fuzz!Next, Fuzz!Coroutine
<1>3. TailInv => Fuzz!TailDropped
  <2> SUFFICES ASSUME TailInv, Len(chunks) > 1
               PROVE  /\ ~whole /\ sent < Len(chunks)
                      /\ exit = "ok" => held # <<>> /\ held = SubSeq(Request, 1, Len(held))
    BY DEF Fuzz!TailDropped
  <2>1. PICK size \in Nat \ {0, 1} : Heard(size)
    BY DEF TailInv
  <2>2. size \in Nat /\ size >= 2
    OBVIOUS
  <2>3. Len(chunks) = ChunkCount(Request, size) /\ Len(chunks) \in Nat
    BY <2>1, <2>2, ChunksTyped, CountOfChunks DEF Heard
  <2>4. Fuzz!Keep(Len(chunks)) \in 1..(Len(chunks) - 1)
    BY <2>3, SomeAreKept DEF TailInv
  <2>5. ~whole /\ sent \in Nat /\ sent < Len(chunks) /\ (exit = "ok" => sent >= 1)
    BY <2>1, <2>3, <2>4 DEF Heard
  <2>6. Request # <<>> /\ Len(Request) \in Nat /\ Len(Request) >= 1
    BY <2>3 DEF ChunkCount
  <2>7. ASSUME exit = "ok" PROVE held # <<>> /\ held = SubSeq(Request, 1, Len(held))
    <3>1. PICK end \in 1..Len(Request) : end = ChunkEnd(Request, size, sent)
      <4>1. sent * (size - 1) \in Nat /\ sent * (size - 1) >= 1
        BY <2>2, <2>5, <2>7
      <4> QED
        BY <2>6, <4>1 DEF ChunkEnd, Lesser
    <3>2. held = SubSeq(Request, 1, end) /\ Len(held) = end
      BY <2>1, <2>6, <3>1, SubSeqLength DEF Heard
    <3> QED
      BY <3>1, <3>2
  <2> QED
    BY <2>5, <2>7
<1> QED
  BY <1>1, <1>2, <1>3, PTL DEF Fuzz!Spec
=============================================================================
