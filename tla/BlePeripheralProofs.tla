------------------------ MODULE BlePeripheralProofs ------------------------
(***************************************************************************)
(* ble_peripheral.exchange, for every request, any number of mdocs that    *)
(* come and go, and any messages: what is returned, when, and what is left *)
(* running.                                                                *)
(***************************************************************************)
EXTENDS BlePeripheral, FramingProofs

ChunkType == [last : BOOLEAN, payload : Seq(Int)]

Asked == start = "result" /\ notified = ChunkMessage(Request, PERIPHERAL_CHUNK_SIZE)

(* How far the exchange is, by where the coroutine is.                     *)
Placed ==
    /\ pc = "wait_response" \/ outcome = "message" => Asked
    /\ outcome = "message" => response = "result"
    /\ StopsServer

Typed ==
    /\ buffer \in Seq(Int) /\ torn \in Seq(Int)
    /\ outgoing \in Seq(ChunkType) /\ completed \in Seq(Responses)

(* What is still to be written of a message m cut to `size` after k chunks *)
(* of it, and what the Reassembler has then, before anything is complete.  *)
Rest(m, size, k) ==
    /\ speaking = m
    /\ k < ChunkCount(m, size) /\ Len(outgoing) = ChunkCount(m, size) - k
    /\ \A i \in 1..Len(outgoing) : outgoing[i] = ChunkMessage(m, size)[k + i]
    /\ completed = <<>> => buffer = torn \o SubSeq(m, 1, ChunkEnd(m, size, k))

Spoken ==
    /\ ~connected => outgoing = <<>>
    /\ outgoing = <<>> /\ completed = <<>> => buffer = torn
    /\ outgoing # <<>> =>
          \E m \in Responses, size \in MIN_CHUNK_SIZE..MAX_CHUNK_SIZE, k \in Nat : Rest(m, size, k)

(* What the future holds.                                                  *)
Held ==
    /\ response = "pending" => completed = <<>>
    /\ response = "result" => completed # <<>> /\ result = torn \o Head(completed)

IInv == Placed /\ Typed /\ Spoken /\ Held
-----------------------------------------------------------------------------
(* A message cut for the mdoc's link.                                      *)
LEMMA CutIs ==
    ASSUME NEW m \in Responses, NEW size \in MIN_CHUNK_SIZE..MAX_CHUNK_SIZE
    PROVE  /\ m \in Seq(Int) /\ size \in Nat /\ size >= 2
           /\ ChunkMessage(m, size) \in Seq(ChunkType)
           /\ Len(ChunkMessage(m, size)) = ChunkCount(m, size)
           /\ ChunkCount(m, size) \in Nat \ {0}
<1>1. m \in Seq(Int) /\ size \in Nat /\ size >= 2
  BY ChunkSizeAssumption, BlePeripheralAssumption
<1> QED
  BY <1>1, ChunksTyped, CountOfChunks DEF ChunkType

(* Three parts put together either way.                                    *)
LEMMA ThreeParts ==
    ASSUME NEW a \in Seq(Int), NEW b \in Seq(Int), NEW c \in Seq(Int)
    PROVE  (a \o b) \o c = a \o (b \o c)
BY ConcatAssociative, SMTT(40)

(* The invariant holds initially.                                          *)
LEMMA InitIInv == Init => IInv
BY DEF Init, IInv, Placed, StopsServer, Typed, Spoken, Held

(* Where the mdoc does nothing, what it said stays.                        *)
LEMMA MdocStands ==
    ASSUME Typed, Spoken, UNCHANGED <<buffer, mdoc>>
    PROVE  Typed' /\ Spoken'
BY DEF Typed, Spoken, Rest, mdoc

(* The steps of the coroutine that leave the futures alone.                *)
LEMMA CoroutineIInv ==
    ASSUME IInv,
           \/ AddServices \/ ServerUp \/ StartFails \/ StartReturns \/ WaitStart \/ WaitResponse
           \/ Stop \/ UNCHANGED vars
    PROVE  IInv'
<1>1. UNCHANGED <<promise, mdoc, start>>
  BY DEF AddServices, ServerUp, StartFails, StartReturns, WaitStart, WaitResponse, Stop, vars
<1>2. Typed' /\ Spoken'
  BY <1>1, MdocStands DEF IInv, promise
<1>3. Held'
  BY <1>1 DEF IInv, Held, promise, mdoc
<1>4. Placed'
  <2>1. CASE StartReturns \/ WaitStart
    BY <1>1, <2>1 DEF StartReturns, WaitStart, StartWritten, Ask, IInv, Placed, Asked, StopsServer, promise
  <2>2. CASE AddServices \/ ServerUp \/ StartFails \/ UNCHANGED vars
    BY <1>1, <2>2 DEF AddServices, ServerUp, StartFails, vars, coroutine, IInv, Placed, Asked, StopsServer, promise
  <2>3. CASE WaitResponse \/ Stop
    BY <1>1, <2>3 DEF WaitResponse, Stop, IInv, Placed, Asked, StopsServer, promise
  <2> QED
    BY <2>1, <2>2, <2>3
<1> QED
  BY <1>2, <1>3, <1>4 DEF IInv

(* The steps that may cancel a future.                                     *)
LEMMA CancelIInv ==
    ASSUME IInv, WaitStartTimeout \/ WaitResponseTimeout \/ Interrupt
    PROVE  IInv'
<1>1. /\ UNCHANGED <<result, buffer, mdoc, notified>>
      /\ response' \in {response, Cancelled(response)} /\ start' \in {start, Cancelled(start)}
      /\ outcome' # "message" /\ pc' \in {"stop", "done"}
      /\ pc' = "done" => outcome' = "killed"
  BY DEF WaitStartTimeout, WaitResponseTimeout, Interrupt, promise
<1>2. Typed' /\ Spoken'
  BY <1>1, MdocStands DEF IInv
<1>3. Held'
  BY <1>1 DEF IInv, Held, Cancelled, mdoc
<1>4. Placed'
  BY <1>1 DEF Placed, StopsServer
<1> QED
  BY <1>2, <1>3, <1>4 DEF IInv

(* An mdoc connects, leaves, or writes STATE_START.                        *)
LEMMA MdocMovesIInv ==
    ASSUME IInv, MdocConnects \/ MdocLeaves \/ MdocWritesStart
    PROVE  IInv'
<1>1. CASE MdocConnects
  BY <1>1 DEF MdocConnects, coroutine, promise, IInv, Placed, Asked, StopsServer, Typed, Spoken, Rest, Held
<1>2. CASE MdocLeaves
  <2>1. Placed'
    BY <1>2 DEF MdocLeaves, coroutine, promise, IInv, Placed, Asked, StopsServer
  <2>2. /\ outgoing' = <<>> /\ torn' = IF completed = <<>> THEN buffer ELSE torn
        /\ UNCHANGED <<response, result, buffer, completed>>
    BY <1>2 DEF MdocLeaves, promise
  <2>3. Typed'
    BY <2>2 DEF IInv, Typed
  <2>4. Spoken' /\ Held'
    BY <2>2 DEF IInv, Spoken, Held
  <2> QED
    BY <2>1, <2>3, <2>4 DEF IInv
<1>3. CASE MdocWritesStart
  <2>1. Typed' /\ Spoken'
    BY <1>3, MdocStands DEF MdocWritesStart, promise, IInv
  <2>2. Placed' /\ Held'
    BY <1>3 DEF MdocWritesStart, OnStart, coroutine, promise, mdoc, IInv, Placed, Asked, StopsServer, Held
  <2> QED
    BY <2>1, <2>2 DEF IInv
<1> QED
  BY <1>1, <1>2, <1>3

(* An mdoc begins a message.                                               *)
LEMMA MdocBeginsIInv == IInv /\ MdocBegins => IInv'
<1> SUFFICES ASSUME IInv, MdocBegins PROVE IInv'
  OBVIOUS
<1>1. PICK m \in Responses, size \in MIN_CHUNK_SIZE..MAX_CHUNK_SIZE :
        outgoing' = ChunkMessage(m, size) /\ speaking' = m
  BY DEF MdocBegins
<1>2. /\ connected /\ outgoing = <<>>
      /\ UNCHANGED <<coroutine, server, start, promise, connected, completed, torn, visits>>
  BY DEF MdocBegins, Served
<1>3. /\ m \in Seq(Int) /\ size \in Nat /\ size >= 2
      /\ ChunkMessage(m, size) \in Seq(ChunkType)
      /\ Len(ChunkMessage(m, size)) = ChunkCount(m, size)
      /\ ChunkCount(m, size) \in Nat \ {0}
  BY CutIs
<1>4. Placed' /\ Held'
  BY <1>2 DEF coroutine, promise, IInv, Placed, Asked, StopsServer, Held
<1>5. Typed'
  BY <1>1, <1>2, <1>3 DEF IInv, Typed, promise
<1>6. completed' = <<>> => buffer' = torn' \o SubSeq(m, 1, ChunkEnd(m, size, 0))
  <2>1. ChunkEnd(m, size, 0) = 0
    BY <1>3 DEF ChunkEnd, Lesser
  <2>2. SubSeq(m, 1, ChunkEnd(m, size, 0)) = <<>>
    BY <1>3, <2>1
  <2>3. torn \o <<>> = torn
    BY DEF IInv, Typed
  <2> QED
    BY <1>2, <2>2, <2>3 DEF IInv, Spoken, promise
<1>7. Rest(m, size, 0)'
  <2>1. Len(outgoing') = ChunkCount(m, size) - 0 /\ 0 < ChunkCount(m, size)
    BY <1>1, <1>3
  <2>2. ASSUME NEW i \in 1..Len(outgoing') PROVE outgoing'[i] = ChunkMessage(m, size)[0 + i]
    <3>1. 0 + i = i
      BY <1>3, <2>1
    <3> QED
      BY <1>1, <3>1
  <2> QED
    BY <1>1, <1>6, <2>1, <2>2 DEF Rest
<1>8. outgoing' # <<>>
  BY <1>1, <1>3
<1>9. Spoken'
  BY <1>2, <1>7, <1>8 DEF Spoken
<1> QED
  BY <1>4, <1>5, <1>9 DEF IInv

(* An mdoc writes a chunk, and on_write puts it together.                  *)
LEMMA MdocWritesChunkIInv == IInv /\ MdocWritesChunk => IInv'
<1> SUFFICES ASSUME IInv, MdocWritesChunk PROVE IInv'
  OBVIOUS
<1> DEFINE c == Head(outgoing)
<1>1. /\ connected /\ outgoing # <<>> /\ outgoing' = Tail(outgoing)
      /\ buffer' = FeedBuffer(buffer, c)
      /\ UNCHANGED <<coroutine, server, start, connected, torn, visits, begun>>
  BY DEF MdocWritesChunk
<1>2. /\ c.last => /\ Resolve(buffer \o c.payload)
                   /\ completed' = Append(completed, speaking)
      /\ ~c.last => UNCHANGED <<response, result, completed, speaking>>
  BY DEF MdocWritesChunk, FeedResult
<1>3. PICK m \in Responses, size \in MIN_CHUNK_SIZE..MAX_CHUNK_SIZE, k \in Nat : Rest(m, size, k)
  BY <1>1 DEF IInv, Spoken
<1> DEFINE n == ChunkCount(m, size)
           C == ChunkMessage(m, size)
<1>4. m \in Seq(Int) /\ size \in Nat /\ size >= 2 /\ C \in Seq(ChunkType) /\ Len(C) = n /\ n \in Nat \ {0}
  BY CutIs
<1> DEFINE part(j) == SubSeq(m, 1, ChunkEnd(m, size, j))
           piece == c.payload
<1>5. /\ speaking = m /\ k < n /\ Len(outgoing) = n - k /\ k + 1 \in 1..n
      /\ \A i \in 1..Len(outgoing) : outgoing[i] = C[k + i]
      /\ completed = <<>> => buffer = torn \o part(k)
  <2>1. /\ speaking = m /\ k < n /\ Len(outgoing) = n - k
        /\ \A i \in 1..Len(outgoing) : outgoing[i] = C[k + i]
        /\ completed = <<>> => buffer = torn \o part(k)
    BY <1>3 DEF Rest
  <2> HIDE DEF n
  <2>2. k + 1 \in 1..n
    BY <1>4, <2>1
  <2> QED
    BY <2>1, <2>2
<1>6. c = C[k + 1] /\ c \in ChunkType /\ c.payload \in Seq(Int)
  <2>1. c = outgoing[1] /\ 1 \in 1..Len(outgoing) /\ c \in ChunkType
    BY <1>1 DEF IInv, Typed
  <2> QED
    BY <1>5, <2>1 DEF ChunkType
<1>7. c.last <=> k + 1 = n
  BY <1>4, <1>5, <1>6, LastOnly
<1>8. /\ part(k) \o piece = part(k + 1)
      /\ k + 1 = n => part(k) \o piece = m
  <2>1. /\ part(k) \o C[k + 1].payload = part(k + 1)
        /\ k + 1 = n => part(k) \o C[k + 1].payload = m
    BY <1>4, <1>5, ChunksMeet
  <2> QED
    BY <1>6, <2>1
<1>9. completed = <<>> => buffer \o piece = torn \o (part(k) \o piece)
  <2>1. part(k) \in Seq(Int)
    <3>1. ChunkEnd(m, size, k) \in Nat /\ ChunkEnd(m, size, k) <= Len(m)
      <4>1. k * (size - 1) \in Nat /\ Len(m) \in Nat
        BY <1>4
      <4> QED
        BY <4>1 DEF ChunkEnd, Lesser
    <3> QED
      BY <1>4, <3>1
  <2>2. torn \in Seq(Int)
    BY DEF IInv, Typed
  <2>3. piece \in Seq(Int)
    BY <1>6
  <2> DEFINE read == part(k)
  <2>4. read \in Seq(Int) /\ (completed = <<>> => buffer = torn \o read)
    BY <1>5, <2>1
  <2> HIDE DEF piece, read
  <2>5. (torn \o read) \o piece = torn \o (read \o piece)
    BY <2>2, <2>3, <2>4, ThreeParts
  <2>6. completed = <<>> => buffer \o piece = torn \o (read \o piece)
    BY <2>4, <2>5
  <2> QED
    BY <2>6 DEF read
<1> HIDE DEF part, C, n
<1>10. /\ outgoing' \in Seq(ChunkType) /\ Len(outgoing') = Len(outgoing) - 1
       /\ \A i \in 1..Len(outgoing') : outgoing'[i] = outgoing[i + 1]
  BY <1>1, HeadTailProperties DEF IInv, Typed
<1>11. Typed'
  <2>1. buffer' \in Seq(Int)
    BY <1>1, <1>6 DEF FeedBuffer, IInv, Typed
  <2>2. completed' \in Seq(Responses)
    <3>1. Append(completed, m) \in Seq(Responses)
      BY DEF IInv, Typed
    <3> QED
      BY <1>2, <1>5, <3>1 DEF IInv, Typed
  <2> QED
    BY <1>1, <1>10, <2>1, <2>2 DEF IInv, Typed
<1>12. CASE c.last
  <2>1. k + 1 = n /\ outgoing' = <<>>
    BY <1>4, <1>5, <1>7, <1>10, <1>12
  <2>2. completed' = Append(completed, m) /\ completed' # <<>>
    BY <1>2, <1>5, <1>12 DEF IInv, Typed
  <2>3. Spoken'
    BY <2>1, <2>2 DEF Spoken
  <2>4. Head(completed') = IF completed = <<>> THEN m ELSE Head(completed)
    BY <2>2, HeadTailAppend DEF IInv, Typed
  <2>5. /\ response = "pending" => response' = "result" /\ result' = buffer \o c.payload
        /\ response # "pending" => UNCHANGED <<response, result>>
    BY <1>2, <1>12 DEF Resolve
  <2>6. Held'
    <3>1. CASE response = "pending"
      <4>1. completed = <<>> /\ result' = torn \o m
        BY <1>8, <1>9, <2>1, <2>5, <3>1 DEF IInv, Held
      <4> QED
        BY <1>1, <2>2, <2>4, <2>5, <3>1, <4>1 DEF Held
    <3>2. CASE response # "pending"
      BY <1>1, <2>2, <2>4, <2>5, <3>2 DEF IInv, Held
    <3> QED
      BY <3>1, <3>2
  <2>7. Placed'
    BY <1>1, <2>5 DEF IInv, Placed, Asked, StopsServer, coroutine
  <2> QED
    BY <1>11, <2>3, <2>6, <2>7 DEF IInv
<1>13. CASE ~c.last
  <2>1. UNCHANGED <<response, result, completed, speaking>> /\ buffer' = buffer \o c.payload
    BY <1>1, <1>2, <1>13 DEF FeedBuffer
  <2>2. k + 1 < n /\ k + 1 \in Nat /\ Len(outgoing') = n - (k + 1)
    <3>1. k + 1 # n
      BY <1>7, <1>13
    <3>2. Len(outgoing) = n - k /\ Len(outgoing') = Len(outgoing) - 1
      BY <1>5, <1>10
    <3>3. n \in Nat /\ k \in Nat /\ k < n
      BY <1>4, <1>5
    <3> QED
      BY <3>1, <3>2, <3>3
  <2>3. ASSUME NEW i \in 1..Len(outgoing') PROVE outgoing'[i] = C[(k + 1) + i]
    <3>1. i + 1 \in 1..Len(outgoing) /\ k + (i + 1) = (k + 1) + i
      BY <1>4, <1>5, <1>10, <2>2
    <3> QED
      BY <1>5, <1>10, <3>1
  <2>4. completed' = <<>> => buffer' = torn' \o part(k + 1)
    BY <1>1, <1>8, <1>9, <2>1
  <2>5. Rest(m, size, k + 1)'
    BY <1>5, <2>1, <2>2, <2>3, <2>4 DEF Rest, part, C, n
  <2>6. Spoken'
    <3>1. outgoing' # <<>>
      BY <1>4, <2>2
    <3> QED
      BY <1>1, <2>2, <2>5, <3>1 DEF Spoken
  <2>7. Placed' /\ Held'
    BY <1>1, <2>1 DEF IInv, Placed, Asked, StopsServer, Held, coroutine
  <2> QED
    BY <1>11, <2>6, <2>7 DEF IInv
<1> QED
  BY <1>12, <1>13
-----------------------------------------------------------------------------
(* The invariant holds whatever the mdocs and bless do                     *)
(* (ble_peripheral.py:83-166).                                             *)
THEOREM Inductive == Spec => []IInv
<1>1. IInv /\ [Next]_vars => IInv'
  BY CoroutineIInv, CancelIInv, MdocMovesIInv, MdocBeginsIInv, MdocWritesChunkIInv DEF Next, Coroutine
<1> QED
  BY InitIInv, <1>1, PTL DEF Spec

(* The first complete message is returned, after what broken ones left in  *)
(* the Reassembler (ble_peripheral.py:98-101).                             *)
THEOREM FirstIsReturned == Spec => []ReturnsFirst
<1>1. IInv => ReturnsFirst
  BY DEF IInv, Placed, Held, ReturnsFirst
<1> QED
  BY <1>1, Inductive, PTL

(* No answer is returned that was not asked for, however early it came     *)
(* (ble_peripheral.py:143-163).                                            *)
THEOREM AnswersWereAsked == Spec => []AskedBeforeReturn
<1>1. IInv => AskedBeforeReturn
  BY DEF IInv, Placed, Asked, AskedBeforeReturn
<1> QED
  BY <1>1, Inductive, PTL

(* The server is stopped on every way out of either wait                   *)
(* (ble_peripheral.py:142-165).                                            *)
THEOREM ServerIsStopped == Spec => []StopsServer
<1>1. IInv => StopsServer
  BY DEF IInv, Placed
<1> QED
  BY <1>1, Inductive, PTL

(* Neither future is set twice, nor after it was cancelled                 *)
(* (ble_peripheral.py:96, 100).                                            *)
THEOREM EachFutureOnce == Spec => FuturesResolvedOnce
<1> DEFINE A == /\ start # "pending" => UNCHANGED start
                /\ response # "pending" => UNCHANGED <<response, result>>
<1>1. [Next]_vars => [A]_vars
  <2> SUFFICES ASSUME Next PROVE A
    OBVIOUS
  <2>1. CASE WaitStartTimeout \/ WaitResponseTimeout \/ Interrupt
    BY <2>1 DEF WaitStartTimeout, WaitResponseTimeout, Interrupt, Cancelled, promise
  <2>2. CASE MdocWritesStart \/ MdocWritesChunk
    BY <2>2 DEF MdocWritesStart, OnStart, MdocWritesChunk, Resolve, promise
  <2>3. CASE \/ AddServices \/ ServerUp \/ StartFails \/ StartReturns \/ WaitStart \/ WaitResponse
             \/ Stop \/ MdocConnects \/ MdocLeaves \/ MdocBegins
    BY <2>3 DEF AddServices, ServerUp, StartFails, StartReturns, WaitStart, WaitResponse,
                Stop, MdocConnects, MdocLeaves, MdocBegins, promise
  <2> QED
    BY <2>1, <2>2, <2>3 DEF Next, Coroutine
<1> QED
  BY <1>1, PTL DEF Spec, FuturesResolvedOnce
=============================================================================
