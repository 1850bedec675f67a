-------------------------- MODULE BleCentralProofs --------------------------
(***************************************************************************)
(* ble.exchange, for every request, MTU, mdoc and bound: the types, the    *)
(* order of what is written, the connection left behind, the verdict and   *)
(* the future.                                                             *)
(***************************************************************************)
EXTENDS BleCentral, FramingProofs

(* The request, cut for this connection.                                   *)
Cut == ChunkMessage(Request, NegotiateChunkSize(mtu))

(* How far the session has been written, by where the coroutine is.        *)
Sent ==
    /\ ScriptFollowed
    /\ pc \in {"scan", "connect", "subscribe", "start"} => written = <<>>
    /\ pc = "chunks" => chunks = Cut /\ Len(written) \in 1..Len(Cut)
    /\ pc \in {"wait", "end"} => Len(written) = Len(Cut) + 1

(* An exchange that is over but for the disconnection has given the mdoc   *)
(* the whole request and tried STATE_END, unless it was cut short earlier. *)
Ended ==
    pc = "close" /\ outcome \in {"message", "timeout", "end_error"} =>
        \/ written = Script
        \/ endFailed /\ Len(written) = Len(Script) - 1

(* Where the connection is, by where the coroutine is.                     *)
Linked ==
    /\ pc \in {"scan", "connect"} => link = "none"
    /\ pc \in {"subscribe", "start", "chunks", "wait", "end", "close"} => link \in {"up", "lost"}
    /\ Ended
    /\ LeavesNothingOpen

(* The mdoc notifies whole messages.                                       *)
Spoken ==
    /\ outgoing # <<>> => speaking \in Responses
    /\ \A i \in 1..Len(outgoing) : outgoing[i].last <=> i = Len(outgoing)

IInv == TypeOK /\ Sent /\ Linked /\ Spoken
-----------------------------------------------------------------------------
(* The two STATE writes are chunks.                                        *)
LEMMA States == STATE_START \in ChunkType /\ STATE_END \in ChunkType
<1>1. <<-1>> \in Seq(Int)
  OBVIOUS
<1> QED
  BY <1>1 DEF STATE_START, STATE_END, Chunk, ChunkType

(* Any message cut to a negotiated size is a sequence of chunks.           *)
LEMMA CutTyped ==
    ASSUME NEW m \in Seq(Int), NEW size \in Nat, size >= 2
    PROVE  /\ ChunkMessage(m, size) \in Seq(ChunkType)
           /\ Len(ChunkMessage(m, size)) = ChunkCount(m, size)
           /\ ChunkCount(m, size) \in Nat \ {0}
BY ChunksTyped, CountOfChunks DEF ChunkType

(* The script, entry by entry.                                             *)
LEMMA ScriptEntries ==
    ASSUME mtu \in Mtus
    PROVE  /\ Cut \in Seq(ChunkType) /\ Len(Cut) \in Nat \ {0}
           /\ Script \in Seq(ChunkType) /\ Len(Script) = Len(Cut) + 2
           /\ Script[1] = STATE_START /\ Script[Len(Cut) + 2] = STATE_END
           /\ \A i \in 1..Len(Cut) : Script[i + 1] = Cut[i]
<1>1. NegotiateChunkSize(mtu) \in Nat /\ NegotiateChunkSize(mtu) >= 2
  BY BleCentralAssumption, SizeNegotiated
<1>2. Cut \in Seq(ChunkType) /\ Len(Cut) \in Nat \ {0}
  BY <1>1, CutTyped, BleCentralAssumption DEF Cut
<1>3. Script = (<<STATE_START>> \o Cut) \o <<STATE_END>>
  BY DEF Script, Cut
<1> HIDE DEF Cut, Script
<1> DEFINE s == <<STATE_START>> \o Cut
<1>4. s \in Seq(ChunkType) /\ Len(s) = Len(Cut) + 1 /\ s[1] = STATE_START
      /\ \A i \in 1..Len(Cut) : s[i + 1] = Cut[i]
  BY <1>2, States
<1> HIDE DEF s
<1>5. Script = s \o <<STATE_END>>
  BY <1>3 DEF s
<1>6. Script \in Seq(ChunkType) /\ Len(Script) = Len(Cut) + 2 /\ Script[Len(Cut) + 2] = STATE_END
  BY <1>2, <1>4, <1>5, States
<1>7. \A i \in 1..(Len(Cut) + 1) : Script[i] = s[i]
  BY <1>2, <1>4, <1>5, States
<1> QED
  BY <1>2, <1>4, <1>6, <1>7

(* Writing the next entry of the script follows it.                        *)
LEMMA OneMore ==
    ASSUME NEW S, NEW s \in Seq(S), NEW w \in Seq(S), NEW e,
           Len(w) < Len(s), w = SubSeq(s, 1, Len(w)), e = s[Len(w) + 1]
    PROVE  /\ Append(w, e) \in Seq(S) /\ Len(Append(w, e)) = Len(w) + 1
           /\ Append(w, e) = SubSeq(s, 1, Len(w) + 1)
<1> DEFINE n == Len(w)
           a == Append(w, e)
           b == SubSeq(s, 1, n + 1)
<1>1. n \in Nat /\ n < Len(s) /\ Len(s) \in Nat /\ n = Len(w)
  OBVIOUS
<1>2. \A i \in 1..(n + 1) : s[i] \in S
  BY <1>1
<1>3. e \in S
  BY <1>1, <1>2
<1> HIDE DEF n
<1>4. a \in Seq(S) /\ Len(a) = n + 1 /\ a[n + 1] = e /\ \A i \in 1..n : a[i] = w[i]
  BY <1>1, <1>3
<1>5. b \in Seq(S)
  BY <1>1, <1>2, SubSeqProperties
<1>6. Len(b) = n + 1
  BY <1>1
<1>7. \A i \in 1..(n + 1) : b[i] = s[i]
  BY <1>1
<1>8. \A i \in 1..n : w[i] = s[i]
  BY <1>1 DEF n
<1>9. \A i \in 1..(n + 1) : a[i] = b[i]
  BY <1>1, <1>4, <1>7, <1>8
<1> HIDE DEF a, b
<1>10. a = b
  BY <1>4, <1>5, <1>6, <1>9, SeqEqual
<1> QED
  BY <1>4, <1>10 DEF a, b, n

(* The invariant holds initially.                                          *)
LEMMA InitIInv == Init => IInv
<1> SUFFICES ASSUME Init PROVE IInv
  OBVIOUS
<1>1. TypeOK
  <2>1. /\ chunks \in Seq(ChunkType) /\ written \in Seq(ChunkType) /\ buffer \in Seq(Int)
        /\ air \in Seq(ChunkType \cup {EmptyValue}) /\ outgoing \in Seq(ChunkType)
        /\ completed \in Seq(Responses)
    BY DEF Init
  <2>2. begun \in 0..MaxMessages /\ empties \in 0..MaxEmpty
    BY BleCentralAssumption DEF Init
  <2>3. /\ pc = "scan" /\ outcome = "none" /\ link = "none" /\ future = "pending"
        /\ result = NoMessage /\ speaking = NoMessage /\ mtu \in Mtus /\ subscribed \in BOOLEAN
        /\ endFailed \in BOOLEAN
    BY DEF Init
  <2> QED
    BY <2>1, <2>2, <2>3 DEF TypeOK
<1>2. ScriptFollowed
  <2>1. Len(Script) \in Nat /\ Script \in Seq(ChunkType)
    BY ScriptEntries DEF Init
  <2>2. SubSeq(Script, 1, 0) = <<>>
    BY <2>1
  <2> QED
    BY <2>1, <2>2 DEF Init, ScriptFollowed
<1>3. Sent /\ Linked /\ Spoken
  BY <1>2 DEF Init, Sent, Linked, Spoken, Ended, LeavesNothingOpen
<1> QED
  BY <1>1, <1>3 DEF IInv

(* What the reader has written and where its connection is depends on      *)
(* these variables alone.                                                  *)
LEMMA SentUnchanged ==
    ASSUME IInv, UNCHANGED <<mtu, chunks, written, pc>>
    PROVE  Sent'
BY DEF IInv, Sent, ScriptFollowed, Script, Cut

(* So do the connection and its account of the session.                    *)
LEMMA LinkedUnchanged ==
    ASSUME IInv, UNCHANGED <<mtu, written, endFailed, pc, link, outcome>>
    PROVE  Linked'
BY DEF IInv, Linked, Ended, LeavesNothingOpen, Script
-----------------------------------------------------------------------------
(* Scan preserves the invariant.                                           *)
LEMMA ScanIInv == IInv /\ Scan => IInv'
<1> SUFFICES ASSUME IInv, Scan PROVE IInv'
  OBVIOUS
<1> USE DEF Scan, promise, mdoc
<1>1. TypeOK'
  BY DEF IInv, TypeOK
<1>2. Sent'
  BY DEF IInv, Sent, ScriptFollowed, Script, Cut
<1>3. Linked'
  BY DEF IInv, Linked, Ended, LeavesNothingOpen
<1>4. Spoken'
  BY DEF IInv, Spoken
<1> QED
  BY <1>1, <1>2, <1>3, <1>4 DEF IInv

(* Connect preserves the invariant.                                        *)
LEMMA ConnectIInv == IInv /\ Connect => IInv'
<1> SUFFICES ASSUME IInv, Connect PROVE IInv'
  OBVIOUS
<1> USE DEF Connect, promise, mdoc
<1>1. TypeOK'
  BY DEF IInv, TypeOK
<1>2. Sent'
  BY DEF IInv, Sent, ScriptFollowed, Script, Cut
<1>3. Linked'
  BY DEF IInv, Linked, Ended, LeavesNothingOpen
<1>4. Spoken'
  BY DEF IInv, Spoken
<1> QED
  BY <1>1, <1>2, <1>3, <1>4 DEF IInv

(* BleError preserves the invariant.                                       *)
LEMMA BleErrorIInv == IInv /\ BleError => IInv'
<1> SUFFICES ASSUME IInv, BleError PROVE IInv'
  OBVIOUS
<1> USE DEF BleError, promise, mdoc
<1>1. TypeOK'
  BY DEF IInv, TypeOK
<1>2. Sent'
  BY DEF IInv, Sent, ScriptFollowed, Script, Cut
<1>3. Linked'
  BY DEF IInv, Linked, Ended, LeavesNothingOpen
<1>4. Spoken'
  BY DEF IInv, Spoken
<1> QED
  BY <1>1, <1>2, <1>3, <1>4 DEF IInv

(* Subscribe preserves the invariant.                                      *)
LEMMA SubscribeIInv == IInv /\ Subscribe => IInv'
<1> SUFFICES ASSUME IInv, Subscribe PROVE IInv'
  OBVIOUS
<1> USE DEF Subscribe, promise, mdoc
<1>1. TypeOK'
  BY DEF IInv, TypeOK
<1>2. Sent'
  BY DEF IInv, Sent, ScriptFollowed, Script, Cut
<1>3. Linked'
  BY DEF IInv, Linked, Ended, LeavesNothingOpen
<1>4. Spoken'
  BY DEF IInv, Spoken
<1> QED
  BY <1>1, <1>2, <1>3, <1>4 DEF IInv

(* Start preserves the invariant.                                          *)
LEMMA StartIInv == IInv /\ Start => IInv'
<1> SUFFICES ASSUME IInv, Start PROVE IInv'
  OBVIOUS
<1> USE DEF Start, promise, mdoc
<1>1. mtu \in Mtus /\ written = <<>> /\ written \in Seq(ChunkType) /\ Script' = Script /\ Cut' = Cut
      /\ written = SubSeq(Script, 1, Len(written))
  BY DEF IInv, TypeOK, Sent, ScriptFollowed, Script, Cut
<1>2. Cut \in Seq(ChunkType) /\ Len(Cut) \in Nat \ {0} /\ Script \in Seq(ChunkType)
      /\ Len(Script) = Len(Cut) + 2 /\ Script[1] = STATE_START
  BY <1>1, ScriptEntries
<1>3. chunks' = Cut
  BY DEF Cut
<1>4. /\ written' \in Seq(ChunkType) /\ Len(written') = 1
      /\ written' = SubSeq(Script, 1, 1)
  <2>1. Len(written) = 0 /\ Len(written) < Len(Script)
    BY <1>1, <1>2
  <2>2. STATE_START = Script[Len(written) + 1]
    BY <1>2, <2>1
  <2>3. /\ Append(written, STATE_START) \in Seq(ChunkType)
        /\ Len(Append(written, STATE_START)) = Len(written) + 1
        /\ Append(written, STATE_START) = SubSeq(Script, 1, Len(written) + 1)
    BY <1>1, <1>2, <2>1, <2>2, OneMore
  <2> QED
    BY <2>1, <2>3
<1>5. TypeOK'
  BY <1>2, <1>3, <1>4 DEF IInv, TypeOK
<1>6. Sent'
  BY <1>1, <1>2, <1>3, <1>4 DEF Sent, ScriptFollowed
<1>7. Linked'
  BY DEF IInv, Linked, Ended, LeavesNothingOpen
<1>8. Spoken'
  BY DEF IInv, Spoken
<1> QED
  BY <1>5, <1>6, <1>7, <1>8 DEF IInv

(* WriteChunk preserves the invariant.                                     *)
LEMMA WriteChunkIInv == IInv /\ WriteChunk => IInv'
<1> SUFFICES ASSUME IInv, WriteChunk PROVE IInv'
  OBVIOUS
<1> USE DEF WriteChunk, promise, mdoc
<1> DEFINE n == Len(written)
<1>1. /\ mtu \in Mtus /\ written \in Seq(ChunkType) /\ Script' = Script /\ Cut' = Cut
      /\ chunks = Cut /\ n \in 1..Len(Cut) /\ written = SubSeq(Script, 1, n)
      /\ written' = Append(written, chunks[n])
  BY DEF IInv, TypeOK, Sent, ScriptFollowed, Script, Cut
<1>2. Cut \in Seq(ChunkType) /\ Len(Cut) \in Nat \ {0} /\ Script \in Seq(ChunkType)
      /\ Len(Script) = Len(Cut) + 2 /\ \A i \in 1..Len(Cut) : Script[i + 1] = Cut[i]
  BY <1>1, ScriptEntries
<1>3. /\ written' \in Seq(ChunkType) /\ Len(written') = n + 1
      /\ written' = SubSeq(Script, 1, n + 1)
  <2>1. n < Len(Script) /\ chunks[n] = Script[n + 1]
    BY <1>1, <1>2
  <2> QED
    BY <1>1, <1>2, <2>1, OneMore
<1>4. TypeOK'
  BY <1>3 DEF IInv, TypeOK, EnterWait
<1>5. /\ pc = "chunks"
      /\ n = Len(Cut) => pc' \in {"wait", "end"}
      /\ n # Len(Cut) => pc' = "chunks"
  BY <1>1 DEF EnterWait
<1>6. ScriptFollowed'
  BY <1>1, <1>2, <1>3 DEF ScriptFollowed
<1>7. Sent'
  <2>1. CASE n = Len(Cut)
    BY <1>1, <1>3, <1>5, <1>6, <2>1 DEF Sent
  <2>2. CASE n # Len(Cut)
    <3>1. n + 1 \in 1..Len(Cut) /\ chunks' = Cut'
      BY <1>1, <1>2, <2>2
    <3> QED
      BY <1>1, <1>3, <1>5, <1>6, <2>2, <3>1 DEF Sent
  <2> QED
    BY <2>1, <2>2
<1>8. Linked'
  <2>1. pc' \in {"chunks", "wait", "end"} /\ link' = link
    BY <1>5
  <2> QED
    BY <2>1 DEF IInv, Linked, Ended, LeavesNothingOpen
<1>9. Spoken'
  BY DEF IInv, Spoken
<1> QED
  BY <1>4, <1>7, <1>8, <1>9 DEF IInv

(* WaitResult preserves the invariant.                                     *)
LEMMA WaitResultIInv == IInv /\ WaitResult => IInv'
<1> SUFFICES ASSUME IInv, WaitResult PROVE IInv'
  OBVIOUS
<1> USE DEF WaitResult, promise, mdoc
<1>1. TypeOK'
  BY DEF IInv, TypeOK
<1>2. Sent'
  BY DEF IInv, Sent, ScriptFollowed, Script, Cut
<1>3. Linked'
  BY DEF IInv, Linked, Ended, LeavesNothingOpen
<1>4. Spoken'
  BY DEF IInv, Spoken
<1> QED
  BY <1>1, <1>2, <1>3, <1>4 DEF IInv

(* WaitTimeout preserves the invariant.                                    *)
LEMMA WaitTimeoutIInv == IInv /\ WaitTimeout => IInv'
<1> SUFFICES ASSUME IInv, WaitTimeout PROVE IInv'
  OBVIOUS
<1> USE DEF WaitTimeout, promise, mdoc
<1>1. TypeOK'
  BY DEF IInv, TypeOK
<1>2. Sent'
  BY DEF IInv, Sent, ScriptFollowed, Script, Cut
<1>3. Linked'
  BY DEF IInv, Linked, Ended, LeavesNothingOpen
<1>4. Spoken'
  BY DEF IInv, Spoken
<1> QED
  BY <1>1, <1>2, <1>3, <1>4 DEF IInv

(* End preserves the invariant.                                            *)
LEMMA EndIInv == IInv /\ End => IInv'
<1> SUFFICES ASSUME IInv, End PROVE IInv'
  OBVIOUS
<1> USE DEF End, promise, mdoc
<1>1. /\ mtu \in Mtus /\ written \in Seq(ChunkType) /\ Script' = Script /\ Cut' = Cut
      /\ Len(written) = Len(Cut) + 1 /\ written = SubSeq(Script, 1, Len(written))
  BY DEF IInv, TypeOK, Sent, ScriptFollowed, Script, Cut
<1>2. Len(Cut) \in Nat /\ Script \in Seq(ChunkType)
      /\ Len(Script) = Len(Cut) + 2 /\ Script[Len(Cut) + 2] = STATE_END
  BY <1>1, ScriptEntries
<1>3. outcome # "none" /\ link \in {"up", "lost"} /\ pc' = "close" /\ link' = link
  BY DEF IInv, TypeOK, Linked
<1>4. CASE EndWritten
  <2>1. Len(written) < Len(Script) /\ STATE_END = Script[Len(written) + 1]
        /\ Len(written) + 1 = Len(Script)
    BY <1>1, <1>2
  <2>2. /\ Append(written, STATE_END) \in Seq(ChunkType)
        /\ Len(Append(written, STATE_END)) = Len(written) + 1
        /\ Append(written, STATE_END) = SubSeq(Script, 1, Len(written) + 1)
    BY <1>1, <1>2, <2>1, OneMore
  <2>3. SubSeq(Script, 1, Len(Script)) = Script
    BY <1>2, SubSeqFull
  <2>4. /\ written' \in Seq(ChunkType) /\ Len(written') = Len(Script)
        /\ written' = SubSeq(Script, 1, Len(Script)) /\ written' = Script
    BY <1>4, <2>1, <2>2, <2>3 DEF EndWritten
  <2>5. TypeOK'
    BY <1>3, <1>4, <2>4 DEF EndWritten, IInv, TypeOK
  <2>6. Sent'
    BY <1>1, <1>2, <1>3, <2>4 DEF Sent, ScriptFollowed
  <2>7. Linked'
    BY <1>1, <1>3, <2>4 DEF Linked, Ended, LeavesNothingOpen
  <2> QED
    BY <2>5, <2>6, <2>7 DEF IInv, Spoken
<1>5. CASE EndRaises
  <2>1. written' = written /\ endFailed' = TRUE /\ outcome' \in {outcome, "end_error"}
    BY <1>5 DEF EndRaises, OutcomeOfEnd
  <2>2. TypeOK'
    BY <1>3, <2>1 DEF IInv, TypeOK
  <2>3. Sent'
    BY <1>1, <1>2, <1>3, <2>1 DEF Sent, ScriptFollowed
  <2>4. Linked'
    BY <1>1, <1>2, <1>3, <2>1 DEF Linked, Ended, LeavesNothingOpen
  <2> QED
    BY <2>2, <2>3, <2>4 DEF IInv, Spoken
<1> QED
  BY <1>4, <1>5

(* Close preserves the invariant.                                          *)
LEMMA CloseIInv == IInv /\ Close => IInv'
<1> SUFFICES ASSUME IInv, Close PROVE IInv'
  OBVIOUS
<1> USE DEF Close, Disconnected, promise, mdoc
<1>1. TypeOK'
  BY DEF IInv, TypeOK
<1>2. Sent'
  BY DEF IInv, Sent, ScriptFollowed, Script, Cut
<1>3. Linked'
  <2>1. Script' = Script
    BY DEF Script
  <2> QED
    BY <2>1 DEF IInv, Linked, Ended, LeavesNothingOpen
<1>4. Spoken'
  BY DEF IInv, Spoken
<1> QED
  BY <1>1, <1>2, <1>3, <1>4 DEF IInv

(* Interrupt preserves the invariant.                                      *)
LEMMA InterruptIInv == IInv /\ Interrupt => IInv'
<1> SUFFICES ASSUME IInv, Interrupt PROVE IInv'
  OBVIOUS
<1> USE DEF Interrupt, PcAfterInterrupt, promise, mdoc
<1>1. TypeOK'
  BY DEF IInv, TypeOK
<1>2. Sent'
  BY DEF IInv, Sent, ScriptFollowed, Script, Cut
<1>3. Linked'
  BY DEF IInv, TypeOK, Linked, Ended, LeavesNothingOpen
<1>4. Spoken'
  BY DEF IInv, Spoken
<1> QED
  BY <1>1, <1>2, <1>3, <1>4 DEF IInv
-----------------------------------------------------------------------------
(* Callback preserves the invariant.                                       *)
LEMMA CallbackIInv == IInv /\ OnServer2Client => IInv'
<1> SUFFICES ASSUME IInv, OnServer2Client PROVE IInv'
  OBVIOUS
<1> USE DEF OnServer2Client, Resolve, reader, mdoc
<1>1. air[1] \in ChunkType \cup {EmptyValue} /\ air' \in Seq(ChunkType \cup {EmptyValue})
      /\ Head(air) = air[1] /\ buffer \in Seq(Int)
  BY DEF IInv, TypeOK
<1>2. ASSUME air[1] # EmptyValue
      PROVE  FeedBuffer(buffer, air[1]) \in Seq(Int) /\ FeedResult(buffer, air[1]) \in Seq(Int)
  <2>1. air[1].payload \in Seq(Int)
    BY <1>1, <1>2 DEF ChunkType
  <2> QED
    BY <1>1, <2>1 DEF FeedBuffer, FeedResult
<1>3. /\ buffer' \in Seq(Int) /\ result' \in Seq(Int) \cup {NoMessage}
      /\ future' \in {"pending", "result", "cancelled"}
  <2>1. CASE air[1] = EmptyValue
    BY <1>1, <2>1 DEF promise, IInv, TypeOK
  <2>2. CASE air[1] # EmptyValue
    BY <1>1, <1>2, <2>2 DEF IInv, TypeOK
  <2> QED
    BY <2>1, <2>2
<1>4. TypeOK'
  BY <1>1, <1>3 DEF IInv, TypeOK
<1>5. Sent' /\ Linked'
  BY SentUnchanged, LinkedUnchanged
<1>6. Spoken'
  BY DEF IInv, Spoken
<1> QED
  BY <1>4, <1>5, <1>6 DEF IInv

(* MdocBegin preserves the invariant.                                      *)
LEMMA MdocBeginIInv == IInv /\ MdocBegin => IInv'
<1> SUFFICES ASSUME IInv, MdocBegin PROVE IInv'
  OBVIOUS
<1>1. PICK m \in Responses, size \in MIN_CHUNK_SIZE..MAX_CHUNK_SIZE :
          outgoing' = ChunkMessage(m, size) /\ speaking' = m
  BY DEF MdocBegin
<1>2. m \in Seq(Int) /\ size \in Nat /\ size >= 2
  BY BleCentralAssumption, ChunkSizeAssumption
<1>3. outgoing' \in Seq(ChunkType) /\ Len(outgoing') = ChunkCount(m, size)
  BY <1>1, <1>2, CutTyped
<1>4. TypeOK'
  <2>1. begun' \in 0..MaxMessages
    BY BleCentralAssumption DEF MdocBegin, IInv, TypeOK
  <2> QED
    BY <1>1, <1>3, <2>1 DEF MdocBegin, reader, promise, IInv, TypeOK
<1>5. Sent' /\ Linked'
  BY SentUnchanged, LinkedUnchanged DEF MdocBegin, reader
<1>6. \A i \in 1..ChunkCount(m, size) : outgoing'[i].last <=> i = ChunkCount(m, size)
  BY <1>1, <1>2, LastOnly
<1>7. Spoken'
  BY <1>1, <1>3, <1>6 DEF Spoken
<1> QED
  BY <1>4, <1>5, <1>7 DEF IInv

(* MdocNotify preserves the invariant.                                     *)
LEMMA MdocNotifyIInv == IInv /\ MdocNotify => IInv'
<1> SUFFICES ASSUME IInv, MdocNotify PROVE IInv'
  OBVIOUS
<1> USE DEF MdocNotify, reader, promise
<1> DEFINE n == Len(outgoing)
<1>1. /\ outgoing \in Seq(ChunkType) /\ n \in Nat \ {0} /\ Head(outgoing) = outgoing[1]
      /\ outgoing[1] \in ChunkType /\ speaking \in Responses /\ completed \in Seq(Responses)
      /\ air \in Seq(ChunkType \cup {EmptyValue})
  BY DEF IInv, TypeOK, Spoken
<1>2. /\ outgoing' \in Seq(ChunkType) /\ Len(outgoing') = n - 1
      /\ \A i \in 1..(n - 1) : outgoing'[i] = outgoing[i + 1]
  BY <1>1
<1>3. air' \in Seq(ChunkType \cup {EmptyValue})
  BY <1>1
<1>4. completed' \in Seq(Responses) /\ speaking' \in Responses \cup {NoMessage}
  <2>1. Append(completed, speaking) \in Seq(Responses)
    BY <1>1
  <2>2. \/ completed' = Append(completed, speaking) /\ speaking' = NoMessage
        \/ completed' = completed /\ speaking' = speaking
    OBVIOUS
  <2> QED
    BY <1>1, <2>1, <2>2
<1>5. TypeOK'
  BY <1>2, <1>3, <1>4 DEF IInv, TypeOK
<1>6. Sent' /\ Linked'
  BY SentUnchanged, LinkedUnchanged
<1>7. outgoing[1].last <=> n = 1
  <2>1. 1 \in 1..n
    BY <1>1
  <2>2. outgoing[1].last <=> 1 = n
    BY <2>1 DEF IInv, Spoken
  <2> QED
    BY <2>2
<1>8. outgoing' # <<>> => speaking' \in Responses
  <2>1. ASSUME n = 1 PROVE outgoing' = <<>>
    <3>1. Len(outgoing') = 0
      BY <1>2, <2>1
    <3> QED
      BY <1>2, <3>1
  <2>2. ~outgoing[1].last => speaking' = speaking
    BY <1>1
  <2> QED
    BY <1>1, <1>7, <2>1, <2>2
<1>9. ASSUME NEW i \in 1..(n - 1) PROVE outgoing'[i].last <=> i = n - 1
  <2>1. i + 1 \in 1..n /\ (i + 1 = n <=> i = n - 1)
    BY <1>1
  <2>2. outgoing[i + 1].last <=> i + 1 = n
    BY <2>1 DEF IInv, Spoken
  <2> QED
    BY <1>2, <2>1, <2>2
<1>10. Spoken'
  BY <1>2, <1>8, <1>9 DEF Spoken
<1> QED
  BY <1>5, <1>6, <1>10 DEF IInv

(* MdocNotifyEmpty preserves the invariant.                                *)
LEMMA MdocNotifyEmptyIInv == IInv /\ MdocNotifyEmpty => IInv'
<1> SUFFICES ASSUME IInv, MdocNotifyEmpty PROVE IInv'
  OBVIOUS
<1> USE DEF MdocNotifyEmpty, reader, promise
<1>1. TypeOK'
  BY BleCentralAssumption DEF IInv, TypeOK
<1>2. Sent' /\ Linked'
  BY SentUnchanged, LinkedUnchanged
<1>3. Spoken'
  BY DEF IInv, Spoken
<1> QED
  BY <1>1, <1>2, <1>3 DEF IInv

(* MdocHangUp preserves the invariant.                                     *)
LEMMA MdocHangUpIInv == IInv /\ MdocHangUp => IInv'
<1> SUFFICES ASSUME IInv, MdocHangUp PROVE IInv'
  OBVIOUS
<1> USE DEF MdocHangUp, reader, promise, mdoc
<1>1. air' \in Seq(ChunkType \cup {EmptyValue})
  BY DEF IInv, TypeOK
<1>2. TypeOK'
  BY <1>1 DEF IInv, TypeOK
<1>3. Sent'
  BY SentUnchanged
<1>4. Linked'
  <2>1. Script' = Script
    BY DEF Script
  <2> QED
    BY <2>1 DEF IInv, Linked, Ended, LeavesNothingOpen
<1>5. Spoken'
  BY DEF IInv, Spoken
<1> QED
  BY <1>2, <1>3, <1>4, <1>5 DEF IInv

(* A step that changes nothing preserves the invariant.                    *)
LEMMA StutterIInv == IInv /\ UNCHANGED vars => IInv'
<1> SUFFICES ASSUME IInv, UNCHANGED vars PROVE IInv'
  OBVIOUS
<1> USE DEF vars, reader, promise, mdoc
<1>1. TypeOK'
  BY DEF IInv, TypeOK
<1>2. Sent' /\ Linked'
  BY SentUnchanged, LinkedUnchanged
<1>3. Spoken'
  BY DEF IInv, Spoken
<1> QED
  BY <1>1, <1>2, <1>3 DEF IInv

(* The invariant holds in every behaviour of ble.exchange                  *)
(* (ble.py:102-152).                                                       *)
THEOREM Inductive == Spec => []IInv
<1>1. IInv /\ [Next]_vars => IInv'
  BY ScanIInv, ConnectIInv, BleErrorIInv, SubscribeIInv, StartIInv, WriteChunkIInv,
     WaitResultIInv, WaitTimeoutIInv, EndIInv, CloseIInv, InterruptIInv, CallbackIInv,
     MdocBeginIInv, MdocNotifyIInv, MdocNotifyEmptyIInv, MdocHangUpIInv, StutterIInv
     DEF Next, Coroutine
<1> QED
  BY InitIInv, <1>1, PTL DEF Spec
-----------------------------------------------------------------------------
(* The variables of exchange keep their types; the outcome is decided      *)
(* exactly when the coroutine has left the try statement (ble.py:133).     *)
THEOREM TypeCorrect == Spec => []TypeOK
<1>1. IInv => TypeOK
  BY DEF IInv
<1> QED
  BY <1>1, Inductive, PTL

(* Whatever the mdoc does, it sees STATE_START, the chunks of the request  *)
(* in order and STATE_END, or a beginning of that (ble.py:124-142).        *)
THEOREM SessionInOrder == Spec => []ScriptFollowed
<1>1. IInv => ScriptFollowed
  BY DEF IInv, Sent
<1> QED
  BY <1>1, Inductive, PTL

(* Only a Ctrl-C, or a disconnection that raises, leaves a connection up,  *)
(* and an answer, a timeout or a failing STATE_END ends an exchange only   *)
(* when the whole request was written and STATE_END tried                  *)
(* (ble.py:122-145).                                                       *)
THEOREM NothingLeftOpen == Spec => []LeavesNothingOpen
<1>1. IInv => LeavesNothingOpen
  BY DEF IInv, Linked
<1> QED
  BY <1>1, Inductive, PTL

(* The future is set at most once and never changed (ble.py:119).          *)
THEOREM FutureResolvedOnce == Spec => ResolvedOnce
<1>1. [Next]_vars => [future # "pending" => UNCHANGED <<future, result>>]_vars
  <2> SUFFICES ASSUME Next, future # "pending" PROVE UNCHANGED <<future, result>>
    BY DEF vars
  <2> USE DEF promise, reader
  <2>1. CASE Coroutine
    BY <2>1 DEF Coroutine, Scan, Connect, BleError, Subscribe, Start, WriteChunk, WaitResult,
                WaitTimeout, End, Close
  <2>2. CASE Interrupt
    BY <2>2 DEF Interrupt
  <2>3. CASE OnServer2Client
    BY <2>3 DEF OnServer2Client, Resolve
  <2>4. CASE MdocBegin \/ MdocNotify \/ MdocNotifyEmpty \/ MdocHangUp
    BY <2>4 DEF MdocBegin, MdocNotify, MdocNotifyEmpty, MdocHangUp
  <2> QED
    BY <2>1, <2>2, <2>3, <2>4 DEF Next
<1> QED
  BY <1>1, PTL DEF Spec, ResolvedOnce

(* What ended the exchange is what the caller learns, unless Ctrl-C, the   *)
(* disconnection or an unforeseen exception of STATE_END comes between: no *)
(* lost link and nothing the mdoc does replaces it, and nothing makes an   *)
(* answer of it (ble.py:135-152).                                          *)
THEOREM VerdictNeverReplaced == Spec => VerdictStands
<1> DEFINE stands == \/ outcome' \in {outcome, "interrupted"}
                     \/ pc = "end" /\ endFailed' /\ outcome' = "end_error"
                     \/ pc = "close" /\ pc' = "done" /\ outcome' = "close_error"
<1>1. TypeOK /\ [Next]_vars => [outcome # "none" => stands]_vars
  <2> SUFFICES ASSUME TypeOK, Next, outcome # "none" PROVE stands
    BY DEF vars
  <2>1. pc \notin {"scan", "connect", "subscribe", "start", "chunks", "wait"}
    BY DEF TypeOK
  <2>2. CASE End
    BY <2>2 DEF End, EndWritten, EndRaises, OutcomeOfEnd
  <2>3. CASE Close
    BY <2>3 DEF Close
  <2>4. CASE Coroutine /\ ~End /\ ~Close
    BY <2>1, <2>4 DEF Coroutine, Scan, Connect, BleError, Subscribe, Start, WriteChunk,
                      WaitResult, WaitTimeout
  <2>5. CASE Interrupt
    BY <2>5 DEF Interrupt
  <2>6. CASE OnServer2Client \/ MdocBegin \/ MdocNotify \/ MdocNotifyEmpty \/ MdocHangUp
    BY <2>6 DEF OnServer2Client, MdocBegin, MdocNotify, MdocNotifyEmpty, MdocHangUp, reader
  <2> QED
    BY <2>2, <2>3, <2>4, <2>5, <2>6 DEF Next
<1> QED
  BY <1>1, TypeCorrect, PTL DEF Spec, VerdictStands
-----------------------------------------------------------------------------
(* The rest is the safety of ImplementsContract.  Its invariant says what  *)
(* the callback has still to see while the future is pending.  place[i]    *)
(* counts the chunks notified up to air[i], and place[0] those that the    *)
(* callback has had: up to the end of the mdoc's first message they are    *)
(* its chunks.                                                             *)
Fits(q, m, size, place) ==
    /\ place \in [0..Len(q) -> Nat]
    /\ \A i \in 1..Len(q) :
          IF q[i] = EmptyValue THEN place[i] = place[i - 1]
          ELSE /\ place[i] = place[i - 1] + 1
               /\ place[i] <= ChunkCount(m, size) => q[i] = ChunkMessage(m, size)[place[i]]

(* The mdoc may notify, now or when a connection is made.                  *)
Live == link \in {"none", "up"}

(* The first message is m: what the callback has had of it is in the       *)
(* buffer, and all of it has been notified, or the rest is outgoing.       *)
Follows(m, size, place) ==
    /\ Fits(air, m, size, place)
    /\ place[0] < ChunkCount(m, size) /\ buffer = SubSeq(m, 1, ChunkEnd(m, size, place[0]))
    /\ completed = <<>> =>
          /\ \A i \in 0..Len(air) : place[i] < ChunkCount(m, size)
          /\ Live => /\ speaking = m /\ Len(outgoing) = ChunkCount(m, size) - place[Len(air)]
                     /\ \A i \in 1..Len(outgoing) :
                           outgoing[i] = ChunkMessage(m, size)[place[Len(air)] + i]
    /\ completed # <<>> =>
          /\ Head(completed) = m
          /\ Live => place[Len(air)] >= ChunkCount(m, size)

(* No message has been begun.                                              *)
Silent ==
    /\ completed = <<>> /\ buffer = <<>> /\ (Live => outgoing = <<>>)
    /\ \A i \in 1..Len(air) : air[i] = EmptyValue

Tracked ==
    \/ Silent
    \/ \E m \in Responses, size \in MIN_CHUNK_SIZE..MAX_CHUNK_SIZE :
          \E place \in [0..Len(air) -> Nat] : Follows(m, size, place)

Heard ==
    /\ future = "pending" => Tracked
    /\ future = "result" => completed # <<>> /\ result = Head(completed)
    /\ outcome = "message" => future = "result"

(* The counts of what is left when the callback has had the first value.   *)
LEMMA FitsTail ==
    ASSUME NEW S, NEW q \in Seq(S), q # <<>>, NEW m, NEW size, NEW place, Fits(q, m, size, place)
    PROVE  /\ Len(Tail(q)) = Len(q) - 1
           /\ Fits(Tail(q), m, size, [i \in 0..(Len(q) - 1) |-> place[i + 1]])
<1> DEFINE n == Len(q)
           t == Tail(q)
           later == [i \in 0..(n - 1) |-> place[i + 1]]
<1>1. n \in Nat \ {0} /\ Len(t) = n - 1 /\ \A i \in 1..(n - 1) : t[i] = q[i + 1]
  BY HeadTailProperties
<1>2. place \in [0..n -> Nat]
  BY DEF Fits
<1> HIDE DEF n, t
<1>3. later \in [0..(n - 1) -> Nat]
  BY <1>1, <1>2
<1>4. ASSUME NEW i \in 1..(n - 1)
      PROVE  IF t[i] = EmptyValue THEN later[i] = later[i - 1]
             ELSE /\ later[i] = later[i - 1] + 1
                  /\ later[i] <= ChunkCount(m, size) => t[i] = ChunkMessage(m, size)[later[i]]
  <2>1. i + 1 \in 1..n /\ (i + 1) - 1 = i /\ i \in 0..(n - 1) /\ i - 1 \in 0..(n - 1) /\ (i - 1) + 1 = i
    BY <1>1
  <2>2. later[i] = place[i + 1] /\ later[i - 1] = place[i] /\ t[i] = q[i + 1]
    BY <1>1, <2>1
  <2>3. IF q[i + 1] = EmptyValue THEN place[i + 1] = place[(i + 1) - 1]
        ELSE /\ place[i + 1] = place[(i + 1) - 1] + 1
             /\ place[i + 1] <= ChunkCount(m, size) => q[i + 1] = ChunkMessage(m, size)[place[i + 1]]
    BY <2>1 DEF Fits, n
  <2> HIDE DEF later
  <2> QED
    BY <2>1, <2>2, <2>3
<1> HIDE DEF later
<1>5. Fits(t, m, size, later)
  BY <1>1, <1>3, <1>4 DEF Fits
<1> QED
  BY <1>1, <1>5 DEF n, t, later

(* The counts when one more value is notified.                             *)
OneFurther(q, place, v) ==
    [i \in 0..(Len(q) + 1) |->
        IF i <= Len(q) THEN place[i] ELSE IF v = EmptyValue THEN place[Len(q)] ELSE place[Len(q)] + 1]

LEMMA FitsAppend ==
    ASSUME NEW S, NEW q \in Seq(S), NEW v \in S, NEW m, NEW size, NEW place, Fits(q, m, size, place),
           ChunkCount(m, size) \in Nat,
           v # EmptyValue /\ place[Len(q)] < ChunkCount(m, size)
               => v = ChunkMessage(m, size)[place[Len(q)] + 1]
    PROVE  /\ Len(Append(q, v)) = Len(q) + 1
           /\ Fits(Append(q, v), m, size, OneFurther(q, place, v))
<1> DEFINE n == Len(q)
           a == Append(q, v)
           more == OneFurther(q, place, v)
           fit(s, f, i) == IF s[i] = EmptyValue THEN f[i] = f[i - 1]
                           ELSE /\ f[i] = f[i - 1] + 1
                                /\ f[i] <= ChunkCount(m, size) => s[i] = ChunkMessage(m, size)[f[i]]
<1>1. n \in Nat /\ Len(a) = n + 1 /\ a[n + 1] = v /\ \A i \in 1..n : a[i] = q[i]
  OBVIOUS
<1>2. place \in [0..n -> Nat] /\ \A i \in 1..n : fit(q, place, i)
  BY DEF Fits
<1>3. /\ more \in [0..(n + 1) -> Nat] /\ \A i \in 0..n : more[i] = place[i]
      /\ more[n + 1] = IF v = EmptyValue THEN place[n] ELSE place[n] + 1
  <2>1. more = [i \in 0..(n + 1) |->
                  IF i <= n THEN place[i] ELSE IF v = EmptyValue THEN place[n] ELSE place[n] + 1]
    BY DEF OneFurther
  <2> HIDE DEF n, more
  <2> QED
    BY <1>1, <1>2, <2>1
<1>4. v # EmptyValue /\ place[n] < ChunkCount(m, size) => v = ChunkMessage(m, size)[place[n] + 1]
  OBVIOUS
<1> HIDE DEF n, a, more
<1>5. ASSUME NEW i \in 1..n PROVE fit(a, more, i)
  <2>1. i \in 0..n /\ i - 1 \in 0..n
    BY <1>1
  <2>2. a[i] = q[i] /\ more[i] = place[i] /\ more[i - 1] = place[i - 1]
    BY <1>1, <1>3, <2>1
  <2>3. fit(q, place, i)
    BY <1>2
  <2> QED
    BY <2>2, <2>3
<1>6. fit(a, more, n + 1)
  <2>1. (n + 1) - 1 = n /\ n \in 0..n /\ place[n] \in Nat
    BY <1>1, <1>2
  <2>2. more[(n + 1) - 1] = place[n]
    BY <1>3, <2>1
  <2> QED
    BY <1>1, <1>3, <1>4, <2>1, <2>2
<1>7. \A i \in 1..(n + 1) : fit(a, more, i)
  BY <1>1, <1>5, <1>6
<1>8. Fits(a, m, size, more)
  BY <1>1, <1>3, <1>7 DEF Fits
<1> QED
  BY <1>1, <1>8 DEF n, a, more

(* The counts of a beginning of what was notified.                         *)
LEMMA FitsPrefix ==
    ASSUME NEW S, NEW q \in Seq(S), NEW n \in 0..Len(q), NEW m, NEW size, NEW place,
           Fits(q, m, size, place)
    PROVE  /\ Len(SubSeq(q, 1, n)) = n
           /\ Fits(SubSeq(q, 1, n), m, size, [i \in 0..n |-> place[i]])
<1> DEFINE b == SubSeq(q, 1, n)
           less == [i \in 0..n |-> place[i]]
<1>1. n \in Nat /\ Len(q) \in Nat /\ n <= Len(q) /\ Len(b) = n /\ \A i \in 1..n : b[i] = q[i]
  OBVIOUS
<1>2. place \in [0..Len(q) -> Nat]
  BY DEF Fits
<1>3. less \in [0..n -> Nat]
  BY <1>1, <1>2
<1> HIDE DEF b
<1>4. ASSUME NEW i \in 1..n
      PROVE  IF b[i] = EmptyValue THEN less[i] = less[i - 1]
             ELSE /\ less[i] = less[i - 1] + 1
                  /\ less[i] <= ChunkCount(m, size) => b[i] = ChunkMessage(m, size)[less[i]]
  <2>1. i \in 1..Len(q) /\ less[i] = place[i] /\ less[i - 1] = place[i - 1] /\ b[i] = q[i]
    BY <1>1
  <2> HIDE DEF less
  <2> QED
    BY <2>1 DEF Fits
<1> HIDE DEF less
<1>5. Fits(b, m, size, less)
  BY <1>1, <1>3, <1>4 DEF Fits
<1> QED
  BY <1>1, <1>5 DEF b, less

(* A message cut for the mdoc's link.                                      *)
LEMMA CutOf ==
    ASSUME NEW m \in Responses, NEW size \in MIN_CHUNK_SIZE..MAX_CHUNK_SIZE
    PROVE  /\ m \in Seq(Int) /\ size \in Nat /\ size >= 2
           /\ ChunkMessage(m, size) \in Seq(ChunkType)
           /\ Len(ChunkMessage(m, size)) = ChunkCount(m, size)
           /\ ChunkCount(m, size) \in Nat \ {0}
           /\ \A i \in 1..ChunkCount(m, size) :
                 ChunkMessage(m, size)[i].last <=> i = ChunkCount(m, size)
<1>1. m \in Seq(Int) /\ size \in Nat /\ size >= 2
  BY ChunkSizeAssumption, BleCentralAssumption
<1> QED
  BY <1>1, CutTyped, LastOnly

(* A step in which nobody says or hears anything.                          *)
LEMMA NothingHeard ==
    ASSUME Heard, UNCHANGED <<result, buffer, air, mdoc>>, Live' => Live,
           future' = future \/ (future = "pending" /\ future' = "cancelled"),
           outcome' = "message" => outcome = "message" \/ future' = "result"
    PROVE  Heard'
<1>1. UNCHANGED <<air, outgoing, speaking, completed>>
  BY DEF mdoc
<1>2. Silent => Silent'
  BY <1>1 DEF Silent
<1>3. ASSUME NEW m, NEW size, NEW place, Follows(m, size, place)
      PROVE  Follows(m, size, place)'
  BY <1>1, <1>3 DEF Follows, Fits
<1>4. Tracked => Tracked'
  BY <1>1, <1>2, <1>3 DEF Tracked
<1> QED
  BY <1>1, <1>4 DEF Heard

(* The coroutine neither says nor hears anything of the mdoc.              *)
LEMMA CoroutineHeard ==
    ASSUME IInv, Heard, Coroutine \/ Interrupt \/ UNCHANGED vars
    PROVE  Heard'
<1>1. UNCHANGED <<result, buffer, air, mdoc>>
  BY DEF Coroutine, Scan, Connect, BleError, Subscribe, Start, WriteChunk, WaitResult, WaitTimeout,
         End, Close, Interrupt, promise, vars
<1>2. Live' => Live
  <2>1. link \in {"none", "up", "lost", "closed"} /\ (pc = "connect" => link = "none")
    BY DEF IInv, TypeOK, Linked
  <2> QED
    BY <2>1 DEF Live, Coroutine, Scan, Connect, BleError, Subscribe, Start, WriteChunk, WaitResult,
                WaitTimeout, End, Close, Disconnected, Interrupt, vars
<1>3. future' = future \/ (future = "pending" /\ future' = "cancelled")
  BY DEF Coroutine, Scan, Connect, BleError, Subscribe, Start, WriteChunk, WaitResult, WaitTimeout,
         End, Close, Interrupt, promise, vars
<1>4. outcome' = "message" => outcome = "message" \/ future' = "result"
  BY DEF Coroutine, Scan, Connect, BleError, Subscribe, Start, WriteChunk, EnterWait, WaitResult,
         WaitTimeout, End, EndWritten, EndRaises, OutcomeOfEnd, Close, Interrupt, promise, vars,
         reader
<1> QED
  BY <1>1, <1>2, <1>3, <1>4, NothingHeard

(* The callback hears what is next.                                        *)
LEMMA CallbackHeard ==
    ASSUME IInv, Heard, OnServer2Client
    PROVE  Heard'
<1> DEFINE v == air[1]
           rest == Tail(air)
<1>1. /\ air # <<>> /\ air \in Seq(ChunkType \cup {EmptyValue}) /\ Head(air) = v
      /\ Len(air) \in Nat /\ 1 \in 1..Len(air)
      /\ Len(rest) = Len(air) - 1 /\ \A i \in 1..(Len(air) - 1) : rest[i] = air[i + 1]
  BY HeadTailProperties DEF OnServer2Client, IInv, TypeOK
<1>2. air' = rest /\ UNCHANGED <<outcome, link, outgoing, speaking, completed>>
  BY DEF OnServer2Client, reader, mdoc
<1>3. /\ v = EmptyValue => UNCHANGED <<future, result, buffer>>
      /\ v # EmptyValue =>
            /\ buffer' = FeedBuffer(buffer, v)
            /\ v.last => Resolve(buffer \o v.payload)
            /\ ~v.last => UNCHANGED <<future, result>>
  BY <1>1 DEF OnServer2Client, promise, FeedResult
<1>4. CASE future # "pending"
  <2>1. UNCHANGED <<future, result>>
    BY <1>3, <1>4 DEF Resolve
  <2> QED
    BY <1>2, <1>4, <2>1 DEF Heard
<1>5. CASE future = "pending" /\ Silent
  <2>1. v = EmptyValue /\ UNCHANGED <<future, result, buffer>>
    BY <1>1, <1>3, <1>5 DEF Silent
  <2>2. \A i \in 1..Len(rest) : rest[i] = EmptyValue
    BY <1>1, <1>5 DEF Silent
  <2> HIDE DEF rest
  <2>3. Silent'
    BY <1>2, <1>5, <2>1, <2>2 DEF Silent, Live
  <2> QED
    BY <1>2, <1>5, <2>1, <2>3 DEF Heard, Tracked
<1>6. CASE future = "pending" /\ ~Silent
  <2>1. PICK m \in Responses, size \in MIN_CHUNK_SIZE..MAX_CHUNK_SIZE :
            \E place \in [0..Len(air) -> Nat] : Follows(m, size, place)
    BY <1>6 DEF Heard, Tracked
  <2>2. PICK place \in [0..Len(air) -> Nat] : Follows(m, size, place)
    BY <2>1
  <2> DEFINE n == ChunkCount(m, size)
             C == ChunkMessage(m, size)
  <2> PICK later : later = [i \in 0..(Len(air) - 1) |-> place[i + 1]]
    OBVIOUS
  <2>3. /\ m \in Seq(Int) /\ size \in Nat /\ size >= 2 /\ n \in Nat \ {0}
        /\ C \in Seq(ChunkType) /\ Len(C) = n /\ \A i \in 1..n : C[i].last <=> i = n
    BY CutOf
  <2>4. Fits(rest, m, size, later) /\ later \in [0..Len(rest) -> Nat]
    <3>1. Fits(air, m, size, place)
      BY <2>2 DEF Follows
    <3>2. Fits(Tail(air), m, size, [i \in 0..(Len(air) - 1) |-> place[i + 1]])
      BY <1>1, <3>1, FitsTail, Zenon
    <3>3. Fits(rest, m, size, later)
      BY <3>2, Zenon
    <3> HIDE DEF rest
    <3> QED
      BY <3>3 DEF Fits
  <2>5. /\ place[0] \in Nat /\ place[1] \in Nat /\ place[0] < n
        /\ buffer = SubSeq(m, 1, ChunkEnd(m, size, place[0]))
        /\ v = EmptyValue => place[1] = place[0]
        /\ v # EmptyValue => place[1] = place[0] + 1 /\ v = C[place[1]]
    <3>1. 0 \in 0..Len(air) /\ 1 \in 0..Len(air) /\ 1 \in 1..Len(air) /\ 1 - 1 = 0
      BY <1>1
    <3>2. place[0] \in Nat /\ place[1] \in Nat
      BY <3>1
    <3>3. place[0] < n /\ buffer = SubSeq(m, 1, ChunkEnd(m, size, place[0]))
      BY <2>2 DEF Follows
    <3>4. IF v = EmptyValue THEN place[1] = place[1 - 1]
          ELSE place[1] = place[1 - 1] + 1 /\ (place[1] <= n => v = C[place[1]])
      BY <2>2, <3>1 DEF Follows, Fits
    <3> HIDE DEF n, C, v
    <3> QED
      BY <2>3, <3>1, <3>2, <3>3, <3>4
  <2>6. /\ later[0] = place[1] /\ later[Len(rest)] = place[Len(air)]
        /\ \A i \in 0..Len(rest) : later[i] = place[i + 1] /\ i + 1 \in 0..Len(air)
    <3>1. 0 \in 0..(Len(air) - 1) /\ Len(rest) \in 0..(Len(air) - 1) /\ Len(rest) + 1 = Len(air) /\ 0 + 1 = 1
      BY <1>1
    <3>2. \A i \in 0..(Len(air) - 1) : later[i] = place[i + 1] /\ i + 1 \in 0..Len(air)
      BY <1>1
    <3> QED
      BY <1>1, <3>1, <3>2
  <2> HIDE DEF rest, v
  <2>7. ASSUME place[1] < n, buffer' = SubSeq(m, 1, ChunkEnd(m, size, place[1])),
               UNCHANGED <<future, result>>
        PROVE  Heard'
    <3>1. completed = <<>> => \A i \in 0..Len(rest) : later[i] < n
      BY <2>2, <2>6 DEF Follows
    <3>2. Follows(m, size, later)'
      BY <1>2, <2>2, <2>4, <2>6, <2>7, <3>1 DEF Follows, Live
    <3>3. Tracked'
      BY <1>2, <2>4, <3>2 DEF Tracked
    <3> QED
      BY <1>2, <1>6, <2>7, <3>3 DEF Heard
  <2>8. CASE v = EmptyValue
    BY <1>3, <2>5, <2>7, <2>8
  <2>9. CASE v # EmptyValue
    <3>1. place[0] + 1 \in 1..n /\ v = C[place[0] + 1] /\ (v.last <=> place[0] + 1 = n)
      <4> HIDE DEF n, C
      <4>1. place[0] + 1 \in 1..n
        BY <2>3, <2>5
      <4> QED
        BY <2>3, <2>5, <2>9, <4>1
    <3>2. /\ buffer \o v.payload = SubSeq(m, 1, ChunkEnd(m, size, place[0] + 1))
          /\ place[0] + 1 = n => buffer \o v.payload = m
      BY <2>3, <2>5, <3>1, ChunksMeet
    <3>3. CASE v.last
      <4>1. future' = "result" /\ result' = m
        BY <1>3, <1>6, <2>9, <3>1, <3>2, <3>3 DEF Resolve
      <4>2. completed # <<>> /\ Head(completed) = m
        <5>1. place[1] = n /\ 1 \in 0..Len(air)
          BY <1>1, <2>5, <2>9, <3>1, <3>3
        <5>2. ~(place[1] < n)
          BY <2>3, <5>1
        <5> QED
          BY <2>2, <5>1, <5>2 DEF Follows
      <4> QED
        BY <1>2, <4>1, <4>2 DEF Heard
    <3>4. CASE ~v.last
      <4>1. buffer' = buffer \o v.payload /\ UNCHANGED <<future, result>>
        BY <1>3, <2>9, <3>4 DEF FeedBuffer
      <4>2. place[1] < n /\ place[1] = place[0] + 1
        <5> HIDE DEF n
        <5> QED
          BY <2>3, <2>5, <2>9, <3>1, <3>4
      <4> QED
        BY <2>7, <3>2, <4>1, <4>2
    <3> QED
      BY <3>3, <3>4
  <2> QED
    BY <2>8, <2>9
<1> QED
  BY <1>4, <1>5, <1>6

(* The mdoc begins a message: its first, or one of which nothing depends.  *)
LEMMA MdocBeginHeard ==
    ASSUME IInv, Heard, MdocBegin
    PROVE  Heard'
<1>1. PICK m \in Responses, size \in MIN_CHUNK_SIZE..MAX_CHUNK_SIZE :
          outgoing' = ChunkMessage(m, size) /\ speaking' = m
  BY DEF MdocBegin
<1>2. /\ Live /\ outgoing = <<>>
      /\ UNCHANGED <<outcome, link, future, result, buffer, air, completed>>
  BY DEF MdocBegin, Live, reader, promise
<1>3. /\ m \in Seq(Int) /\ size \in Nat /\ size >= 2 /\ Len(ChunkMessage(m, size)) = ChunkCount(m, size)
      /\ ChunkCount(m, size) \in Nat \ {0}
  BY CutOf
<1>4. ASSUME Silent PROVE Tracked'
  <2> PICK place : place = [i \in 0..Len(air) |-> 0]
    OBVIOUS
  <2>1. Len(air) \in Nat /\ place \in [0..Len(air) -> Nat] /\ \A i \in 0..Len(air) : place[i] = 0
    BY DEF IInv, TypeOK
  <2>2. \A i \in 1..Len(air) : i \in 0..Len(air) /\ i - 1 \in 0..Len(air) /\ air[i] = EmptyValue
    BY <1>4, <2>1 DEF Silent
  <2>3. Fits(air, m, size, place)
    BY <2>1, <2>2 DEF Fits
  <2>4. place[0] = 0 /\ place[Len(air)] = 0
    BY <2>1
  <2>5. buffer = SubSeq(m, 1, ChunkEnd(m, size, place[0]))
    <3>1. ChunkEnd(m, size, 0) = 0
      BY <1>3 DEF ChunkEnd, Lesser
    <3>2. SubSeq(m, 1, 0) = <<>>
      BY <1>3
    <3> QED
      BY <1>4, <2>4, <3>1, <3>2 DEF Silent
  <2>6. Len(outgoing') = ChunkCount(m, size) - 0
        /\ \A i \in 1..Len(outgoing') : outgoing'[i] = ChunkMessage(m, size)[0 + i]
    <3>1. Len(outgoing') = ChunkCount(m, size) - 0
      BY <1>1, <1>3
    <3>2. \A i \in 1..Len(outgoing') : 0 + i = i
      BY <1>1, <1>3
    <3> QED
      BY <1>1, <3>1, <3>2
  <2>7. Follows(m, size, place)'
    BY <1>1, <1>2, <1>3, <1>4, <2>1, <2>3, <2>4, <2>5, <2>6 DEF Follows, Fits, Silent
  <2> QED
    BY <1>2, <2>1, <2>7 DEF Tracked
<1>5. ASSUME NEW n \in Responses, NEW s \in MIN_CHUNK_SIZE..MAX_CHUNK_SIZE,
             NEW place \in [0..Len(air) -> Nat], Follows(n, s, place)
      PROVE  Tracked'
  <2>1. completed # <<>>
    <3>1. Len(air) \in Nat /\ Len(air) \in 0..Len(air)
      BY DEF IInv, TypeOK
    <3>2. place[Len(air)] \in Nat /\ ChunkCount(n, s) \in Nat
      BY <3>1, CutOf
    <3>3. SUFFICES ASSUME completed = <<>> PROVE FALSE
      OBVIOUS
    <3>4. place[Len(air)] < ChunkCount(n, s) /\ Len(outgoing) = ChunkCount(n, s) - place[Len(air)]
      BY <1>2, <1>5, <3>1, <3>3 DEF Follows
    <3> QED
      BY <1>2, <3>2, <3>4
  <2>2. Follows(n, s, place)'
    BY <1>2, <1>5, <2>1 DEF Follows, Fits, Live
  <2> QED
    BY <1>2, <2>2 DEF Tracked
<1>6. Tracked => Tracked'
  BY <1>4, <1>5 DEF Tracked
<1> QED
  BY <1>2, <1>6 DEF Heard

(* The mdoc notifies a chunk.                                              *)
LEMMA MdocNotifyHeard ==
    ASSUME IInv, Heard, MdocNotify
    PROVE  Heard'
<1> DEFINE v == outgoing[1]
           l == Len(outgoing)
<1>1. /\ Live /\ UNCHANGED <<outcome, link, future, result, buffer>>
      /\ outgoing # <<>> /\ outgoing \in Seq(ChunkType) /\ Head(outgoing) = v /\ l \in Nat \ {0}
      /\ v \in ChunkType /\ v # EmptyValue /\ (v.last <=> l = 1)
      /\ air \in Seq(ChunkType \cup {EmptyValue}) /\ completed \in Seq(Responses) /\ speaking \in Responses
  <2>1. Live /\ UNCHANGED <<outcome, link, future, result, buffer>> /\ outgoing # <<>>
    BY DEF MdocNotify, Live, reader, promise
  <2>2. /\ outgoing \in Seq(ChunkType) /\ air \in Seq(ChunkType \cup {EmptyValue})
        /\ completed \in Seq(Responses) /\ speaking \in Responses
    BY <2>1 DEF IInv, TypeOK, Spoken
  <2>3. Head(outgoing) = v /\ l \in Nat \ {0} /\ v \in ChunkType
    BY <2>1, <2>2
  <2>4. v.last <=> 1 = l
    BY <2>3 DEF IInv, Spoken
  <2>5. v # EmptyValue
    BY <2>3, BleCentralAssumption DEF ChunkType
  <2> HIDE DEF v, l
  <2> QED
    BY <2>1, <2>2, <2>3, <2>4, <2>5
<1>2. /\ air' = Append(air, v) /\ Len(outgoing') = l - 1
      /\ \A i \in 1..(l - 1) : outgoing'[i] = outgoing[i + 1]
      /\ v.last => completed' = Append(completed, speaking)
      /\ ~v.last => UNCHANGED <<completed, speaking>>
  <2>1. /\ air' = Append(air, v) /\ outgoing' = Tail(outgoing)
        /\ v.last => completed' = Append(completed, speaking)
        /\ ~v.last => UNCHANGED <<completed, speaking>>
    BY <1>1 DEF MdocNotify
  <2>2. Len(Tail(outgoing)) = l - 1 /\ \A i \in 1..(l - 1) : Tail(outgoing)[i] = outgoing[i + 1]
    BY <1>1, HeadTailProperties
  <2> HIDE DEF v, l
  <2> QED
    BY <2>1, <2>2
<1>3. /\ v.last => /\ completed' # <<>>
                   /\ Head(completed') = IF completed = <<>> THEN speaking ELSE Head(completed)
      /\ completed # <<>> => completed' # <<>> /\ Head(completed') = Head(completed)
  <2>1. Head(Append(completed, speaking)) = IF completed = <<>> THEN speaking ELSE Head(completed)
    BY <1>1, HeadTailAppend, Zenon
  <2>2. Append(completed, speaking) # <<>>
    BY <1>1, AppendProperties
  <2> HIDE DEF v
  <2> QED
    BY <1>2, <2>1, <2>2
<1> HIDE DEF v
<1>4. ~Silent
  BY <1>1 DEF Silent
<1>5. ASSUME NEW m \in Responses, NEW size \in MIN_CHUNK_SIZE..MAX_CHUNK_SIZE,
             NEW place \in [0..Len(air) -> Nat], Follows(m, size, place)
      PROVE  Tracked'
  <2> PICK more : more = OneFurther(air, place, v)
    OBVIOUS
  <2> DEFINE n == ChunkCount(m, size)
             C == ChunkMessage(m, size)
             j == place[Len(air)]
  <2>1. n \in Nat \ {0} /\ Len(air) \in Nat /\ j \in Nat /\ Len(air) \in 0..Len(air)
    <3>1. Len(air) \in Nat /\ Len(air) \in 0..Len(air)
      BY <1>1
    <3> QED
      BY <3>1, CutOf
  <2>2. completed = <<>> => speaking = m /\ j < n /\ l = n - j /\ \A i \in 1..l : outgoing[i] = C[j + i]
    BY <1>1, <1>5, <2>1 DEF Follows
  <2>3. completed # <<>> => Head(completed) = m /\ j >= n
    BY <1>1, <1>5 DEF Follows
  <2>4. j < n => v = C[j + 1]
    <3>1. j < n => completed = <<>>
      <4> HIDE DEF n, j
      <4> QED
        BY <2>1, <2>3
    <3>2. 1 \in 1..l
      BY <1>1
    <3> QED
      BY <2>2, <3>1, <3>2 DEF v
  <2>5. Len(Append(air, v)) = Len(air) + 1 /\ Fits(Append(air, v), m, size, more)
    <3>1. /\ air \in Seq(ChunkType \cup {EmptyValue}) /\ v \in ChunkType \cup {EmptyValue}
          /\ Fits(air, m, size, place) /\ n \in Nat /\ (v # EmptyValue /\ j < n => v = C[j + 1])
      BY <1>1, <1>5, <2>1, <2>4 DEF Follows
    <3> QED
      BY <3>1, FitsAppend, Zenon
  <2>6. more \in [0..(Len(air) + 1) -> Nat] /\ more[0] = place[0] /\ more[Len(air) + 1] = j + 1
        /\ \A i \in 0..Len(air) : more[i] = place[i]
    <3>1. more \in [0..(Len(air) + 1) -> Nat]
      BY <2>5 DEF Fits
    <3>2. more = [i \in 0..(Len(air) + 1) |->
              IF i <= Len(air) THEN place[i] ELSE IF v = EmptyValue THEN j ELSE j + 1]
      BY DEF OneFurther
    <3>3. \A i \in 0..Len(air) : i \in 0..(Len(air) + 1) /\ i <= Len(air)
      BY <2>1
    <3>4. \A i \in 0..Len(air) : more[i] = place[i]
      BY <3>2, <3>3
    <3>5. Len(air) + 1 \in 0..(Len(air) + 1) /\ ~(Len(air) + 1 <= Len(air)) /\ 0 \in 0..Len(air)
      BY <2>1
    <3> HIDE DEF j
    <3> QED
      BY <1>1, <3>1, <3>2, <3>4, <3>5
  <2> HIDE DEF n, C, j, l
  <2>7. place[0] < n /\ buffer = SubSeq(m, 1, ChunkEnd(m, size, place[0]))
    BY <1>5 DEF Follows, n
  <2>8. ASSUME completed' = <<>>
        PROVE  /\ \A i \in 0..(Len(air) + 1) : more[i] < n
               /\ speaking' = m /\ Len(outgoing') = n - (j + 1)
               /\ \A i \in 1..Len(outgoing') : outgoing'[i] = C[(j + 1) + i]
    <3>1. completed = <<>> /\ ~v.last /\ speaking' = speaking /\ l # 1
      BY <1>1, <1>2, <1>3, <2>8
    <3>2. j + 1 < n /\ Len(outgoing') = n - (j + 1)
      BY <1>1, <1>2, <2>1, <2>2, <3>1
    <3>3. ASSUME NEW i \in 1..Len(outgoing') PROVE outgoing'[i] = C[(j + 1) + i]
      <4>1. i \in 1..(l - 1) /\ i + 1 \in 1..l /\ j + (i + 1) = (j + 1) + i
        BY <1>1, <1>2, <2>1
      <4> QED
        BY <1>2, <2>2, <3>1, <4>1
    <3>4. ASSUME NEW i \in 0..(Len(air) + 1) PROVE more[i] < n
      <4>1. CASE i = Len(air) + 1
        BY <2>6, <3>2, <4>1
      <4>2. CASE i # Len(air) + 1
        <5>1. i \in 0..Len(air)
          BY <2>1, <4>2
        <5>2. place[i] < n
          BY <1>5, <3>1, <5>1 DEF Follows, n
        <5> QED
          BY <2>6, <5>1, <5>2
      <4> QED
        BY <4>1, <4>2
    <3> QED
      BY <2>2, <3>1, <3>2, <3>3, <3>4
  <2>9. completed' # <<>> => Head(completed') = m /\ j + 1 >= n
    <3>1. CASE completed = <<>>
      BY <1>1, <1>2, <1>3, <2>1, <2>2, <3>1
    <3>2. CASE completed # <<>>
      BY <1>3, <2>1, <2>3, <3>2
    <3> QED
      BY <3>1, <3>2
  <2>10. Follows(m, size, more)'
    <3>1. Len(air') = Len(air) + 1 /\ Fits(air', m, size, more)
      BY <1>2, <2>5
    <3> QED
      BY <1>1, <2>6, <2>7, <2>8, <2>9, <3>1 DEF Follows, n, C
  <2>11. more \in [0..Len(air') -> Nat]
    BY <1>2, <2>5 DEF Fits
  <2> QED
    BY <2>10, <2>11 DEF Tracked
<1>6. Tracked => Tracked'
  BY <1>4, <1>5 DEF Tracked
<1> QED
  BY <1>1, <1>3, <1>6 DEF Heard

(* The mdoc notifies a value of no bytes.                                  *)
LEMMA MdocNotifyEmptyHeard ==
    ASSUME IInv, Heard, MdocNotifyEmpty
    PROVE  Heard'
<1>1. /\ air' = Append(air, EmptyValue)
      /\ UNCHANGED <<outcome, link, future, result, buffer, outgoing, speaking, completed>>
  BY DEF MdocNotifyEmpty, reader, promise
<1>2. air \in Seq(ChunkType \cup {EmptyValue}) /\ Len(air) \in Nat
  BY DEF IInv, TypeOK
<1>3. Len(air') = Len(air) + 1 /\ air'[Len(air) + 1] = EmptyValue /\ \A i \in 1..Len(air) : air'[i] = air[i]
  BY <1>1, <1>2
<1>4. Silent => Silent'
  <2> SUFFICES ASSUME Silent PROVE Silent'
    OBVIOUS
  <2>1. \A i \in 1..Len(air') : i \in 1..Len(air) \/ i = Len(air) + 1
    BY <1>2, <1>3
  <2>2. \A i \in 1..Len(air') : air'[i] = EmptyValue
    BY <1>3, <2>1 DEF Silent
  <2> QED
    BY <1>1, <2>2 DEF Silent, Live
<1>5. ASSUME NEW m \in Responses, NEW size \in MIN_CHUNK_SIZE..MAX_CHUNK_SIZE,
             NEW place \in [0..Len(air) -> Nat], Follows(m, size, place)
      PROVE  Tracked'
  <2> PICK more : more = OneFurther(air, place, EmptyValue)
    OBVIOUS
  <2>1. Fits(Append(air, EmptyValue), m, size, more)
    <3>1. Fits(air, m, size, place) /\ ChunkCount(m, size) \in Nat
          /\ EmptyValue \in ChunkType \cup {EmptyValue}
      BY <1>5, CutOf DEF Follows
    <3> QED
      BY <1>2, <3>1, FitsAppend, Zenon
  <2>2. more \in [0..(Len(air) + 1) -> Nat]
    BY <1>1, <1>3, <2>1 DEF Fits
  <2>3. \A i \in 0..Len(air) : more[i] = place[i]
    <3>1. \A i \in 0..Len(air) : i \in 0..(Len(air) + 1) /\ i <= Len(air)
      BY <1>2
    <3> QED
      BY <3>1 DEF OneFurther
  <2>4. more[Len(air) + 1] = place[Len(air)]
    <3>1. Len(air) + 1 \in 0..(Len(air) + 1) /\ ~(Len(air) + 1 <= Len(air))
      BY <1>2
    <3> QED
      BY <3>1 DEF OneFurther
  <2>5. 0 \in 0..Len(air) /\ Len(air) \in 0..Len(air)
        /\ \A i \in 0..(Len(air) + 1) : i \in 0..Len(air) \/ i = Len(air) + 1
    BY <1>2
  <2>6. completed = <<>> => \A i \in 0..(Len(air) + 1) : more[i] < ChunkCount(m, size)
    BY <1>5, <2>3, <2>4, <2>5 DEF Follows
  <2>7. Follows(m, size, more)'
    BY <1>1, <1>3, <1>5, <2>1, <2>3, <2>4, <2>5, <2>6 DEF Follows, Live
  <2> QED
    BY <1>3, <2>2, <2>7 DEF Tracked
<1>6. Tracked => Tracked'
  BY <1>4, <1>5 DEF Tracked
<1> QED
  BY <1>1, <1>6 DEF Heard

(* The mdoc hangs up.                                                      *)
LEMMA MdocHangUpHeard ==
    ASSUME IInv, Heard, MdocHangUp
    PROVE  Heard'
<1>1. ~Live' /\ UNCHANGED <<outcome, future, result, buffer, outgoing, speaking, completed>>
  BY DEF MdocHangUp, Live, reader, promise, mdoc
<1>2. PICK n \in 0..Len(air) : air' = SubSeq(air, 1, n)
  BY DEF MdocHangUp
<1>3. air \in Seq(ChunkType \cup {EmptyValue}) /\ Len(air) \in Nat
  BY DEF IInv, TypeOK
<1>4. Len(air') = n /\ \A i \in 1..n : air'[i] = air[i] /\ i \in 1..Len(air)
  BY <1>2, <1>3
<1>5. Silent => Silent'
  BY <1>1, <1>4 DEF Silent
<1>6. ASSUME NEW m \in Responses, NEW size \in MIN_CHUNK_SIZE..MAX_CHUNK_SIZE,
             NEW place \in [0..Len(air) -> Nat], Follows(m, size, place)
      PROVE  Tracked'
  <2> PICK less : less = [i \in 0..n |-> place[i]]
    OBVIOUS
  <2>1. Fits(air', m, size, less)
    <3>1. Fits(air, m, size, place)
      BY <1>6 DEF Follows
    <3> QED
      BY <1>2, <1>3, <3>1, FitsPrefix
  <2>2. less \in [0..n -> Nat] /\ less[0] = place[0] /\ \A i \in 0..n : less[i] = place[i] /\ i \in 0..Len(air)
    <3>1. 0 \in 0..n /\ \A i \in 0..n : i \in 0..Len(air)
      BY <1>3
    <3>2. \A i \in 0..n : less[i] = place[i] /\ place[i] \in Nat
      BY <3>1
    <3>3. less \in [0..n -> Nat]
      BY <3>1
    <3> QED
      BY <3>1, <3>2, <3>3
  <2>3. Follows(m, size, less)'
    BY <1>1, <1>4, <1>6, <2>1, <2>2 DEF Follows
  <2> QED
    BY <1>4, <2>2, <2>3 DEF Tracked
<1>7. Tracked => Tracked'
  BY <1>5, <1>6 DEF Tracked
<1> QED
  BY <1>1, <1>7 DEF Heard

(* While the future is pending, the first message is still to be heard, or *)
(* its rest is; once it has a result, that is the first message completed  *)
(* (ble.py:115-121).                                                       *)
THEOREM FirstIsHeard == Spec => []Heard
<1>1. Init => Heard
  BY DEF Init, Heard, Tracked, Silent
<1>2. IInv /\ Heard /\ [Next]_vars => Heard'
  BY CoroutineHeard, CallbackHeard, MdocBeginHeard, MdocNotifyHeard, MdocNotifyEmptyHeard,
     MdocHangUpHeard DEF Next
<1> QED
  BY <1>1, <1>2, Inductive, PTL DEF Spec

(* What exchange does with the mdoc's messages is what the contract of its *)
(* caller allows: every step completes a message of the mdoc, returns the  *)
(* first one completed, fails, or is of no concern (ble.py:117-144).       *)
THEOREM KeepsContract == Spec => Contract!Init /\ [][Contract!Next]_(Contract!vars)
<1> DEFINE verdict == IF pc # "done" THEN "open" ELSE IF outcome = "message" THEN "message" ELSE "failed"
           value   == IF pc = "done" /\ outcome = "message" THEN result ELSE NoMessage
<1>1. Init => Contract!Init
  BY DEF Init, Contract!Init
<1>2. IInv /\ Heard /\ [Next]_vars => [Contract!Next]_(Contract!vars)
  <2> SUFFICES ASSUME IInv, Heard, [Next]_vars PROVE [Contract!Next]_(Contract!vars)
    OBVIOUS
  <2>1. CASE MdocNotify
    <3>1. UNCHANGED <<verdict, value>>
      BY <2>1 DEF MdocNotify, reader, promise
    <3>2. \/ completed' = completed
          \/ completed' = Append(completed, speaking) /\ speaking \in Responses
      BY <2>1 DEF MdocNotify, IInv, Spoken
    <3>3. CASE completed' = completed
      BY <3>1, <3>3 DEF Contract!vars
    <3>4. CASE completed' = Append(completed, speaking) /\ speaking \in Responses
      <4>1. Contract!Complete(speaking)
        BY <3>1, <3>4 DEF Contract!Complete
      <4> QED
        BY <3>4, <4>1 DEF Contract!Next
    <3> QED
      BY <3>2, <3>3, <3>4
  <2>2. CASE MdocBegin \/ MdocNotifyEmpty \/ MdocHangUp \/ UNCHANGED vars
    BY <2>2 DEF MdocBegin, MdocNotifyEmpty, MdocHangUp, vars, reader, promise, mdoc, Contract!vars
  <2>3. CASE OnServer2Client
    BY <2>3 DEF OnServer2Client, reader, mdoc, Contract!vars
  <2>4. CASE Coroutine \/ Interrupt
    <3>1. pc # "done" /\ completed' = completed /\ result' = result
      BY <2>4 DEF Coroutine, Scan, Connect, BleError, Subscribe, Start, WriteChunk, WaitResult,
                  WaitTimeout, End, Close, Interrupt, promise, mdoc
    <3>2. CASE pc' # "done"
      BY <3>1, <3>2 DEF Contract!vars
    <3>3. CASE pc' = "done" /\ outcome' # "message"
      BY <3>1, <3>3 DEF Contract!Next, Contract!Fail
    <3>4. CASE pc' = "done" /\ outcome' = "message"
      <4>1. outcome = "message"
        <5>1. outcome = "none" <=> pc \in {"scan", "connect", "subscribe", "start", "chunks", "wait"}
          BY DEF IInv, TypeOK
        <5> QED
          BY <2>4, <3>4, <5>1 DEF Coroutine, Scan, Connect, BleError, Subscribe, Start, WriteChunk,
                EnterWait, WaitResult, WaitTimeout, End, EndWritten, EndRaises, OutcomeOfEnd, Close,
                Interrupt
      <4>2. completed # <<>> /\ result = Head(completed)
        BY <4>1 DEF Heard
      <4> QED
        BY <3>1, <3>4, <4>2 DEF Contract!Next, Contract!Return
    <3> QED
      BY <3>2, <3>3, <3>4
  <2> QED
    BY <2>1, <2>2, <2>3, <2>4 DEF Next
<1> QED
  BY <1>1, <1>2, Inductive, FirstIsHeard, PTL DEF Spec
=============================================================================
