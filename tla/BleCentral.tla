----------------------------- MODULE BleCentral -----------------------------
(***************************************************************************)
(* ble.exchange (src/siros_verifier/ble.py): the reader as GATT central    *)
(* against an mdoc in peripheral server mode.  One action per stretch of   *)
(* the coroutine between two awaits, one for the notification callback,    *)
(* which the event loop runs at any await of the coroutine, and the mdoc   *)
(* as an environment that may answer early, late, more than once, with     *)
(* any cutting, with an empty value, not at all, or hang up.               *)
(*                                                                         *)
(* bleak and BlueZ are external: start_notify opens the way for            *)
(* notifications, leaving `async with` disconnects.  Any operation may     *)
(* raise, on a live link too (a missing characteristic, a GATT or D-Bus    *)
(* error, a timeout of the stack); on a lost one every write does.  What   *)
(* a failing write should have written does not reach the mdoc.            *)
(***************************************************************************)
EXTENDS Framing

CONSTANTS Request,       \* session_establishment_bytes
          Responses,     \* the messages the mdoc may send
          Mtus,          \* the MTUs a connection may negotiate
          MaxMessages,   \* bound: messages the mdoc sends
          MaxEmpty,      \* bound: empty values the mdoc notifies
          NoMessage,     \* not a message: no result
          EmptyValue     \* a notified value of no bytes

ASSUME BleCentralAssumption ==
    /\ Request \in Seq(Int) /\ Responses \subseteq Seq(Int)
    /\ Mtus \subseteq Nat
    /\ MaxMessages \in Nat /\ MaxEmpty \in Nat
    /\ NoMessage \notin Seq(Int)
    /\ EmptyValue \notin [last : BOOLEAN, payload : Seq(Int)]

VARIABLES
    pc,         \* the await at which the coroutine is suspended, or "done"
    link,       \* the GATT connection: "none", "up", "lost" (the mdoc hung up), "closed"
    mtu,        \* of the connection
    subscribed, \* start_notify has taken effect
    chunks,     \* the request, cut
    written,    \* history: what was written to the mdoc, STATE and chunks
    endFailed,  \* history: STATE_END was tried, and its write raised
    future,     \* response_future: "pending", "result", "cancelled"
    result,     \* the result of the future
    buffer,     \* Reassembler._buffer
    outcome,    \* how the coroutine ends; "none" while undecided
    air,        \* values notified and not yet seen by the callback
    outgoing,   \* mdoc: chunks it has still to notify of its message
    speaking,   \* mdoc: the message it is notifying
    completed,  \* mdoc, history: messages notified completely
    begun,      \* mdoc: messages begun (bounded)
    empties     \* mdoc: empty values notified (bounded)

reader  == <<pc, mtu, subscribed, chunks, written, endFailed, outcome>>
promise == <<future, result, buffer>>
mdoc    == <<outgoing, speaking, completed, begun, empties>>
vars    == <<reader, link, promise, air, mdoc>>

STATE_START == Chunk(FALSE, <<-1>>)
STATE_END   == Chunk(TRUE, <<-1>>)

Init ==
    /\ pc = "scan" /\ link = "none" /\ mtu \in Mtus /\ subscribed = FALSE
    /\ chunks = <<>> /\ written = <<>> /\ endFailed = FALSE /\ outcome = "none"
    /\ future = "pending" /\ result = NoMessage /\ buffer = <<>>
    /\ air = <<>>
    /\ outgoing = <<>> /\ speaking = NoMessage /\ completed = <<>>
    /\ begun = 0 /\ empties = 0
-----------------------------------------------------------------------------
(* The coroutine.                                                          *)

(* scan_for_peripheral: a device, or DeviceNotFoundError.                  *)
Scan ==
    /\ pc = "scan"
    /\ \/ pc' = "connect" /\ UNCHANGED outcome
       \/ pc' = "done" /\ outcome' = "not_found"
    /\ UNCHANGED <<mtu, subscribed, chunks, written, endFailed, link, promise, air, mdoc>>

(* BleakClient.__aenter__; when it raises, __aexit__ does not run.         *)
Connect ==
    /\ pc = "connect"
    /\ \/ pc' = "subscribe" /\ link' = "up" /\ UNCHANGED outcome
       \/ /\ pc' = "done" /\ outcome' \in {"ble_error", "timeout"}
          /\ UNCHANGED link
    /\ UNCHANGED <<mtu, subscribed, chunks, written, endFailed, promise, air, mdoc>>

(* start_notify or a write of the session raises, whatever the link: the   *)
(* error leaves the `async with` block without passing by the try          *)
(* statement, so that no STATE_END is tried.                               *)
BleError ==
    /\ pc \in {"subscribe", "start", "chunks"}
    /\ pc' = "close" /\ outcome' = "ble_error"
    /\ UNCHANGED <<mtu, subscribed, chunks, written, endFailed, link, promise, air, mdoc>>

Subscribe ==
    /\ pc = "subscribe" /\ link = "up"
    /\ subscribed' = TRUE /\ pc' = "start"
    /\ UNCHANGED <<mtu, chunks, written, endFailed, outcome, link, promise, air, mdoc>>

(* STATE_START; then, with no await between, the request is cut.           *)
Start ==
    /\ pc = "start" /\ link = "up"
    /\ written' = Append(written, STATE_START)
    /\ chunks' = ChunkMessage(Request, NegotiateChunkSize(mtu))
    /\ pc' = "chunks"
    /\ UNCHANGED <<mtu, subscribed, endFailed, outcome, link, promise, air, mdoc>>

(* wait_for on a future that is already done returns without suspending.   *)
EnterWaitUndecided ==
    IF future = "result" THEN pc' = "end" /\ UNCHANGED outcome
                         ELSE pc' = "wait" /\ UNCHANGED outcome

EnterWait ==
    IF future = "result" THEN pc' = "end" /\ outcome' = "message"
                         ELSE pc' = "wait" /\ UNCHANGED outcome

(* One turn of the for loop; after the last one the coroutine goes on to   *)
(* wait_for.                                                               *)
WriteChunkUntilAnswered ==
    /\ pc = "chunks" /\ link = "up"
    /\ written' = Append(written, chunks[Len(written)])
    /\ IF Len(written) = Len(chunks) \/ future = "result"
       THEN EnterWait ELSE UNCHANGED <<pc, outcome>>
    /\ UNCHANGED <<mtu, subscribed, chunks, endFailed, link, promise, air, mdoc>>

WriteChunk ==
    /\ pc = "chunks" /\ link = "up"
    /\ written' = Append(written, chunks[Len(written)])
    /\ IF Len(written) = Len(chunks) THEN EnterWait ELSE UNCHANGED <<pc, outcome>>
    /\ UNCHANGED <<mtu, subscribed, chunks, endFailed, link, promise, air, mdoc>>

(* wait_for resumes with the result.                                       *)
WaitResult ==
    /\ pc = "wait" /\ future = "result"
    /\ pc' = "end" /\ outcome' = "message"
    /\ UNCHANGED <<mtu, subscribed, chunks, written, endFailed, link, promise, air, mdoc>>

(* The response timer fires.  A pending future is cancelled.  If the       *)
(* result came in the same turn of the event loop, before the coroutine    *)
(* resumed, Python 3.12 and later raise TimeoutError all the same; earlier *)
(* versions return the result, which is WaitResult.                        *)
TimeoutSkipsFinally ==
    /\ pc = "wait" /\ future \in {"pending", "result"}
    /\ pc' = "close" /\ outcome' = "timeout"
    /\ future' = IF future = "pending" THEN "cancelled" ELSE future
    /\ UNCHANGED <<mtu, subscribed, chunks, written, endFailed, link, result, buffer, air, mdoc>>

WaitUntimed ==
    /\ pc = "wait" /\ future = "result"
    /\ pc' = "end" /\ outcome' = "timeout"
    /\ UNCHANGED <<mtu, subscribed, chunks, written, endFailed, link, promise, air, mdoc>>

WaitTimeout ==
    /\ pc = "wait" /\ future \in {"pending", "result"}
    /\ pc' = "end" /\ outcome' = "timeout"
    /\ future' = IF future = "pending" THEN "cancelled" ELSE future
    /\ UNCHANGED <<mtu, subscribed, chunks, written, endFailed, link, result, buffer, air, mdoc>>

(* The finally block: STATE_END.  A BleakError of it is swallowed; only    *)
(* another exception, for which there is no except clause, leaves the      *)
(* block in place of what was leaving it.                                  *)
OutcomeOfClobberedEnd == "ble_error"
OutcomeOfEnd          == outcome

EndWritten ==
    /\ link = "up"
    /\ written' = Append(written, STATE_END)
    /\ UNCHANGED <<endFailed, outcome>>

EndRaises ==
    /\ endFailed' = TRUE /\ outcome' \in {OutcomeOfEnd, "end_error"}
    /\ UNCHANGED written

End ==
    /\ pc = "end" /\ pc' = "close"
    /\ EndWritten \/ EndRaises
    /\ UNCHANGED <<mtu, subscribed, chunks, link, promise, air, mdoc>>

(* BleakClient.__aexit__ disconnects, and the coroutine returns or raises. *)
(* An exception of the disconnection replaces what was leaving the         *)
(* `async with` block, and the connection may be up or not.                *)
Disconnected == IF link = "up" THEN "closed" ELSE link

Close ==
    /\ pc = "close" /\ pc' = "done"
    /\ \/ link' = Disconnected /\ UNCHANGED outcome
       \/ link' \in {link, Disconnected} /\ outcome' = "close_error"
    /\ UNCHANGED <<mtu, subscribed, chunks, written, endFailed, promise, air, mdoc>>

(* Ctrl-C: asyncio.run cancels the task once, at the await where it is.    *)
(* CancelledError is not a BleakError, so it also cuts the finally block   *)
(* and __aexit__ short.  A second Ctrl-C kills the process: where an error *)
(* of the clean-up has taken the place of the first, that is an interrupt  *)
(* of the disconnection.                                                   *)
PcAfterInterrupt ==
    IF pc \in {"scan", "connect", "close"} THEN "done"
    ELSE IF pc = "wait" THEN "end"
    ELSE "close"

Interrupt ==
    /\ pc # "done" /\ outcome # "interrupted"
    /\ outcome' = "interrupted" /\ pc' = PcAfterInterrupt
    /\ future' = IF pc = "wait" /\ future = "pending" THEN "cancelled" ELSE future
    /\ UNCHANGED <<mtu, subscribed, chunks, written, endFailed, link, result, buffer, air, mdoc>>
-----------------------------------------------------------------------------
(* The callback, run by the event loop while the coroutine is suspended.   *)
(* On a value of no bytes chunk[0] raises IndexError before the            *)
(* Reassembler changes; the backend logs the exception and goes on.        *)
ResolveAgain(message) == future' = "result" /\ result' = message

Resolve(message) ==
    IF future = "pending" THEN future' = "result" /\ result' = message
                          ELSE UNCHANGED <<future, result>>

OnServer2Client ==
    /\ pc # "done" /\ air # <<>>
    /\ air' = Tail(air)
    /\ IF Head(air) = EmptyValue
       THEN UNCHANGED promise
       ELSE /\ buffer' = FeedBuffer(buffer, Head(air))
            /\ IF Head(air).last THEN Resolve(FeedResult(buffer, Head(air)))
                                 ELSE UNCHANGED <<future, result>>
    /\ UNCHANGED <<reader, link, mdoc>>
-----------------------------------------------------------------------------
(* The mdoc (external).                                                    *)
MdocBegin ==
    /\ link = "up" /\ subscribed /\ outgoing = <<>> /\ begun < MaxMessages
    /\ \E m \in Responses, size \in MIN_CHUNK_SIZE..MAX_CHUNK_SIZE :
          outgoing' = ChunkMessage(m, size) /\ speaking' = m
    /\ begun' = begun + 1
    /\ UNCHANGED <<reader, link, promise, air, completed, empties>>

MdocNotify ==
    /\ link = "up" /\ outgoing # <<>>
    /\ air' = Append(air, Head(outgoing)) /\ outgoing' = Tail(outgoing)
    /\ IF Head(outgoing).last
       THEN completed' = Append(completed, speaking) /\ speaking' = NoMessage
       ELSE UNCHANGED <<completed, speaking>>
    /\ UNCHANGED <<reader, link, promise, begun, empties>>

MdocNotifyEmpty ==
    /\ link = "up" /\ subscribed /\ empties < MaxEmpty
    /\ air' = Append(air, EmptyValue) /\ empties' = empties + 1
    /\ UNCHANGED <<reader, link, promise, outgoing, speaking, completed, begun>>

(* The mdoc hangs up, or the link breaks; what is still on the air may be  *)
(* lost, from some value on.                                               *)
MdocHangUp ==
    /\ link = "up"
    /\ link' = "lost"
    /\ \E n \in 0..Len(air) : air' = SubSeq(air, 1, n)
    /\ UNCHANGED <<reader, promise, mdoc>>
-----------------------------------------------------------------------------
Coroutine == Scan \/ Connect \/ BleError \/ Subscribe \/ Start \/ WriteChunk
             \/ WaitResult \/ WaitTimeout \/ End \/ Close

Next == Coroutine \/ Interrupt \/ OnServer2Client
        \/ MdocBegin \/ MdocNotify \/ MdocNotifyEmpty \/ MdocHangUp

(* The event loop resumes a coroutine whose await is over, and every await *)
(* is bounded: scan, connect and response by their timers, the writes and  *)
(* the disconnection by the Bluetooth stack.  Nothing is assumed of the    *)
(* mdoc, nor that a notification is ever delivered.                        *)
Spec == Init /\ [][Next]_vars /\ WF_vars(Coroutine)
-----------------------------------------------------------------------------
ChunkType == [last : BOOLEAN, payload : Seq(Int)]

TypeOK ==
    /\ pc \in {"scan", "connect", "subscribe", "start", "chunks", "wait", "end", "close", "done"}
    /\ link \in {"none", "up", "lost", "closed"}
    /\ mtu \in Mtus /\ subscribed \in BOOLEAN
    /\ chunks \in Seq(ChunkType) /\ written \in Seq(ChunkType)
    /\ future \in {"pending", "result", "cancelled"}
    /\ result \in Seq(Int) \cup {NoMessage} /\ buffer \in Seq(Int)
    /\ endFailed \in BOOLEAN
    /\ outcome \in {"none", "not_found", "ble_error", "timeout", "message",
                   "end_error", "close_error", "interrupted"}
    /\ outcome = "none" <=> pc \in {"scan", "connect", "subscribe", "start", "chunks", "wait"}
    /\ air \in Seq(ChunkType \cup {EmptyValue}) /\ outgoing \in Seq(ChunkType)
    /\ speaking \in Responses \cup {NoMessage} /\ completed \in Seq(Responses)
    /\ begun \in 0..MaxMessages /\ empties \in 0..MaxEmpty

(* The mdoc sees the session in order: STATE_START, the request cut in     *)
(* order and in full, STATE_END; an answer that comes early does not cut   *)
(* the request short, and no failure makes the reader skip a chunk or end  *)
(* the session in the middle of it (ble.py:124-142).                       *)
Script == <<STATE_START>> \o ChunkMessage(Request, NegotiateChunkSize(mtu)) \o <<STATE_END>>

ScriptFollowed ==
    /\ Len(written) <= Len(Script)
    /\ written = SubSeq(Script, 1, Len(written))

(* Whatever raises, what was opened is given up.  Only a Ctrl-C, or a      *)
(* disconnection that itself raises, leaves the connection up.  And an     *)
(* exchange over a connection that ends in an answer, in a TimeoutError or *)
(* in the failure of STATE_END has given the mdoc the whole request and    *)
(* tried to end the session: no early answer, timeout or loss of the link  *)
(* takes it past the finally block (ble.py:122-145).                       *)
LeavesNothingOpen ==
    pc = "done" =>
        /\ link = "up" => outcome \in {"interrupted", "close_error"}
        /\ outcome \in {"message", "timeout", "end_error"} /\ link # "none" =>
              \/ written = Script
              \/ endFailed /\ Len(written) = Len(Script) - 1

(* A future is resolved once.  set_result on a cancelled or resolved one   *)
(* would raise InvalidStateError in the callback, or replace the answer    *)
(* already given (the guard of ble.py:119).                                *)
ResolvedOnce == [][future # "pending" => UNCHANGED <<future, result>>]_vars

(* What ended the exchange is what the caller is told: a STATE_END that a  *)
(* dropped link or the stack refuses with a BleakError, or anything the    *)
(* mdoc does afterwards, does not replace it (the comment at               *)
(* ble.py:136-140).  What does is Ctrl-C, a disconnection that raises, or  *)
(* STATE_END raising what is no BleakError; none of them turns a failure   *)
(* into an answer.                                                         *)
VerdictStands ==
    [][outcome # "none" =>
          \/ outcome' \in {outcome, "interrupted"}
          \/ pc = "end" /\ endFailed' /\ outcome' = "end_error"
          \/ pc = "close" /\ pc' = "done" /\ outcome' = "close_error"]_vars

(* It implements the contract the session above it relies on: it ends      *)
(* whatever the mdoc does or omits, and returns the first message that the *)
(* mdoc completed, whole: not a fragment, not a later one, not two run     *)
(* together, however early, late or often it notifies (ble.py:117-135).    *)
Contract == INSTANCE ExchangeContract WITH
    verdict <- IF pc # "done" THEN "open" ELSE IF outcome = "message" THEN "message" ELSE "failed",
    value   <- IF pc = "done" /\ outcome = "message" THEN result ELSE NoMessage

ImplementsContract == Contract!Spec
=============================================================================
