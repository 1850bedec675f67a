--------------------------- MODULE BlePeripheral ---------------------------
(***************************************************************************)
(* ble_peripheral.exchange (src/siros_verifier/ble_peripheral.py): the     *)
(* reader as GATT server, the mdoc as central.  One action per stretch of  *)
(* the coroutine between two awaits; the mdoc's writes run on_write while  *)
(* the coroutine is suspended.  The mdoc may come and go, answer before it *)
(* was asked, more than once or not at all, and leave in the middle.       *)
(*                                                                         *)
(* One central is connected at a time.  on_write does not tell centrals    *)
(* apart; what two of them would write at once is left out.                *)
(*                                                                         *)
(* bless is external: start and stop may raise, a notification is never    *)
(* refused.  A write of no bytes and a STATE value other than STATE_START  *)
(* change nothing (on_write raises IndexError, or does not match) and have *)
(* no action.                                                              *)
(***************************************************************************)
EXTENDS Framing

CONSTANTS Request,      \* session_establishment_bytes
          Responses,    \* the messages the mdoc may send
          MaxVisits,    \* bound: connections of an mdoc
          MaxMessages,  \* bound: messages begun
          NoMessage     \* not a message: no result

ASSUME BlePeripheralAssumption ==
    /\ Request \in Seq(Int) /\ Responses \subseteq Seq(Int)
    /\ MaxVisits \in Nat /\ MaxMessages \in Nat
    /\ NoMessage \notin Seq(Int)

VARIABLES
    pc,        \* the await at which the coroutine is suspended, or "done"
    server,    \* the GATT server: "off", "up", "stopped"
    notified,  \* history: the chunks notified on SERVER2CLIENT
    start,     \* start_future: "pending", "result", "cancelled"
    response,  \* response_future, likewise
    result,    \* the result of response_future
    buffer,    \* Reassembler._buffer
    outcome,   \* how the coroutine ends; "none" while undecided
    connected, \* mdoc: it is connected
    outgoing,  \* mdoc: chunks it has still to write of its message
    speaking,  \* mdoc: the message it is writing
    completed, \* history: the messages written to the end, in order
    torn,      \* history: bytes left behind by connections that broke before the first one
    visits,    \* mdoc: connections so far (bounded)
    begun      \* mdoc: messages begun (bounded)

coroutine == <<pc, notified, outcome>>
promise   == <<response, result, buffer>>
mdoc      == <<connected, outgoing, speaking, completed, torn, visits, begun>>
vars      == <<coroutine, server, start, promise, mdoc>>

PERIPHERAL_CHUNK_SIZE == MIN_CHUNK_SIZE

Init ==
    /\ pc = "services" /\ server = "off" /\ notified = <<>> /\ outcome = "none"
    /\ start = "pending" /\ response = "pending" /\ result = NoMessage /\ buffer = <<>>
    /\ connected = FALSE /\ outgoing = <<>> /\ speaking = NoMessage
    /\ completed = <<>> /\ torn = <<>> /\ visits = 0 /\ begun = 0
-----------------------------------------------------------------------------
(* The coroutine.                                                          *)

(* Service, characteristics, descriptors.                                  *)
AddServices ==
    /\ pc = "services"
    /\ \/ pc' = "start" /\ UNCHANGED outcome
       \/ pc' = "done" /\ outcome' = "setup_error"
    /\ UNCHANGED <<notified, server, start, promise, mdoc>>

(* During server.start() the server is up before the call returns: an mdoc *)
(* may come, and write, before the coroutine waits for it.                 *)
ServerUp ==
    /\ pc = "start" /\ server = "off"
    /\ server' = "up"
    /\ UNCHANGED <<coroutine, start, promise, mdoc>>

(* server.start() is outside the try statement: where it raises, what it   *)
(* had set up stays.                                                       *)
StartFails ==
    /\ pc = "start"
    /\ pc' = "done" /\ outcome' = "setup_error"
    /\ UNCHANGED <<notified, server, start, promise, mdoc>>

(* The request is notified in one burst, with no await, and the coroutine  *)
(* goes on to wait_for, which does not suspend on a future that is done.   *)
Ask ==
    /\ notified' = ChunkMessage(Request, PERIPHERAL_CHUNK_SIZE)
    /\ IF response = "result" THEN pc' = "stop" /\ outcome' = "message"
                              ELSE pc' = "wait_response" /\ UNCHANGED outcome

StartReturns ==
    /\ pc = "start" /\ server = "up"
    /\ IF start = "result" THEN Ask ELSE pc' = "wait_start" /\ UNCHANGED <<notified, outcome>>
    /\ UNCHANGED <<server, start, promise, mdoc>>

StartAssumed == TRUE
StartWritten == start = "result"

WaitStart ==
    /\ pc = "wait_start" /\ StartWritten
    /\ Ask
    /\ UNCHANGED <<server, start, promise, mdoc>>

Cancelled(future) == IF future = "pending" THEN "cancelled" ELSE future

(* The timer of wait_for; against a result of the same turn, see           *)
(* BleCentral's WaitTimeout.                                               *)
TimeoutLeavesServer ==
    /\ pc = "wait_start"
    /\ pc' = "done" /\ outcome' = "not_found" /\ start' = Cancelled(start)
    /\ UNCHANGED <<notified, server, promise, mdoc>>

WaitStartTimeout ==
    /\ pc = "wait_start"
    /\ pc' = "stop" /\ outcome' = "not_found" /\ start' = Cancelled(start)
    /\ UNCHANGED <<notified, server, promise, mdoc>>

WaitResponse ==
    /\ pc = "wait_response" /\ response = "result"
    /\ pc' = "stop" /\ outcome' = "message"
    /\ UNCHANGED <<notified, server, start, promise, mdoc>>

WaitUntimed ==
    /\ pc = "wait_response" /\ response = "result"
    /\ pc' = "stop" /\ outcome' = "timeout"
    /\ UNCHANGED <<notified, server, start, promise, mdoc>>

WaitResponseTimeout ==
    /\ pc = "wait_response"
    /\ pc' = "stop" /\ outcome' = "timeout" /\ response' = Cancelled(response)
    /\ UNCHANGED <<notified, server, start, result, buffer, mdoc>>

(* The finally block.  If stop() raises, that is what the caller gets, in  *)
(* place of an answer too.                                                 *)
Stop ==
    /\ pc = "stop" /\ pc' = "done"
    /\ \/ server' = "stopped" /\ UNCHANGED outcome
       \/ server' \in {"up", "stopped"} /\ outcome' = "stop_error"
    /\ UNCHANGED <<notified, start, promise, mdoc>>

(* Ctrl-C cancels the task once.  Only the try statement stops the server; *)
(* start() and stop() themselves may be cut short ("killed").              *)
Interrupt ==
    /\ pc # "done" /\ outcome # "interrupted"
    /\ IF pc \in {"wait_start", "wait_response"}
       THEN pc' = "stop" /\ outcome' = "interrupted" /\ UNCHANGED server
       ELSE /\ pc' = "done" /\ outcome' = "killed"
            /\ server' \in IF pc = "stop" THEN {"up", "stopped"} ELSE {server}
    /\ start'    = IF pc = "wait_start" THEN Cancelled(start) ELSE start
    /\ response' = IF pc = "wait_response" THEN Cancelled(response) ELSE response
    /\ UNCHANGED <<notified, result, buffer, mdoc>>
-----------------------------------------------------------------------------
(* The mdoc (external), and on_write, which its writes run.                *)
Served == server = "up" /\ pc # "done"

MdocConnects ==
    /\ Served /\ ~connected /\ visits < MaxVisits
    /\ connected' = TRUE /\ visits' = visits + 1
    /\ UNCHANGED <<coroutine, server, start, promise, outgoing, speaking, completed, torn, begun>>

(* The Reassembler is not told: what it holds, it keeps.                   *)
MdocLeaves ==
    /\ Served /\ connected
    /\ connected' = FALSE /\ outgoing' = <<>> /\ speaking' = NoMessage
    /\ torn' = IF completed = <<>> THEN buffer ELSE torn
    /\ UNCHANGED <<coroutine, server, start, promise, completed, visits, begun>>

OnStartAgain == start' = "result"
OnStart      == start' = IF start = "pending" THEN "result" ELSE start

MdocWritesStart ==
    /\ Served /\ connected
    /\ OnStart
    /\ UNCHANGED <<coroutine, server, promise, mdoc>>

MdocBegins ==
    /\ Served /\ connected /\ outgoing = <<>> /\ begun < MaxMessages
    /\ \E m \in Responses, size \in MIN_CHUNK_SIZE..MAX_CHUNK_SIZE :
          outgoing' = ChunkMessage(m, size) /\ speaking' = m
    /\ begun' = begun + 1
    /\ UNCHANGED <<coroutine, server, start, promise, connected, completed, torn, visits>>

ResolveAgain(message) == response' = "result" /\ result' = message

Resolve(message) ==
    IF response = "pending" THEN response' = "result" /\ result' = message
                            ELSE UNCHANGED <<response, result>>

MdocWritesChunk ==
    /\ Served /\ connected /\ outgoing # <<>>
    /\ outgoing' = Tail(outgoing)
    /\ buffer' = FeedBuffer(buffer, Head(outgoing))
    /\ IF Head(outgoing).last
       THEN /\ Resolve(FeedResult(buffer, Head(outgoing)))
            /\ completed' = Append(completed, speaking) /\ speaking' = NoMessage
       ELSE UNCHANGED <<response, result, completed, speaking>>
    /\ UNCHANGED <<coroutine, server, start, connected, torn, visits, begun>>
-----------------------------------------------------------------------------
Coroutine == AddServices \/ ServerUp \/ StartFails \/ StartReturns \/ WaitStart \/ WaitStartTimeout
             \/ WaitResponse \/ WaitResponseTimeout \/ Stop

Next == Coroutine \/ Interrupt
        \/ MdocConnects \/ MdocLeaves \/ MdocWritesStart \/ MdocBegins \/ MdocWritesChunk

(* Both waits have a timer, and bless returns from its calls.  Nothing is  *)
(* assumed of the mdoc.                                                    *)
Spec == Init /\ [][Next]_vars /\ WF_vars(Coroutine)
-----------------------------------------------------------------------------
(* What is returned is the first message an mdoc wrote to the end, however *)
(* early it came and whatever followed, with before it only what earlier   *)
(* connections left in the Reassembler: nothing when none broke in the     *)
(* middle of a message (ble_peripheral.py:98-101).                         *)
ReturnsFirst ==
    outcome = "message" => completed # <<>> /\ result = torn \o Head(completed)

(* No answer is returned that was not asked for: even if one is complete   *)
(* before the mdoc wrote STATE_START, exchange waits for that and sends    *)
(* the whole request first (ble_peripheral.py:143-163).                    *)
AskedBeforeReturn ==
    outcome = "message" =>
        start = "result" /\ notified = ChunkMessage(Request, PERIPHERAL_CHUNK_SIZE)

(* The server is stopped on every way out: the answer, both timeouts and   *)
(* Ctrl-C during either wait.  It is left up only where start() or stop()  *)
(* themselves raise or are cut short (ble_peripheral.py:142-165).          *)
StopsServer ==
    pc = "done" /\ server = "up" => outcome \in {"setup_error", "stop_error", "killed"}

(* Neither future is set twice, nor after its wait timed out: a late or    *)
(* repeated STATE_START or answer must not raise InvalidStateError in the  *)
(* callback (the guards of ble_peripheral.py:96 and 100).                  *)
FuturesResolvedOnce ==
    [][/\ start # "pending" => UNCHANGED start
       /\ response # "pending" => UNCHANGED <<response, result>>]_vars

(* The exchange ends whatever the mdoc does or omits.                      *)
Terminates == <>(pc = "done")
=============================================================================
