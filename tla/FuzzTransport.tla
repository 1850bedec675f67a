--------------------------- MODULE FuzzTransport ---------------------------
(***************************************************************************)
(* The transport-level scenarios of `siros-verify fuzz`, with the          *)
(* transports of src/siros_verifier/ble.py that they run: drop-mid-chunk   *)
(* (exchange_dropping_tail), disconnect-after-connect                      *)
(* (connect_and_disconnect) and rapid-reconnect (rapid_reconnect_probe).   *)
(* The coroutine and its awaits as in BleCentral; the mdoc is external: it *)
(* puts the chunks it hears together, and may hang up or be out of range.  *)
(***************************************************************************)
EXTENDS Framing

CONSTANTS Request,   \* session_establishment_bytes of drop-mid-chunk
          Mtus,      \* the MTUs a connection may negotiate
          Fractions, \* values of --keep-fraction, [num, den]
          Cycles     \* --cycles of rapid-reconnect

ASSUME FuzzTransportAssumption ==
    /\ Request \in Seq(Int) /\ Mtus \subseteq Nat
    /\ Fractions \subseteq [num : Int, den : Nat \ {0}]
    /\ Cycles \in Nat \ {0}

VARIABLES
    scenario, \* "drop-mid-chunk", "disconnect-after-connect", "rapid-reconnect"
    fraction, \* --keep-fraction
    greet,    \* write_state_start of disconnect-after-connect
    pc,       \* the await at which the coroutine is suspended, or "done"
    link,     \* the GATT connection: "none", "up", "lost", "closed"
    raised,   \* what is leaving the `async with` block: "nothing", "error", "cancelled"
    chunks,   \* the request, cut
    sent,     \* how many chunks were written
    results,  \* rapid_reconnect_probe: "ok" or "failed" per cycle
    exit,     \* "running", "ok" (0), "failures" (1), "traceback", "interrupted"
    held,     \* mdoc: the part of a message it holds
    whole     \* mdoc, history: it has heard a whole message

setting == <<scenario, fraction, greet>>
reader  == <<pc, raised, chunks, sent, results, exit>>
mdoc    == <<held, whole>>
vars    == <<setting, reader, link, mdoc>>

Init ==
    /\ scenario \in {"drop-mid-chunk", "disconnect-after-connect", "rapid-reconnect"}
    /\ fraction \in Fractions /\ greet \in BOOLEAN
    /\ pc = "scan" /\ link = "none" /\ raised = "nothing" /\ chunks = <<>> /\ sent = 0
    /\ results = <<>> /\ exit = "running"
    /\ held = <<>> /\ whole = FALSE
-----------------------------------------------------------------------------
(* How an attempt ends: rapid_reconnect_probe takes down any Exception as  *)
(* the result of its cycle and goes on to the next; cancellation is none.  *)
(* Elsewhere an error is a traceback.                                      *)
ProbeStopsOnError(how) ==
    IF how = "ok" /\ Len(results) + 1 < Cycles THEN pc' = "scan" /\ UNCHANGED exit
    ELSE pc' = "done" /\ exit' = IF how = "ok" THEN "ok" ELSE "failures"

CycleEnds(how) ==
    IF Len(results) + 1 < Cycles THEN pc' = "scan" /\ UNCHANGED exit
    ELSE pc' = "done" /\ exit' = IF how = "ok" /\ \A i \in DOMAIN results : results[i] = "ok"
                                 THEN "ok" ELSE "failures"

AttemptEnds(what) ==
    IF what = "cancelled" THEN pc' = "done" /\ exit' = "interrupted" /\ UNCHANGED results
    ELSE LET how == IF what = "nothing" THEN "ok" ELSE "failed" IN
         IF scenario = "rapid-reconnect"
         THEN results' = Append(results, how) /\ CycleEnds(how)
         ELSE /\ pc' = "done" /\ exit' = IF how = "ok" THEN "ok" ELSE "traceback"
              /\ UNCHANGED results

Scan ==
    /\ pc = "scan"
    /\ \/ pc' = "connect" /\ UNCHANGED <<results, exit>>
       \/ AttemptEnds("error")
    /\ UNCHANGED <<setting, link, raised, chunks, sent, mdoc>>

AfterConnect ==
    IF scenario = "drop-mid-chunk" THEN "subscribe"
    ELSE IF scenario = "disconnect-after-connect" /\ greet THEN "start"
    ELSE "leave"

Connect ==
    /\ pc = "connect"
    /\ \/ pc' = AfterConnect /\ link' = "up" /\ raised' = "nothing" /\ UNCHANGED <<results, exit>>
       \/ AttemptEnds("error") /\ UNCHANGED <<link, raised>>
    /\ UNCHANGED <<setting, chunks, sent, mdoc>>

(* start_notify or a write raises, whatever the link.                      *)
BleError ==
    /\ pc \in {"subscribe", "start", "chunks"}
    /\ pc' = "leave" /\ raised' = "error"
    /\ UNCHANGED <<setting, link, chunks, sent, results, exit, mdoc>>

Subscribe ==
    /\ pc = "subscribe" /\ link = "up"
    /\ pc' = "start"
    /\ UNCHANGED <<setting, link, raised, chunks, sent, results, exit, mdoc>>

(* STATE_START; then drop-mid-chunk cuts the request.                      *)
Start ==
    /\ pc = "start" /\ link = "up"
    /\ IF scenario = "drop-mid-chunk"
       THEN pc' = "chunks" /\ \E mtu \in Mtus : chunks' = ChunkMessage(Request, NegotiateChunkSize(mtu))
       ELSE pc' = "leave" /\ UNCHANGED chunks
    /\ UNCHANGED <<setting, link, raised, sent, results, exit, mdoc>>

(* `keep` of exchange_dropping_tail.                                       *)
KeepOfAll(total) == Greater(1, (total * fraction.num) \div fraction.den)
Keep(total) ==
    IF total > 1 THEN Greater(1, Lesser(total - 1, (total * fraction.num) \div fraction.den))
                 ELSE total

WriteChunk ==
    /\ pc = "chunks" /\ link = "up"
    /\ sent' = sent + 1
    /\ held' = FeedBuffer(held, chunks[sent + 1])
    /\ whole' = (whole \/ chunks[sent + 1].last)
    /\ pc' = IF sent + 1 = Lesser(Keep(Len(chunks)), Len(chunks)) THEN "leave" ELSE "chunks"
    /\ UNCHANGED <<setting, link, raised, chunks, results, exit>>

(* BleakClient.__aexit__ disconnects.  When that raises, the exception     *)
(* replaces what was leaving the block, and the connection may be up.      *)
LinkAfterExit == IF link = "up" THEN "closed" ELSE link

Leave ==
    /\ pc = "leave"
    /\ \/ link' = LinkAfterExit /\ AttemptEnds(raised)
       \/ link' \in {link, LinkAfterExit} /\ AttemptEnds("error")
    /\ UNCHANGED <<setting, raised, chunks, sent, mdoc>>

(* Ctrl-C cancels the task once.                                           *)
Interrupt ==
    /\ pc # "done" /\ raised # "cancelled"
    /\ raised' = "cancelled"
    /\ IF pc \in {"scan", "connect", "leave"}
       THEN pc' = "done" /\ exit' = "interrupted"
       ELSE pc' = "leave" /\ UNCHANGED exit
    /\ UNCHANGED <<setting, link, chunks, sent, results, mdoc>>

MdocHangsUp ==
    /\ link = "up" /\ pc # "done"
    /\ link' = "lost"
    /\ UNCHANGED <<setting, reader, mdoc>>
-----------------------------------------------------------------------------
Coroutine == Scan \/ Connect \/ BleError \/ Subscribe \/ Start \/ WriteChunk \/ Leave

Next == Coroutine \/ Interrupt \/ MdocHangsUp

(* Every await of these transports returns or raises.                      *)
Spec == Init /\ [][Next]_vars /\ WF_vars(Coroutine)
-----------------------------------------------------------------------------
(* A transfer of several chunks is never completed, whatever the fraction, *)
(* and one that was dropped as planned leaves the mdoc with a part of the  *)
(* message, not without one (ble.py:184-189).                              *)
TailDropped ==
    Len(chunks) > 1 =>
        /\ ~whole /\ sent < Len(chunks)
        /\ exit = "ok" => held # <<>> /\ held = SubSeq(Request, 1, Len(held))

(* The same of every transfer, as the docstring of exchange_dropping_tail  *)
(* has it (ble.py:169-175).                                                *)
NeverCompletes == ~whole

(* The scenarios end, whatever the mdoc does, and a failing cycle neither  *)
(* stops the probe nor gets lost: all cycles are reported and the exit     *)
(* status tells whether all went well (ble.py:229-247, cli.py:401-412).    *)
EveryCycleReported ==
    <>(/\ pc = "done"
       /\ scenario = "rapid-reconnect" /\ exit \in {"ok", "failures", "traceback"} =>
             /\ Len(results) = Cycles
             /\ exit = "ok" <=> \A i \in 1..Cycles : results[i] = "ok")
=============================================================================
