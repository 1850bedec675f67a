---------------------------- MODULE FuzzSession ----------------------------
(***************************************************************************)
(* The message-level scenarios of `siros-verify fuzz` (cli.run_fuzz):      *)
(* garbage-cbor-request, corrupt-ciphertext and                            *)
(* truncated-session-establishment.  They differ in the bytes sent, which  *)
(* the mdoc should refuse; what the program does with an answer is the     *)
(* same.  The exchange is as in ReadSession, the mdoc answers anything.    *)
(***************************************************************************)
EXTENDS DeviceResponse

CONSTANTS SessionData,  \* the messages the exchange may return, as in ReadSession
          Requests,     \* doc_requests
          Session,      \* session_transcript
          Now           \* the time of the answer

ASSUME FuzzSessionAssumption ==
    /\ Now \in Nat /\ Absent \notin SessionData
    /\ \A m \in SessionData : IsResponse(m.response)

VARIABLES pc,        \* "exchange", "answer", "print", "done"
          received,  \* the message the exchange returned, Absent before
          printed,   \* the documents whose claims are on stdout
          exit       \* "running", "ok" (0), "reported" (1), "traceback"

vars == <<pc, received, printed, exit>>

Init == pc = "exchange" /\ received = Absent /\ printed = <<>> /\ exit = "running"

Stop(how) == pc' = "done" /\ exit' = how /\ UNCHANGED <<received, printed>>

(* BleakError, and Ctrl-C, are tracebacks.                                 *)
ExchangeFails == pc = "exchange" /\ \E how \in {"reported", "traceback"} : Stop(how)

ExchangeReturns ==
    /\ pc = "exchange"
    /\ received' \in SessionData
    /\ pc' = "answer"
    /\ UNCHANGED <<printed, exit>>

(* A status instead of data is what the scenario hopes for.                *)
Declined == pc = "answer" /\ received.kind = "no_data" /\ Stop("ok")

NotRead ==
    /\ pc = "answer"
    /\ \/ received.kind \in {"not_cbor", "undecryptable", "not_response"}
       \/ received.kind = "response" /\ ~Parses(received.response)
    /\ Stop("traceback")

Read ==
    /\ pc = "answer" /\ received.kind = "response" /\ Parses(received.response)
    /\ pc' = "print"
    /\ UNCHANGED <<received, printed, exit>>

(* print_device_response renders into a buffer and prints that at once.    *)
RenderFailsUnbuffered ==
    /\ pc = "print"
    /\ \E n \in 0..Len(received.response.documents) : printed' = SubSeq(received.response.documents, 1, n)
    /\ pc' = "done" /\ exit' = "traceback"
    /\ UNCHANGED received

RenderFails == pc = "print" /\ Stop("traceback")

PrintClaims ==
    /\ pc = "print"
    /\ printed' = received.response.documents
    /\ pc' = "done" /\ exit' = "ok"
    /\ UNCHANGED received

Next == ExchangeFails \/ ExchangeReturns \/ Declined \/ NotRead \/ Read \/ RenderFails \/ PrintClaims

Spec == Init /\ [][Next]_vars
-----------------------------------------------------------------------------
(* Claims are printed of a whole response that parsed, or not at all, and  *)
(* 0 is returned only when the mdoc has answered: with a refusal, or with  *)
(* documents that are all printed (cli.py:342-367).                        *)
FuzzAllOrNothing ==
    IF exit = "ok"
    THEN \/ received.kind = "no_data" /\ printed = <<>>
         \/ received.kind = "response" /\ Parses(received.response)
            /\ printed = received.response.documents
    ELSE printed = <<>>

(* "Fail-closed disclosure - any response-status, cryptographic, validity, *)
(* request-policy, response-structure, or configured PDP failure exits     *)
(* nonzero without printing claims" (README.md:165).                       *)
FailClosed ==
    printed # <<>> => Genuine(received.response, Requests, Session, Now)
=============================================================================
