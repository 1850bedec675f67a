---------------------------- MODULE ReadSession ----------------------------
(***************************************************************************)
(* `siros-verifier read` from the exchange on: cli.run_read, with          *)
(* trust.authorize_documents.  The coroutine suspends in the exchange and  *)
(* in each request to the PDP; what lies between is one action per path    *)
(* through the code.                                                       *)
(*                                                                         *)
(* The exchange is what ExchangeContract says: it ends with a message of   *)
(* the mdoc or a failure.  The PDP is external: it answers anything, late  *)
(* or never.  Time is discrete and passes only while the coroutine is      *)
(* suspended.                                                              *)
(***************************************************************************)
EXTENDS DeviceResponse

CONSTANTS SessionData,   \* the messages the exchange may return
          Requests,      \* doc_requests
          Session,       \* session_transcript
          PdpTimeout,    \* PDP_TIMEOUT_SECONDS, in ticks
          ExchangeTime   \* bound: ticks the exchange may take

ASSUME ReadSessionAssumption ==
    /\ PdpTimeout \in Nat /\ ExchangeTime \in Nat
    /\ Absent \notin SessionData
    /\ \A m \in SessionData : IsResponse(m.response)

(* SessionData as decoded and decrypted: [kind, response], kind being      *)
(*   "not_cbor"       cbor2.loads raises, or it is no map                  *)
(*   "no_data"        a status instead of data                             *)
(*   "undecryptable"  not encrypted under SKDevice of this session         *)
(*   "not_response"   the plaintext is no DeviceResponse at all            *)
(*   "response"       a DeviceResponse                                     *)

VARIABLES
    pc,        \* "exchange", "check", "authorize", "pdp", "render", "print", "done"
    pdp,       \* --pdp-url and its companions: "off", "invalid", "on"
    received,  \* the message the exchange returned, Absent before
    now,       \* the clock
    checkedAt, \* the time validate_device_response took; Absent before
    asked,     \* history: the documents put to the PDP, by index, in order
    permits,   \* the documents it has permitted
    waited,    \* ticks since the current request to the PDP
    printed,   \* the documents whose claims are on stdout
    exit       \* "running", "ok" (0), "reported" (1), "traceback"

vars == <<pc, pdp, received, now, checkedAt, asked, permits, waited, printed, exit>>

response  == received.response
documents == response.documents

Init ==
    /\ pc = "exchange" /\ pdp \in {"off", "invalid", "on"}
    /\ received = Absent /\ now = 0 /\ checkedAt = Absent
    /\ asked = <<>> /\ permits = 0 /\ waited = 0
    /\ printed = <<>> /\ exit = "running"

(* The coroutine is over without a claim printed.                          *)
Stop(how) ==
    /\ pc' = "done" /\ exit' = how
    /\ UNCHANGED <<pdp, received, now, checkedAt, asked, permits, waited, printed>>
-----------------------------------------------------------------------------
(* DeviceNotFoundError, TimeoutError and ImportError are reported;         *)
(* BleakError is not caught.                                               *)
ExchangeFails == pc = "exchange" /\ \E how \in {"reported", "traceback"} : Stop(how)

ExchangeReturns ==
    /\ pc = "exchange"
    /\ received' \in SessionData
    /\ pc' = "check"
    /\ UNCHANGED <<pdp, now, checkedAt, asked, permits, waited, printed, exit>>

ExchangeTakesTime ==
    /\ pc = "exchange" /\ now < ExchangeTime
    /\ now' = now + 1
    /\ UNCHANGED <<pc, pdp, received, checkedAt, asked, permits, waited, printed, exit>>

(* The paths of lines 236 to 261 that end the program.  cbor2's end-of-    *)
(* input error is no ValueError: a plaintext that is cut off, or an item   *)
(* in it that is (mdoc.py:83), may be a traceback.                         *)
RejectSessionData ==
    /\ pc = "check"
    /\ \/ received.kind = "no_data" /\ Stop("reported")
       \/ received.kind \in {"not_cbor", "undecryptable"} /\ Stop("traceback")
       \/ received.kind = "not_response" /\ \E how \in {"reported", "traceback"} : Stop(how)

RejectMalformed ==
    /\ pc = "check" /\ received.kind = "response"
    /\ ~Parses(response)
    /\ \E how \in {"reported", "traceback"} : Stop(how)

RejectInvalid ==
    /\ pc = "check" /\ received.kind = "response"
    /\ Parses(response) /\ ~Validates(response, Requests, Session, now)
    /\ Stop("reported")

Accept ==
    /\ pc = "check" /\ received.kind = "response"
    /\ Parses(response) /\ Validates(response, Requests, Session, now)
    /\ checkedAt' = now
    /\ pc' = IF pdp = "off" THEN "render" ELSE "authorize"
    /\ UNCHANGED <<pdp, received, now, asked, permits, waited, printed, exit>>
-----------------------------------------------------------------------------
(* authorize_documents: one turn of its loop is AskPdp and an answer.      *)

(* A role, URL or token that cannot be used is a TrustError before         *)
(* anything is sent.                                                       *)
RefusePdpSettings == pc = "authorize" /\ pdp = "invalid" /\ Stop("reported")

NextDocumentAgain == 1
NextDocument      == permits + 1

AskPdp ==
    /\ pc = "authorize" /\ pdp = "on"
    /\ asked' = Append(asked, NextDocument)
    /\ waited' = 0 /\ pc' = "pdp"
    /\ UNCHANGED <<pdp, received, now, checkedAt, permits, printed, exit>>

(* The total timeout of aiohttp bounds the wait, body included.            *)
PdpTakesTimeUnbounded == pc = "pdp"
PdpStillWaiting       == pc = "pdp" /\ waited < PdpTimeout

PdpTakesTime ==
    /\ PdpStillWaiting
    /\ waited' = waited + 1 /\ now' = now + 1
    /\ UNCHANGED <<pc, pdp, received, checkedAt, asked, permits, printed, exit>>

AfterFirstPermit == "render"
AfterPermit      == IF permits + 1 = Len(documents) THEN "render" ELSE "authorize"

PdpPermits ==
    /\ pc = "pdp"
    /\ permits' = permits + 1
    /\ pc' = AfterPermit
    /\ UNCHANGED <<pdp, received, now, checkedAt, asked, waited, printed, exit>>

(* A denial, a timeout, a status other than 2xx, a body that is no         *)
(* explicit decision: TrustError.  JSON too deep for the decoder is none.  *)
PdpRefusalSkipped ==
    /\ pc = "pdp" /\ pc' = "authorize"
    /\ UNCHANGED <<pdp, received, now, checkedAt, asked, permits, waited, printed, exit>>

PdpDoesNotPermit == pc = "pdp" /\ \E how \in {"reported", "traceback"} : Stop(how)
-----------------------------------------------------------------------------
(* The whole output is rendered into memory, then printed at once.         *)
Render ==
    /\ pc = "render"
    /\ pc' = "print"
    /\ UNCHANGED <<pdp, received, now, checkedAt, asked, permits, waited, printed, exit>>

RenderFailsUnbuffered ==
    /\ pc = "render"
    /\ \E n \in 0..Len(documents) : printed' = SubSeq(documents, 1, n)
    /\ pc' = "done" /\ exit' = "reported"
    /\ UNCHANGED <<pdp, received, now, checkedAt, asked, permits, waited>>

RenderFails == pc = "render" /\ Stop("reported")

PrintClaims ==
    /\ pc = "print"
    /\ printed' = documents
    /\ pc' = "done" /\ exit' = "ok"
    /\ UNCHANGED <<pdp, received, now, checkedAt, asked, permits, waited>>

(* Ctrl-C cancels the coroutine where it is suspended.                     *)
Interrupt == pc \in {"exchange", "pdp"} /\ Stop("traceback")
-----------------------------------------------------------------------------
Check    == RejectSessionData \/ RejectMalformed \/ RejectInvalid \/ Accept
Progress == ExchangeFails \/ ExchangeReturns \/ Check \/ RefusePdpSettings \/ AskPdp
            \/ PdpPermits \/ PdpDoesNotPermit \/ Render \/ RenderFails \/ PrintClaims

Next == Progress \/ ExchangeTakesTime \/ PdpTakesTime \/ Interrupt

(* The exchange ends (ExchangeContract), a request to the PDP ends (its    *)
(* total timeout), and code that is not suspended runs.                    *)
Spec == Init /\ [][Next]_vars /\ WF_vars(Progress)
-----------------------------------------------------------------------------
TypeOK ==
    /\ pc \in {"exchange", "check", "authorize", "pdp", "render", "print", "done"}
    /\ pdp \in {"off", "invalid", "on"}
    /\ received \in SessionData \cup {Absent}
    /\ received = Absent => pc \in {"exchange", "done"}
    /\ now \in Nat /\ checkedAt \in Nat \cup {Absent}
    /\ asked \in Seq(Nat) /\ permits \in Nat /\ waited \in 0..PdpTimeout
    /\ received = Absent => printed = <<>>
    /\ received # Absent => printed \in {<<>>, documents}
    /\ exit \in {"running", "ok", "reported", "traceback"}
    /\ exit = "running" <=> pc # "done"

Accepted == received # Absent /\ received.kind = "response" /\ documents # <<>>

(* No claim leaves the program, and no document is shown to the PDP, that  *)
(* was not checked in full: issued, presented by the holder's device in    *)
(* this session, in force when checked, and what was asked for             *)
(* (cli.py:247-274; README "Fail-closed disclosure").                      *)
NothingUnverifiedLeaves ==
    printed # <<>> \/ asked # <<>> =>
        /\ Accepted /\ checkedAt # Absent
        /\ Genuine(response, Requests, Session, checkedAt)

(* Claims are printed only when every document was permitted one by one,   *)
(* each having been asked about once and in order (trust.py:228-231).      *)
PermittedOneByOne ==
    /\ asked = [i \in 1..Len(asked) |-> i]
    /\ Len(asked) \in {permits, permits + 1}
    /\ printed # <<>> /\ pdp # "off" => permits = Len(documents) /\ Len(asked) = permits

(* All documents or none: the program exits with 0 when it has printed     *)
(* every document of the response and otherwise it has printed nothing     *)
(* (cli.py:276-291).                                                       *)
AllOrNothing ==
    IF exit = "ok" THEN Accepted /\ printed = documents ELSE printed = <<>>

(* How stale a printed claim can be: validity is checked before the PDP is *)
(* asked and not again, so a document may have expired when it is printed, *)
(* but by no more than one PDP timeout per document (trust.py:186).        *)
BoundedStaleness ==
    printed # <<>> => \A d \in DOMAIN documents :
        now < Mso(documents[d]).validUntil + PdpTimeout * Len(documents)

(* After an answer that is not a permit the PDP is never asked again.      *)
NoAskingAfterRefusal == [][asked' # asked => permits = Len(asked) /\ exit = "running"]_vars

(* It implements the promise of DisclosureGate, its termination included.  *)
Gate == INSTANCE DisclosureGate WITH
    pdpDecides <- pdp # "off",
    candidate  <- IF checkedAt = Absent THEN <<>> ELSE documents,
    released   <- printed,
    closed     <- pc = "done"

ImplementsGate == Gate!Spec
=============================================================================
