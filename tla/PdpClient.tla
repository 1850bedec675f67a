------------------------------ MODULE PdpClient ------------------------------
(***************************************************************************)
(* trust.authorize_documents with evaluate_request: one POST per document, *)
(* its reply read in pieces up to a limit, and a decision taken from what  *)
(* was read.  run_read calls it when its own checks have passed.           *)
(*                                                                         *)
(* The PDP is external and replies anything.  A reply is a record          *)
(*   status         the HTTP status; redirects are not followed            *)
(*   contentLength  Absent, or the size, which aiohttp then insists on     *)
(*   size           how many bytes the body has up to its end              *)
(*   text, cut      what the body says, whole and without its end          *)
(* and a text is [kind, members], kind being "not_json" (also bad UTF-8,   *)
(* NaN, and repeated members further down), "too_deep" (for the recursive  *)
(* decoder), "no_object", or "object", the members in order.               *)
(***************************************************************************)
EXTENDS Integers, Sequences

CONSTANTS Presentations,  \* the documents to authorize, as sequences of [hasChain]
          Replies,        \* what the PDP may reply
          Loopback,       \* the hosts 127.0.0.1, localhost, ::1
          Settings,       \* [roleOk, scheme, host, tokenOk] from the command line
          MaxBytes,       \* MAX_PDP_RESPONSE_BYTES
          ReadSize,       \* the most that is read at once
          Absent          \* None

ASSUME PdpClientAssumption ==
    /\ MaxBytes \in Nat /\ ReadSize \in Nat \ {0}
    /\ Absent \notin Replies /\ Absent \notin {"true", "false"}
    /\ \A r \in Replies :
          /\ r.status \in Int /\ r.size \in Nat /\ r.contentLength \in {Absent, r.size}
          /\ DOMAIN r.text.members \subseteq Nat
    /\ \A p \in Presentations : p \in Seq([hasChain : BOOLEAN]) /\ p # <<>>

VARIABLES pc,        \* "start", "next", "headers", "read", "decide", "done"
          settings,  \* the PDP options of this run
          documents, \* the presentation, <<>> before the call
          permits,   \* how many of its documents were permitted
          reply,     \* the reply being read, Absent before its headers
          got,       \* len(response_body)
          outcome    \* "open", "cleared" (it returns), "denied", "unavailable",
                     \* "failed" (unavailable, by transport), "misconfigured", "traceback"

vars == <<pc, settings, documents, permits, reply, got, outcome>>

Init ==
    /\ pc = "start" /\ settings \in Settings
    /\ documents = <<>> /\ permits = 0 /\ reply = Absent /\ got = 0 /\ outcome = "open"

Call ==
    /\ pc = "start" /\ pc' = "next"
    /\ documents' \in Presentations
    /\ UNCHANGED <<settings, permits, reply, got, outcome>>

Leave(how) ==
    /\ pc' = "done" /\ outcome' = how
    /\ UNCHANGED <<settings, documents, permits, reply, got>>
-----------------------------------------------------------------------------
(* The head of the loop over the documents.                                *)
Clear == pc = "next" /\ permits = Len(documents) /\ Leave("cleared")

(* build_authzen_request, _validate_pdp_url and _validate_bearer_token do  *)
(* not raise.                                                              *)
UrlAllowed(url) ==
    /\ url.host # Absent
    /\ url.scheme = "https" \/ (url.scheme = "http" /\ url.host \in Loopback)

MaySend(doc) == settings.roleOk /\ doc.hasChain /\ UrlAllowed(settings) /\ settings.tokenOk

RefuseToSend ==
    /\ pc = "next" /\ permits < Len(documents)
    /\ ~MaySend(documents[permits + 1])
    /\ Leave("misconfigured")

Post ==
    /\ pc = "next" /\ permits < Len(documents)
    /\ MaySend(documents[permits + 1])
    /\ pc' = "headers" /\ reply' = Absent /\ got' = 0
    /\ UNCHANGED <<settings, documents, permits, outcome>>
-----------------------------------------------------------------------------
(* The headers come in: the status and the announced length are looked at, *)
(* then the body is read.                                                  *)
Refused(r) ==
    \/ r.status \notin 200..299
    \/ r.contentLength # Absent /\ r.contentLength > MaxBytes

Headers ==
    /\ pc = "headers"
    /\ reply' \in Replies
    /\ IF Refused(reply') THEN pc' = "done" /\ outcome' = "unavailable"
                          ELSE pc' = "read" /\ UNCHANGED outcome
    /\ UNCHANGED <<settings, documents, permits, got>>

(* The condition of the loop, and one turn of it: a read returns some of   *)
(* what it may, or nothing at the end of the body.                         *)
KeepReadingUnderLimit(n) == n < MaxBytes
KeepReading(n)           == n <= MaxBytes

Lesser(a, b) == IF a <= b THEN a ELSE b

ReadLimitUnbounded(n) == ReadSize
ReadLimit(n)          == Lesser(ReadSize, MaxBytes + 1 - n)

ReadPiece ==
    /\ pc = "read" /\ got < reply.size
    /\ \E n \in 1..Lesser(ReadLimit(got), reply.size - got) : got' = got + n
    /\ pc' = IF KeepReading(got') THEN "read" ELSE "decide"
    /\ UNCHANGED <<settings, documents, permits, reply, outcome>>

EndOfBody ==
    /\ pc = "read" /\ got = reply.size
    /\ pc' = "decide"
    /\ UNCHANGED <<settings, documents, permits, reply, got, outcome>>

(* A ClientError, and the total timeout, which runs until the body is in.  *)
TransportFailsRetried ==
    /\ pc \in {"headers", "read"} /\ pc' = "next"
    /\ UNCHANGED <<settings, documents, permits, reply, got, outcome>>

TransportFails == pc \in {"headers", "read"} /\ Leave("failed")
-----------------------------------------------------------------------------
TooLongAtLimit(n) == n >= MaxBytes
TooLong(n)        == n > MaxBytes

Received == IF got = reply.size THEN reply.text ELSE reply.cut

(* _reject_duplicate_members, and type(...) is bool.                       *)
Repeats(text) == \E i, j \in DOMAIN text.members : i < j /\ text.members[i].key = text.members[j].key

Decision(text) ==
    IF text.kind = "object" /\ ~Repeats(text)
       /\ \E i \in DOMAIN text.members : text.members[i].key = "decision"
                                         /\ text.members[i].value \in {"true", "false"}
    THEN LET i == CHOOSE k \in DOMAIN text.members : text.members[k].key = "decision"
         IN  text.members[i].value
    ELSE Absent

NoDecision ==
    /\ pc = "decide" /\ (TooLong(got) \/ (Received.kind # "too_deep" /\ Decision(Received) = Absent))
    /\ Leave("unavailable")

(* The decoder's RecursionError is no ValueError.                          *)
NotDecoded == pc = "decide" /\ ~TooLong(got) /\ Received.kind = "too_deep" /\ Leave("traceback")

Denied == pc = "decide" /\ ~TooLong(got) /\ Decision(Received) = "false" /\ Leave("denied")

Permitted ==
    /\ pc = "decide" /\ ~TooLong(got) /\ Decision(Received) = "true"
    /\ permits' = permits + 1 /\ pc' = "next"
    /\ UNCHANGED <<settings, documents, reply, got, outcome>>

Interrupt == pc \in {"headers", "read"} /\ Leave("traceback")
-----------------------------------------------------------------------------
Client == Call \/ Clear \/ RefuseToSend \/ Post \/ Headers \/ ReadPiece \/ EndOfBody \/ TransportFails
          \/ NoDecision \/ NotDecoded \/ Denied \/ Permitted

Next == Client \/ Interrupt

(* The total timeout ends every wait for the PDP.                          *)
Spec == Init /\ [][Next]_vars /\ WF_vars(Client)
-----------------------------------------------------------------------------
(* Among the types: never more than one byte beyond the limit is kept in   *)
(* memory (trust.py:200).                                                  *)
TypeOK ==
    /\ pc \in {"start", "next", "headers", "read", "decide", "done"}
    /\ settings \in Settings
    /\ documents \in Presentations \cup {<<>>} /\ (documents = <<>> => pc = "start")
    /\ permits \in 0..Len(documents)
    /\ reply \in Replies \cup {Absent} /\ (pc \in {"read", "decide"} => reply # Absent)
    /\ got \in 0..(MaxBytes + 1) /\ (reply # Absent => got <= reply.size)
    /\ outcome \in {"open", "cleared", "denied", "unavailable", "failed", "misconfigured", "traceback"}
    /\ outcome = "open" <=> pc # "done"

(* A reply that permits: "an actual JSON boolean "decision": true", said   *)
(* once, in a body within the limit (README.md, "go-trust authorization"). *)
ExplicitPermit(r) ==
    /\ r.status >= 200 /\ r.status < 300 /\ r.size <= MaxBytes
    /\ r.text.kind = "object"
    /\ \A i, j \in DOMAIN r.text.members : r.text.members[i].key = r.text.members[j].key => i = j
    /\ \E i \in DOMAIN r.text.members : r.text.members[i].key = "decision" /\ r.text.members[i].value = "true"

(* A document counts as permitted only on a reply that was read to its end *)
(* and permits; the documents are permitted one at a time, and none after  *)
(* another answer (trust.py:198-231).                                      *)
PermitsAreExplicit ==
    [][permits' # permits => /\ permits' = permits + 1 /\ outcome = "open"
                             /\ ExplicitPermit(reply) /\ got = reply.size]_vars

(* The reply to the last request is not held against the holder without a  *)
(* cause: one that permits is refused neither for its size nor for its     *)
(* content, whatever pieces it came in (trust.py:193-221).                 *)
RefusedForCause ==
    outcome \in {"denied", "unavailable"} => ~ExplicitPermit(reply)

(* It clears a presentation as DisclosureGate says, its termination        *)
(* included: all permitted, or refused for good (trust.py:224-231).        *)
Gate == INSTANCE DisclosureGate WITH
    pdpDecides <- TRUE,
    candidate  <- documents,
    released   <- IF outcome = "cleared" THEN documents ELSE <<>>,
    closed     <- pc = "done"

ImplementsGate == Gate!Spec
=============================================================================
