------------------------- MODULE ReadSessionProofs -------------------------
(***************************************************************************)
(* The checks of mdoc.py and verify.py are enough: a response that parses  *)
(* and validates is genuine, for any keys, requests and session.  And on   *)
(* that the safety of `read`, for every set of messages an mdoc may send,  *)
(* every request, and every PDP timeout.                                   *)
(***************************************************************************)
EXTENDS ReadSession, TLAPS

(* Each reason of DocumentErrors that is absent is a fact about the        *)
(* document.                                                               *)
LEMMA NoIssuerReason ==
    ASSUME NEW doc, NEW requests, NEW session, NEW date,
           DocumentErrors(doc, requests, session, date) = {}
    PROVE  /\ doc.issuerAuth # Absent
           /\ Mso(doc) # Absent
           /\ IssuerSignatureValid(doc.issuerAuth) = TRUE
           /\ Mso(doc).docType = doc.docType
           /\ ~DigestNotValid(doc)
<1> DEFINE E == DocumentErrors(doc, requests, session, date)
<1>1. "issuer_auth_missing" \notin E /\ "issuer_signature_not_valid" \notin E
      /\ "mso_missing" \notin E /\ "doc_type_mismatch" \notin E
      /\ "element_digest_not_valid" \notin E
  OBVIOUS
<1>2. doc.issuerAuth # Absent
  BY <1>1 DEF DocumentErrors
<1>3. IssuerSignatureValid(doc.issuerAuth) = TRUE
  BY <1>1, <1>2 DEF DocumentErrors
<1>4. Mso(doc) # Absent
  BY <1>1 DEF DocumentErrors
<1>5. Mso(doc).docType = doc.docType
  BY <1>1, <1>4 DEF DocumentErrors
<1>6. ~DigestNotValid(doc)
  BY <1>1 DEF DocumentErrors
<1> QED
  BY <1>2, <1>3, <1>4, <1>5, <1>6

(* The same of the reasons that concern device, request and errors.        *)
LEMMA NoOtherReason ==
    ASSUME NEW doc, NEW requests, NEW session, NEW date,
           DocumentErrors(doc, requests, session, date) = {}
    PROVE  /\ HasTimes(Mso(doc))
           /\ ~(date < Mso(doc).signed)
           /\ ~(date < Mso(doc).validFrom)
           /\ ~(date >= Mso(doc).validUntil)
           /\ DeviceAuthValid(doc, session) = TRUE
           /\ doc.deviceNameSpaces = {}
           /\ Matching(doc, requests) # {}
           /\ ~LacksSomethingRequested(doc, requests)
<1> DEFINE E == DocumentErrors(doc, requests, session, date)
<1>1. /\ "validity_info" \notin E /\ "signed_in_future" \notin E /\ "not_yet_valid" \notin E
      /\ "expired" \notin E /\ "device_auth_not_valid" \notin E
      /\ "device_namespaces_unsupported" \notin E /\ "doc_type_not_requested" \notin E
      /\ "requested_missing" \notin E
  OBVIOUS
<1>2. Mso(doc) # Absent
  BY NoIssuerReason
<1>3. HasTimes(Mso(doc))
  BY <1>1, <1>2 DEF DocumentErrors
<1>4. ~(date < Mso(doc).signed)
  BY <1>1, <1>2, <1>3 DEF DocumentErrors
<1>5. ~(date < Mso(doc).validFrom)
  BY <1>1, <1>2, <1>3 DEF DocumentErrors
<1>6. ~(date >= Mso(doc).validUntil)
  BY <1>1, <1>2, <1>3 DEF DocumentErrors
<1>7. DeviceAuthValid(doc, session) = TRUE
  BY <1>1 DEF DocumentErrors
<1>8. doc.deviceNameSpaces = {}
  BY <1>1 DEF DocumentErrors
<1>9. Matching(doc, requests) # {}
  BY <1>1 DEF DocumentErrors
<1>10. ~LacksSomethingRequested(doc, requests)
  BY <1>1 DEF DocumentErrors
<1> QED
  BY <1>3, <1>4, <1>5, <1>6, <1>7, <1>8, <1>9, <1>10

(* The COSE check says TRUE only of what the key made over the payload.    *)
LEMMA Sign1Sound ==
    ASSUME NEW structure, NEW key, NEW payload, VerifySign1(structure, key, payload) = TRUE
    PROVE  structure.by = <<key>> /\ structure.over = payload
BY AbsentAssumption DEF VerifySign1

(* The same of the MAC, with the key and session it is derived from.       *)
LEMMA Mac0Sound ==
    ASSUME NEW structure, NEW key, NEW session, NEW payload,
           VerifyMac0(structure, key, session, payload) = TRUE
    PROVE  structure.by = <<key, session>> /\ structure.over = payload
BY AbsentAssumption DEF VerifyMac0

(* mdoc.py:152-292 and verify.py:87-165.                                   *)
LEMMA ChecksImplyAttested ==
    ASSUME NEW doc, NEW requests, NEW session, NEW date,
           NameSpacesParse(doc),
           DocumentErrors(doc, requests, session, date) = {}
    PROVE  IssuerAttests(doc)
<1> DEFINE auth == doc.issuerAuth
           mso  == auth.mso
<1>1. /\ auth # Absent /\ Mso(doc) = mso /\ mso # Absent
      /\ IssuerSignatureValid(auth) = TRUE
      /\ mso.docType = doc.docType
      /\ ~DigestNotValid(doc)
  BY NoIssuerReason DEF Mso
<1>2. auth.chain # <<>> /\ VerifySign1(auth, auth.chain[1], auth.mso) = TRUE
  BY <1>1, AbsentAssumption DEF IssuerSignatureValid
<1>3. auth.by = <<auth.chain[1]>> /\ auth.over = mso
  BY <1>2, AbsentAssumption DEF VerifySign1
<1>4. ASSUME NEW ns \in DOMAIN doc.nameSpaces, NEW i \in DOMAIN doc.nameSpaces[ns]
      PROVE  \E id \in DOMAIN mso.valueDigests[ns] : mso.valueDigests[ns][id] = doc.nameSpaces[ns][i]
  <2> DEFINE item == doc.nameSpaces[ns][i]
  <2>1. item.digestID \in DOMAIN mso.valueDigests[ns]
    BY <1>1 DEF NameSpacesParse
  <2>2. VerifyDigest(mso, ns, item) = TRUE
    BY <1>1 DEF DigestNotValid
  <2>3. mso.valueDigests[ns][item.digestID] = item
    BY <2>2, AbsentAssumption DEF VerifyDigest
  <2> QED
    BY <2>1, <2>3
<1>5. ASSUME NEW ns \in DOMAIN doc.nameSpaces,
             NEW i \in DOMAIN doc.nameSpaces[ns], NEW j \in DOMAIN doc.nameSpaces[ns],
             doc.nameSpaces[ns][i].identifier = doc.nameSpaces[ns][j].identifier
      PROVE  i = j
  BY <1>5 DEF NameSpacesParse, NoRepeats
<1> QED
  BY <1>1, <1>2, <1>3, <1>4, <1>5 DEF IssuerAttests

(* mdoc.py:330-380.                                                        *)
LEMMA ChecksImplyPresented ==
    ASSUME NEW doc, NEW requests, NEW session, NEW date,
           DocumentErrors(doc, requests, session, date) = {}
    PROVE  DevicePresents(doc, session)
<1> DEFINE key  == Mso(doc).deviceKey
           kind == CHOOSE k \in DOMAIN doc.deviceAuth : TRUE
           auth == doc.deviceAuth[kind]
           over == DeviceAuthentication(doc, session)
<1>1. DeviceAuthValid(doc, session) = TRUE /\ doc.deviceNameSpaces = {}
  BY NoOtherReason
<1>2. DeviceAuthValid(doc, session) # Absent
  BY <1>1, AbsentAssumption
<1>3. \E k \in DOMAIN doc.deviceAuth : DOMAIN doc.deviceAuth = {k}
  BY <1>2 DEF DeviceAuthValid
<1>4. Mso(doc) # Absent
  BY NoIssuerReason
<1>5. DOMAIN doc.deviceAuth = {kind}
  BY <1>3
<1>6. key \in EcKeys /\ auth.detached
  BY <1>2, <1>3, <1>4 DEF DeviceAuthValid
<1>7. TRUE = IF kind = "deviceSignature" THEN VerifySign1(auth, key, over)
             ELSE IF kind = "deviceMac" THEN VerifyMac0(auth, key, session, over)
             ELSE Absent
  BY <1>1, <1>3, <1>4, <1>6 DEF DeviceAuthValid
<1>8. over = <<session, doc.docType, {}>>
  BY <1>1 DEF DeviceAuthentication
<1>9. CASE kind = "deviceSignature"
  <2>1. VerifySign1(auth, key, over) = TRUE
    BY <1>7, <1>9
  <2>2. auth.by = <<key>> /\ auth.over = over
    BY <2>1, Sign1Sound
  <2>3. DOMAIN doc.deviceAuth = {"deviceSignature"} /\ doc.deviceAuth["deviceSignature"] = auth
    BY <1>5, <1>9
  <2>4. auth.by[1] = key /\ auth.over = <<session, doc.docType, {}>>
    BY <1>8, <2>2
  <2> QED
    BY <2>3, <2>4 DEF DevicePresents
<1>10. CASE kind = "deviceMac"
  <2>1. VerifyMac0(auth, key, session, over) = TRUE
    BY <1>7, <1>10
  <2>2. auth.by = <<key, session>> /\ auth.over = over
    BY <2>1, Mac0Sound
  <2>3. DOMAIN doc.deviceAuth = {"deviceMac"} /\ doc.deviceAuth["deviceMac"] = auth
    BY <1>5, <1>10
  <2>4. auth.by[1] = key /\ auth.over = <<session, doc.docType, {}>>
    BY <1>8, <2>2
  <2> QED
    BY <2>3, <2>4 DEF DevicePresents
<1>11. CASE kind # "deviceSignature" /\ kind # "deviceMac"
  BY <1>7, <1>11, AbsentAssumption
<1> QED
  BY <1>9, <1>10, <1>11

(* mdoc.py:403-406, 479-497.                                               *)
LEMMA ChecksImplyInForce ==
    ASSUME NEW given, IsResponse(given), NEW d \in DOMAIN given.documents,
           NEW requests, NEW session, NEW date \in Int,
           DocumentErrors(given.documents[d], requests, session, date) = {}
    PROVE  InForce(given.documents[d], date) /\ Mso(given.documents[d]).validUntil \in Int
<1> DEFINE mso == Mso(given.documents[d])
<1>1. mso # Absent
  BY NoIssuerReason
<1>2. {mso.signed, mso.validFrom, mso.validUntil} \subseteq Int \cup {Absent}
  BY <1>1 DEF IsResponse
<1>3. /\ HasTimes(mso)
      /\ ~(date < mso.signed) /\ ~(date < mso.validFrom) /\ ~(date >= mso.validUntil)
  <2> DEFINE doc == given.documents[d]
  <2>1. DocumentErrors(doc, requests, session, date) = {} /\ mso = Mso(doc)
    OBVIOUS
  <2> HIDE DEF doc, mso
  <2>2. /\ HasTimes(Mso(doc))
        /\ ~(date < Mso(doc).signed) /\ ~(date < Mso(doc).validFrom) /\ ~(date >= Mso(doc).validUntil)
    BY <2>1, NoOtherReason
  <2> QED
    BY <2>1, <2>2
<1>4. mso.signed \in Int /\ mso.validFrom \in Int /\ mso.validUntil \in Int
  BY <1>2, <1>3 DEF HasTimes
<1> QED
  BY <1>3, <1>4 DEF InForce

(* mdoc.py:450-462, 511-520.                                               *)
LEMMA ChecksImplyAnswers ==
    ASSUME NEW given, NEW requests, NEW session, NEW date,
           Validates(given, requests, session, date)
    PROVE  Answers(given, requests)
<1>1. ASSUME NEW d \in DOMAIN given.documents
      PROVE  \E r \in requests : r.docType = given.documents[d].docType
  <2>1. DocumentErrors(given.documents[d], requests, session, date) = {}
    BY DEF Validates
  <2>2. Matching(given.documents[d], requests) # {}
    BY <2>1, NoOtherReason
  <2> QED
    BY <2>2 DEF Matching
<1>2. ASSUME NEW r \in requests
      PROVE  \E d \in DOMAIN given.documents : given.documents[d].docType = r.docType
  <2>1. "requested_doc_type_missing" \notin ResponseErrors(given, requests)
    BY DEF Validates
  <2>2. r.docType \in DocTypes(given)
    BY <2>1 DEF ResponseErrors
  <2> QED
    BY <2>2 DEF DocTypes
<1>3. ASSUME NEW r \in requests, NEW d \in DOMAIN given.documents,
             given.documents[d].docType = r.docType,
             NEW ns \in DOMAIN r.namespaces, NEW wanted \in r.namespaces[ns]
      PROVE  /\ ns \in DOMAIN given.documents[d].nameSpaces
             /\ \E i \in DOMAIN given.documents[d].nameSpaces[ns] :
                   given.documents[d].nameSpaces[ns][i].identifier = wanted
  <2> DEFINE doc == given.documents[d]
  <2>0. DocumentErrors(doc, requests, session, date) = {}
    BY DEF Validates
  <2>1. ~LacksSomethingRequested(doc, requests)
    <3> HIDE DEF doc
    <3> QED
      BY <2>0, NoOtherReason
  <2>2. r \in Matching(doc, requests)
    BY <1>3 DEF Matching
  <2>3. ns \in DOMAIN doc.nameSpaces /\ r.namespaces[ns] \subseteq Identifiers(doc, ns)
    BY <2>1, <2>2 DEF LacksSomethingRequested
  <2> QED
    BY <2>3 DEF Identifiers
<1> QED
  BY <1>1, <1>2, <1>3 DEF Answers

(* A response that passes parse_device_response, verify_device_auth and    *)
(* validate_device_response is what a verifier may rely on, whatever the   *)
(* wire carried.                                                           *)
THEOREM ChecksSuffice ==
    ASSUME NEW given, IsResponse(given), NEW requests, NEW session, NEW date \in Int,
           Parses(given), Validates(given, requests, session, date)
    PROVE  Genuine(given, requests, session, date) /\ given.documents # <<>>
<1>1. Answers(given, requests)
  BY ChecksImplyAnswers
<1>2. ASSUME NEW d \in DOMAIN given.documents
      PROVE  /\ IssuerAttests(given.documents[d])
             /\ DevicePresents(given.documents[d], session)
             /\ InForce(given.documents[d], date)
  <2>1. NameSpacesParse(given.documents[d])
        /\ DocumentErrors(given.documents[d], requests, session, date) = {}
    BY DEF Parses, Validates
  <2> QED
    BY <2>1, ChecksImplyAttested, ChecksImplyPresented, ChecksImplyInForce
<1>3. given.documents # <<>>
  <2>1. "document_count" \notin ResponseErrors(given, requests)
    BY DEF Validates
  <2> QED
    BY <2>1 DEF ResponseErrors
<1> QED
  BY <1>1, <1>2, <1>3 DEF Genuine
-----------------------------------------------------------------------------

vettedStages == {"authorize", "pdp", "render", "print"}

(* What an accepted response is, from the time it is accepted on.          *)
Vetted ==
    /\ pc \in vettedStages \/ printed # <<>> \/ asked # <<>> => checkedAt # Absent
    /\ pc \in {"exchange", "check"} => checkedAt = Absent /\ permits = 0
    /\ checkedAt # Absent =>
        /\ received \in SessionData /\ received.kind = "response"
        /\ Parses(response) /\ Validates(response, Requests, Session, checkedAt)

(* How far the questions to the PDP have come.                             *)
Counted ==
    /\ asked = [i \in 1..Len(asked) |-> i]
    /\ Len(asked) \in {permits, permits + 1}
    /\ pc = "authorize" => pdp # "off" /\ Len(asked) = permits /\ permits < Len(documents)
    /\ pc = "pdp" => pdp = "on" /\ Len(asked) = permits + 1 /\ permits < Len(documents)
    /\ checkedAt # Absent => permits <= Len(documents)
    /\ pc \in {"render", "print"} /\ pdp # "off" => permits = Len(documents) /\ Len(asked) = permits
    /\ printed # <<>> /\ pdp # "off" => permits = Len(documents) /\ Len(asked) = permits
    /\ pdp = "off" => permits = 0 /\ asked = <<>>

Printed == IF exit = "ok" THEN checkedAt # Absent /\ printed = documents ELSE printed = <<>>

(* How much time can have passed since the check.                          *)
Aged ==
    pc \in vettedStages \/ exit = "ok" =>
        now <= checkedAt + PdpTimeout * permits + (IF pc = "pdp" THEN waited ELSE 0)

IInv == TypeOK /\ Vetted /\ Counted /\ Printed /\ Aged
-----------------------------------------------------------------------------
(* What was accepted is genuine, by ChecksSuffice.                         *)
LEMMA AcceptedIsGenuine ==
    ASSUME TypeOK, Vetted, checkedAt # Absent
    PROVE  Accepted /\ Genuine(response, Requests, Session, checkedAt)
<1>1. /\ received \in SessionData /\ received.kind = "response"
      /\ Parses(response) /\ Validates(response, Requests, Session, checkedAt)
  BY DEF Vetted
<1>2. IsResponse(response)
  BY <1>1, ReadSessionAssumption DEF response
<1>3. checkedAt \in Int
  BY DEF TypeOK
<1>4. Genuine(response, Requests, Session, checkedAt) /\ response.documents # <<>>
  BY <1>1, <1>2, <1>3, ChecksSuffice
<1>5. received # Absent
  BY <1>1, ReadSessionAssumption
<1> QED
  BY <1>1, <1>4, <1>5 DEF Accepted, documents

(* The documents of a response are a sequence.                             *)
LEMMA DocumentsAreSequence ==
    ASSUME received \in SessionData
    PROVE  Len(documents) \in Nat /\ DOMAIN documents = 1..Len(documents)
<1>1. IsResponse(response)
  BY ReadSessionAssumption DEF response
<1>2. documents \in Seq({documents[d] : d \in DOMAIN documents})
  BY <1>1 DEF IsResponse, documents
<1> QED
  BY <1>2

(* The invariant holds initially.                                          *)
LEMMA InitIInv == Init => IInv
BY ReadSessionAssumption DEF Init, IInv, TypeOK, Vetted, Counted, Printed, Aged, vettedStages

(* The coroutine stops without printing.                                   *)
LEMMA StopIInv ==
    ASSUME IInv, NEW how \in {"reported", "traceback"}, pc # "done", Stop(how)
    PROVE  IInv'
<1> USE DEF Stop
<1>1. TypeOK'
  BY DEF IInv, TypeOK, response, documents
<1>2. Vetted'
  BY DEF IInv, Vetted, response, vettedStages
<1>3. Counted'
  BY DEF IInv, Counted, documents, response
<1>4. printed = <<>>
  BY DEF IInv, Printed, TypeOK
<1>5. Printed'
  BY <1>4 DEF Printed
<1>6. Aged'
  BY DEF Aged, vettedStages
<1> QED
  BY <1>1, <1>2, <1>3, <1>5, <1>6 DEF IInv

(* ExchangeReturns preserves the invariant.                                *)
LEMMA ExchangeReturnsIInv == IInv /\ ExchangeReturns => IInv'
<1> SUFFICES ASSUME IInv, ExchangeReturns PROVE IInv'
  OBVIOUS
<1> USE DEF ExchangeReturns
<1>1. printed = <<>> /\ checkedAt = Absent /\ asked = <<>>
  <2>1. checkedAt = Absent
    BY DEF IInv, Vetted
  <2> QED
    BY <2>1 DEF IInv, Vetted
<1>2. TypeOK'
  BY <1>1, ReadSessionAssumption DEF IInv, TypeOK, response, documents
<1>3. Vetted'
  BY <1>1 DEF IInv, Vetted, response, vettedStages
<1>4. Counted'
  BY <1>1 DEF IInv, Counted, documents, response
<1>5. Printed'
  BY <1>1 DEF IInv, Printed, TypeOK
<1>6. Aged'
  BY DEF IInv, TypeOK, Aged, vettedStages
<1> QED
  BY <1>2, <1>3, <1>4, <1>5, <1>6 DEF IInv

(* ExchangeTakesTime preserves the invariant.                              *)
LEMMA ExchangeTakesTimeIInv == IInv /\ ExchangeTakesTime => IInv'
<1> SUFFICES ASSUME IInv, ExchangeTakesTime PROVE IInv'
  OBVIOUS
<1> USE DEF ExchangeTakesTime
<1>1. TypeOK'
  BY DEF IInv, TypeOK, response, documents
<1>2. Vetted'
  BY DEF IInv, Vetted, response, vettedStages
<1>3. Counted'
  BY DEF IInv, Counted, documents, response
<1>4. Printed'
  BY DEF IInv, Printed, documents, response
<1>5. Aged'
  BY DEF IInv, TypeOK, Aged, vettedStages
<1> QED
  BY <1>1, <1>2, <1>3, <1>4, <1>5 DEF IInv

(* Accept preserves the invariant.                                         *)
LEMMA AcceptIInv == IInv /\ Accept => IInv'
<1> SUFFICES ASSUME IInv, Accept PROVE IInv'
  OBVIOUS
<1> USE DEF Accept
<1>1. /\ received \in SessionData /\ received # Absent /\ received' = received
      /\ now \in Nat /\ exit = "running" /\ pdp \in {"off", "invalid", "on"}
      /\ permits = 0 /\ asked = <<>> /\ printed = <<>>
  BY DEF IInv, TypeOK, Vetted, Counted, Printed
<1>2. Len(documents) \in Nat /\ documents # <<>> /\ Len(documents) > 0
  <2>1. Len(documents) \in Nat /\ DOMAIN documents = 1..Len(documents)
    BY <1>1, DocumentsAreSequence
  <2>2. IsResponse(response)
    BY <1>1, ReadSessionAssumption DEF response
  <2>3. documents # <<>>
    BY <1>1, <2>2, ChecksSuffice DEF documents
  <2>4. documents \in Seq({documents[d] : d \in DOMAIN documents})
    BY <2>2 DEF IsResponse, documents
  <2> QED
    BY <2>1, <2>3, <2>4
<1>3. TypeOK'
  BY <1>1 DEF IInv, TypeOK, response, documents
<1>4. Vetted'
  BY <1>1, AbsentAssumption DEF IInv, Vetted, response, vettedStages
<1>5. Counted'
  BY <1>1, <1>2 DEF IInv, Counted, documents, response
<1>6. Printed'
  BY <1>1 DEF Printed
<1>7. Aged'
  BY <1>1, ReadSessionAssumption DEF Aged
<1> QED
  BY <1>3, <1>4, <1>5, <1>6, <1>7 DEF IInv

(* AskPdp preserves the invariant.                                         *)
LEMMA AskPdpIInv == IInv /\ AskPdp => IInv'
<1> SUFFICES ASSUME IInv, AskPdp PROVE IInv'
  OBVIOUS
<1> USE DEF AskPdp, NextDocument
<1>1. TypeOK'
  BY ReadSessionAssumption DEF IInv, TypeOK, response, documents
<1>2. Vetted'
  BY DEF IInv, Vetted, response, vettedStages
<1>3. Counted'
  <2>1. asked' = [i \in 1..Len(asked') |-> i] /\ Len(asked') = permits + 1
    BY DEF IInv, TypeOK, Counted
  <2> QED
    BY <2>1 DEF IInv, TypeOK, Counted, documents, response
<1>4. Printed'
  BY DEF IInv, TypeOK, Printed, documents, response
<1>5. Aged'
  BY DEF IInv, TypeOK, Aged, vettedStages
<1> QED
  BY <1>1, <1>2, <1>3, <1>4, <1>5 DEF IInv

(* PdpTakesTime preserves the invariant.                                   *)
LEMMA PdpTakesTimeIInv == IInv /\ PdpTakesTime => IInv'
<1> SUFFICES ASSUME IInv, PdpTakesTime PROVE IInv'
  OBVIOUS
<1> USE DEF PdpTakesTime, PdpStillWaiting
<1>1. TypeOK'
  BY ReadSessionAssumption DEF IInv, TypeOK, response, documents
<1>2. Vetted'
  BY DEF IInv, Vetted, response, vettedStages
<1>3. Counted'
  BY DEF IInv, Counted, documents, response
<1>4. Printed'
  BY DEF IInv, Printed, documents, response
<1>5. Aged'
  <2>1. checkedAt \in Nat
    BY DEF IInv, TypeOK, Vetted, vettedStages
  <2>2. now <= checkedAt + PdpTimeout * permits + waited
    BY DEF IInv, Aged, vettedStages
  <2>3. PdpTimeout * permits \in Nat /\ now \in Nat /\ waited \in Nat
    BY ReadSessionAssumption DEF IInv, TypeOK
  <2>4. now' = now + 1 /\ waited' = waited + 1
        /\ checkedAt' = checkedAt /\ PdpTimeout * permits' = PdpTimeout * permits
    OBVIOUS
  <2>5. now' <= checkedAt' + PdpTimeout * permits' + waited'
    BY <2>1, <2>2, <2>3, <2>4
  <2> QED
    BY <2>5 DEF Aged
<1> QED
  BY <1>1, <1>2, <1>3, <1>4, <1>5 DEF IInv

(* PdpPermits preserves the invariant.                                     *)
LEMMA PdpPermitsIInv == IInv /\ PdpPermits => IInv'
<1> SUFFICES ASSUME IInv, PdpPermits PROVE IInv'
  OBVIOUS
<1> USE DEF PdpPermits, AfterPermit
<1>1. /\ received \in SessionData /\ received' = received /\ checkedAt \in Nat
      /\ checkedAt # Absent /\ checkedAt' = checkedAt /\ permits \in Nat
  BY AbsentAssumption DEF IInv, TypeOK, Vetted, vettedStages
<1>2. Len(documents) \in Nat
  BY <1>1, DocumentsAreSequence
<1>3. TypeOK'
  BY DEF IInv, TypeOK, response, documents
<1>4. Vetted'
  BY <1>1 DEF IInv, Vetted, response, vettedStages
<1>5. Counted'
  <2>1. /\ pdp = "on" /\ Len(asked) = permits + 1 /\ permits < Len(documents)
        /\ asked = [i \in 1..Len(asked) |-> i] /\ asked' = asked /\ pdp' = pdp
    BY DEF IInv, Counted
  <2>2. printed' = <<>>
    BY DEF IInv, Printed, TypeOK
  <2>3. documents' = documents
    BY DEF documents, response
  <2>4. Len(asked') = permits' /\ permits' <= Len(documents)
    BY <1>1, <1>2, <2>1
  <2>5. pc' = IF permits' = Len(documents) THEN "render" ELSE "authorize"
    OBVIOUS
  <2>6. permits' \in Nat
    BY <1>1
  <2>7. asked' = [i \in 1..Len(asked') |-> i]
    BY <2>1
  <2>8. pc' \in {"render", "authorize"} /\ (pc' = "authorize" => permits' < Len(documents'))
        /\ (pc' = "render" => permits' = Len(documents'))
    BY <1>2, <2>3, <2>4, <2>5, <2>6
  <2> HIDE DEF PdpPermits, AfterPermit
  <2> QED
    BY <2>1, <2>2, <2>3, <2>4, <2>6, <2>7, <2>8 DEF Counted
<1>6. Printed'
  BY DEF IInv, Printed, TypeOK, documents, response
<1>7. Aged'
  <2>1. now <= checkedAt + PdpTimeout * permits + waited
    BY DEF IInv, Aged, vettedStages
  <2>2. PdpTimeout * (permits + 1) = PdpTimeout * permits + PdpTimeout
        /\ PdpTimeout * permits \in Nat
    BY <1>1, ReadSessionAssumption
  <2>3. now <= checkedAt + PdpTimeout * permits'
    BY <1>1, <2>1, <2>2, ReadSessionAssumption DEF IInv, TypeOK
  <2>4. now' = now /\ pc' # "pdp" /\ PdpTimeout * permits' \in Nat
    BY <1>1, ReadSessionAssumption
  <2> QED
    BY <1>1, <2>3, <2>4 DEF Aged
<1> QED
  BY <1>3, <1>4, <1>5, <1>6, <1>7 DEF IInv

(* Render preserves the invariant.                                         *)
LEMMA RenderIInv == IInv /\ Render => IInv'
<1> SUFFICES ASSUME IInv, Render PROVE IInv'
  OBVIOUS
<1> USE DEF Render
<1>1. TypeOK'
  BY DEF IInv, TypeOK, response, documents
<1>2. Vetted'
  BY DEF IInv, Vetted, response, vettedStages
<1>3. Counted'
  BY DEF IInv, Counted, documents, response
<1>4. Printed'
  BY DEF IInv, Printed, documents, response
<1>5. Aged'
  BY DEF IInv, Aged, vettedStages
<1> QED
  BY <1>1, <1>2, <1>3, <1>4, <1>5 DEF IInv

(* PrintClaims preserves the invariant.                                    *)
LEMMA PrintClaimsIInv == IInv /\ PrintClaims => IInv'
<1> SUFFICES ASSUME IInv, PrintClaims PROVE IInv'
  OBVIOUS
<1> USE DEF PrintClaims
<1>1. checkedAt # Absent /\ received \in SessionData /\ received # Absent
  BY ReadSessionAssumption DEF IInv, Vetted, vettedStages
<1>2. TypeOK'
  BY <1>1 DEF IInv, TypeOK, response, documents
<1>3. Vetted'
  BY <1>1 DEF IInv, Vetted, response, vettedStages
<1>4. Counted'
  BY DEF IInv, Counted, documents, response
<1>5. Printed'
  BY <1>1 DEF Printed, documents, response
<1>6. Aged'
  BY DEF IInv, Aged, vettedStages
<1> QED
  BY <1>2, <1>3, <1>4, <1>5, <1>6 DEF IInv

(* A step that changes nothing preserves the invariant.                    *)
LEMMA StutterIInv == IInv /\ UNCHANGED vars => IInv'
BY DEF IInv, vars, TypeOK, Vetted, Counted, Printed, Aged, response, documents, vettedStages

(* Every step preserves the invariant.                                     *)
LEMMA NextIInv == IInv /\ [Next]_vars => IInv'
<1> SUFFICES ASSUME IInv, [Next]_vars PROVE IInv'
  OBVIOUS
<1>1. CASE \E how \in {"reported", "traceback"} : pc # "done" /\ Stop(how)
  BY <1>1, StopIInv
<1>2. CASE ExchangeReturns
  BY <1>2, ExchangeReturnsIInv
<1>3. CASE ExchangeTakesTime
  BY <1>3, ExchangeTakesTimeIInv
<1>4. CASE Accept
  BY <1>4, AcceptIInv
<1>5. CASE AskPdp
  BY <1>5, AskPdpIInv
<1>6. CASE PdpTakesTime
  BY <1>6, PdpTakesTimeIInv
<1>7. CASE PdpPermits
  BY <1>7, PdpPermitsIInv
<1>8. CASE Render
  BY <1>8, RenderIInv
<1>9. CASE PrintClaims
  BY <1>9, PrintClaimsIInv
<1>10. CASE UNCHANGED vars
  BY <1>10, StutterIInv
<1>11. CASE \/ ExchangeFails \/ RejectSessionData \/ RejectMalformed \/ RejectInvalid
            \/ RefusePdpSettings \/ PdpDoesNotPermit \/ RenderFails \/ Interrupt
  BY <1>11, <1>1 DEF ExchangeFails, RejectSessionData, RejectMalformed, RejectInvalid,
                     RefusePdpSettings, PdpDoesNotPermit, RenderFails, Interrupt
<1> QED
  BY <1>2, <1>3, <1>4, <1>5, <1>6, <1>7, <1>8, <1>9, <1>10, <1>11 DEF Next, Progress, Check
-----------------------------------------------------------------------------
(* The invariant holds in every run of read (cli.py:212-291).              *)
THEOREM Inductive == Spec => []IInv
<1> QED
  BY InitIInv, NextIInv, PTL DEF Spec

(* The variables keep their types, and an exit status is given exactly     *)
(* when the program is over.                                               *)
THEOREM TypeCorrect == Spec => []TypeOK
<1>1. IInv => TypeOK
  BY DEF IInv
<1> QED
  BY <1>1, Inductive, PTL

(* What is printed, or shown to a PDP, has passed every check and is       *)
(* genuine: no claim leaves unverified, whatever the mdoc sends            *)
(* (cli.py:247-291).                                                       *)
THEOREM GateHolds == Spec => []NothingUnverifiedLeaves
<1>1. IInv => NothingUnverifiedLeaves
  BY AcceptedIsGenuine DEF IInv, Vetted, NothingUnverifiedLeaves
<1> QED
  BY <1>1, Inductive, PTL

(* The PDP is asked once for each document, in order, and its permits are  *)
(* complete before anything is printed (trust.py:228-231).                 *)
THEOREM PermitsComplete == Spec => []PermittedOneByOne
<1>1. IInv => PermittedOneByOne
  BY DEF IInv, Counted, PermittedOneByOne
<1> QED
  BY <1>1, Inductive, PTL

(* Output is all documents of an accepted response or nothing              *)
(* (cli.py:276-291).                                                       *)
THEOREM OutputWhole == Spec => []AllOrNothing
<1>1. IInv => AllOrNothing
  BY AcceptedIsGenuine DEF IInv, Printed, AllOrNothing
<1> QED
  BY <1>1, Inductive, PTL

(* A printed document expired less than one PDP timeout per document ago   *)
(* (mdoc.py:454, trust.py:186).                                            *)
THEOREM StalenessBounded == Spec => []BoundedStaleness
<1>1. IInv => BoundedStaleness
  <2> SUFFICES ASSUME IInv, printed # <<>>, NEW d \in DOMAIN documents
               PROVE  now < Mso(documents[d]).validUntil + PdpTimeout * Len(documents)
    BY DEF BoundedStaleness
  <2>1. exit = "ok" /\ pc = "done" /\ checkedAt # Absent /\ checkedAt \in Nat /\ now \in Nat
    BY DEF IInv, Printed, TypeOK
  <2>2. received \in SessionData
    BY <2>1 DEF IInv, Vetted
  <2>3. Len(documents) \in Nat /\ permits \in Nat /\ permits <= Len(documents) /\ PdpTimeout \in Nat
    BY <2>1, <2>2, DocumentsAreSequence, ReadSessionAssumption DEF IInv, TypeOK, Counted
  <2>4. PdpTimeout * permits <= PdpTimeout * Len(documents)
        /\ PdpTimeout * permits \in Nat /\ PdpTimeout * Len(documents) \in Nat
    BY <2>3
  <2>5. now <= checkedAt + PdpTimeout * permits
    BY <2>1, <2>4 DEF IInv, Aged
  <2>6. InForce(documents[d], checkedAt) /\ Mso(documents[d]).validUntil \in Int
    <3>1. IsResponse(response) /\ checkedAt \in Int
      BY <2>1, <2>2, ReadSessionAssumption DEF response
    <3>2. d \in DOMAIN response.documents
      BY DEF documents
    <3>3. DocumentErrors(response.documents[d], Requests, Session, checkedAt) = {}
      BY <2>1, <3>2 DEF IInv, Vetted, Validates
    <3> QED
      BY <3>1, <3>2, <3>3, ChecksImplyInForce DEF documents
  <2> QED
    BY <2>1, <2>4, <2>5, <2>6 DEF InForce
<1> QED
  BY <1>1, Inductive, PTL

(* Once the PDP has not permitted a document, it is not asked again        *)
(* (trust.py:230-231).                                                     *)
THEOREM RefusalIsFinal == Spec => NoAskingAfterRefusal
<1> DEFINE A == asked' # asked => permits = Len(asked) /\ exit = "running"
<1>1. IInv /\ [Next]_vars => [A]_vars
  <2> SUFFICES ASSUME IInv, Next PROVE A
    OBVIOUS
  <2>1. CASE AskPdp
    BY <2>1 DEF AskPdp, IInv, Counted, TypeOK
  <2>2. CASE ~AskPdp
    BY <2>2 DEF Next, Progress, Check, ExchangeFails, ExchangeReturns, ExchangeTakesTime,
                RejectSessionData, RejectMalformed, RejectInvalid, Accept, RefusePdpSettings,
                PdpTakesTime, PdpPermits, PdpDoesNotPermit, Render, RenderFails, PrintClaims,
                Interrupt, Stop
  <2> QED
    BY <2>1, <2>2
<1> QED
  BY <1>1, Inductive, PTL DEF Spec, NoAskingAfterRefusal
-----------------------------------------------------------------------------
(* A step that ends the program without output refuses, for the gate.      *)
LEMMA StopRefuses ==
    ASSUME pc # "done", NEW how, Stop(how)
    PROVE  Gate!Refuse
BY DEF Stop, Gate!Refuse, documents, response

(* Whatever `read` does about claims, the gate allows: every step from the *)
(* exchange to the output is a step of DisclosureGate or none of its       *)
(* business (cli.py:212-291, trust.py:224-231).                            *)
THEOREM DisclosesThroughGate == Spec => Gate!Init /\ [][Gate!Next]_(Gate!vars)
<1>1. Init => Gate!Init
  BY DEF Init, Gate!Init
<1>2. IInv /\ [Next]_vars => [Gate!Next]_(Gate!vars)
  <2> SUFFICES ASSUME IInv, [Next]_vars PROVE [Gate!Next]_(Gate!vars)
    OBVIOUS
  <2>1. CASE \E how \in {"reported", "traceback"} : pc # "done" /\ Stop(how)
    BY <2>1, StopRefuses DEF Gate!Next
  <2>2. CASE Accept
    <3>1. checkedAt = Absent /\ received \in SessionData
      BY <2>2, ReadSessionAssumption DEF Accept, IInv, TypeOK, Vetted
    <3>2. documents # <<>>
      <4>1. IsResponse(response)
        BY <3>1, ReadSessionAssumption DEF response
      <4>2. now \in Int /\ Parses(response) /\ Validates(response, Requests, Session, now)
        BY <2>2 DEF Accept, IInv, TypeOK
      <4> QED
        BY <4>1, <4>2, ChecksSuffice DEF documents
    <3>3. checkedAt' # Absent /\ documents' = documents
      BY <2>2, AbsentAssumption DEF Accept, IInv, TypeOK, documents, response
    <3> QED
      BY <2>2, <3>1, <3>2, <3>3 DEF Accept, Gate!Next, Gate!Vet
  <2>3. CASE PdpPermits
    <3>1. checkedAt # Absent /\ pdp = "on" /\ permits < Len(documents)
      BY <2>3 DEF PdpPermits, IInv, Vetted, Counted, vettedStages
    <3>2. documents' = documents /\ pc' # "done"
      BY <2>3 DEF PdpPermits, AfterPermit, documents, response
    <3> QED
      BY <2>3, <3>1, <3>2 DEF PdpPermits, Gate!Next, Gate!Permit
  <2>4. CASE PrintClaims
    <3>1. checkedAt # Absent /\ documents # <<>>
      BY <2>4, AcceptedIsGenuine DEF PrintClaims, IInv, Vetted, vettedStages, Accepted
    <3>2. pdp # "off" => permits = Len(documents)
      BY <2>4 DEF PrintClaims, IInv, Counted
    <3>3. documents' = documents
      BY <2>4 DEF PrintClaims, documents, response
    <3> QED
      BY <2>4, <3>1, <3>2, <3>3 DEF PrintClaims, Gate!Next, Gate!Release
  <2>5. CASE ExchangeReturns
    BY <2>5 DEF ExchangeReturns, IInv, Vetted, Gate!vars
  <2>6. CASE ExchangeTakesTime \/ AskPdp \/ PdpTakesTime \/ Render \/ UNCHANGED vars
    BY <2>6 DEF ExchangeTakesTime, AskPdp, PdpTakesTime, PdpStillWaiting, Render, vars,
                IInv, TypeOK, documents, response, Gate!vars
  <2>7. CASE \/ ExchangeFails \/ RejectSessionData \/ RejectMalformed \/ RejectInvalid
             \/ RefusePdpSettings \/ PdpDoesNotPermit \/ RenderFails \/ Interrupt
    BY <2>7, <2>1 DEF ExchangeFails, RejectSessionData, RejectMalformed, RejectInvalid,
                      RefusePdpSettings, PdpDoesNotPermit, RenderFails, Interrupt
  <2> QED
    BY <2>2, <2>3, <2>4, <2>5, <2>6, <2>7 DEF Next, Progress, Check
<1> QED
  BY <1>1, <1>2, Inductive, PTL DEF Spec
-----------------------------------------------------------------------------
(* The message scenarios of `fuzz`, a program of its own with a part of    *)
(* the variables of `read`.                                                *)
CONSTANT AnswerTime

Fuzz == INSTANCE FuzzSession WITH Now <- AnswerTime

FuzzInv ==
    /\ pc \in {"exchange", "answer", "print", "done"}
    /\ pc # "done" => exit = "running" /\ printed = <<>>
    /\ pc = "print" => received.kind = "response" /\ Fuzz!Parses(received.response)
    /\ Fuzz!FuzzAllOrNothing

(* Claims are printed of a whole response that parsed or not at all, and 0 *)
(* means that the mdoc has answered, whatever it answers (cli.py:342-367). *)
THEOREM FuzzPrintsAllOrNothing == Fuzz!Spec => [](Fuzz!FuzzAllOrNothing)
<1>1. Fuzz!Init => FuzzInv
  BY DEF Fuzz!Init, FuzzInv, Fuzz!FuzzAllOrNothing
<1>2. ASSUME FuzzInv, [Fuzz!Next]_(Fuzz!vars) PROVE FuzzInv'
  <2> USE DEF FuzzInv, Fuzz!FuzzAllOrNothing
  <2>1. CASE Fuzz!ExchangeFails
    BY <1>2, <2>1 DEF Fuzz!ExchangeFails, Fuzz!Stop
  <2>2. CASE Fuzz!ExchangeReturns
    BY <1>2, <2>2 DEF Fuzz!ExchangeReturns
  <2>3. CASE Fuzz!Declined
    BY <1>2, <2>3 DEF Fuzz!Declined, Fuzz!Stop
  <2>4. CASE Fuzz!NotRead
    BY <1>2, <2>4 DEF Fuzz!NotRead, Fuzz!Stop
  <2>5. CASE Fuzz!Read
    BY <1>2, <2>5 DEF Fuzz!Read
  <2>6. CASE Fuzz!RenderFails
    BY <1>2, <2>6 DEF Fuzz!RenderFails, Fuzz!Stop
  <2>7. CASE Fuzz!PrintClaims
    BY <1>2, <2>7 DEF Fuzz!PrintClaims
  <2>8. CASE UNCHANGED Fuzz!vars
    BY <1>2, <2>8 DEF Fuzz!vars
  <2> QED
    BY <1>2, <2>1, <2>2, <2>3, <2>4, <2>5, <2>6, <2>7, <2>8 DEF Fuzz!Next
<1>3. FuzzInv => Fuzz!FuzzAllOrNothing
  BY DEF FuzzInv
<1> QED
  BY <1>1, <1>2, <1>3, PTL DEF Fuzz!Spec
=============================================================================
