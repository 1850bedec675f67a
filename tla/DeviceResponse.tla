--------------------------- MODULE DeviceResponse ---------------------------
(***************************************************************************)
(* From a decrypted DeviceResponse to the list of reasons not to disclose  *)
(* it: mdoc.parse_device_response, mdoc.verify_device_auth and             *)
(* mdoc.validate_device_response, with the COSE checks of verify.py.       *)
(* There is no state here; ReadSession runs these in run_read.             *)
(*                                                                         *)
(* A document as it comes from the wire is a record                        *)
(*   docType           a document type                                     *)
(*   wellShaped        no type, tag or length check of the parser that is  *)
(*                     not named below fails                               *)
(*   issuerAuth        Absent, or the COSE_Sign1 with fields               *)
(*     chain             the keys of the certificates of x5chain, in order *)
(*     alg, by, over     COSE algorithm; the key that signed, and what     *)
(*     mso               the payload: Absent, or the MSO with fields       *)
(*       version, docType, digestAlgorithm, deviceKey (or Absent),         *)
(*       valueDigests      namespace -> digestID -> digest                 *)
(*       signed, validFrom, validUntil   times, Absent when not a time     *)
(*   nameSpaces        namespace -> sequence of IssuerSignedItem           *)
(*                     [digestID, identifier, value]                       *)
(*   deviceNameSpaces  the device-signed claims                            *)
(*   deviceAuth        kind -> [detached, alg, by, over], the map as sent  *)
(*   errorsOk          its `errors` pass _valid_element_errors             *)
(* and a response is [version, status, documents, documentErrorsOk].       *)
(*                                                                         *)
(* Cryptography is ideal: a signature or MAC names the key it was made     *)
(* with and what it covers, and an item stands for its own digest.         *)
(* Three-valued results (True, False, None for "not attempted") are TRUE,  *)
(* FALSE and Absent.                                                       *)
(***************************************************************************)
EXTENDS Integers, Sequences

CONSTANTS EcKeys, EdKeys,  \* the keys the COSE code can verify with, by kind
          Absent           \* None

ASSUME AbsentAssumption == Absent \notin BOOLEAN /\ Absent \notin Int

EcAlgs     == {"ES256", "ES384", "ES512"}
DigestAlgs == {"SHA-256", "SHA-384", "SHA-512"}
-----------------------------------------------------------------------------
(* verify.py.                                                              *)

(* verify_cose_sign1, UnsupportedAlgorithm being caught by both callers.   *)
VerifySign1(structure, key, payload) ==
    IF \/ key \in EcKeys /\ structure.alg \in EcAlgs
       \/ key \in EdKeys /\ structure.alg = "EdDSA"
    THEN structure.by = <<key>> /\ structure.over = payload
    ELSE Absent

(* verify_cose_mac0 under the EMacKey of this device key and this session. *)
VerifyMac0(structure, key, session, payload) ==
    IF structure.alg = "HMAC 256/256"
    THEN structure.by = <<key, session>> /\ structure.over = payload
    ELSE Absent

VerifyDigest(mso, ns, item) ==
    IF mso.digestAlgorithm \in DigestAlgs
    THEN mso.valueDigests[ns][item.digestID] = item
    ELSE Absent
-----------------------------------------------------------------------------
(* parse_device_response.                                                  *)

IssuerSignatureValid(issuerAuth) ==
    IF issuerAuth.chain = <<>>
    THEN Absent
    ELSE VerifySign1(issuerAuth, issuerAuth.chain[1], issuerAuth.mso)

Mso(doc) == IF doc.issuerAuth = Absent THEN Absent ELSE doc.issuerAuth.mso

(* What the wire can carry, as far as the checks count on it: documents in *)
(* an array, and times that are times or are taken as absent.              *)
IsResponse(response) ==
    /\ response.documents \in Seq({response.documents[d] : d \in DOMAIN response.documents})
    /\ \A d \in DOMAIN response.documents :
          LET mso == Mso(response.documents[d]) IN
          mso # Absent => {mso.signed, mso.validFrom, mso.validUntil} \subseteq Int \cup {Absent}

NoRepeatsById(items) ==
    \A i, j \in DOMAIN items : i # j => items[i].digestID # items[j].digestID

NoRepeats(items) ==
    \A i, j \in DOMAIN items :
        i # j => /\ items[i].digestID # items[j].digestID
                 /\ items[i].identifier # items[j].identifier

(* _parse_issuer_signed_namespaces does not raise.  It wants an MSO even   *)
(* when no namespace is disclosed.                                         *)
NameSpacesParse(doc) ==
    /\ Mso(doc) # Absent
    /\ \A ns \in DOMAIN doc.nameSpaces :
        /\ ns \in DOMAIN Mso(doc).valueDigests
        /\ NoRepeats(doc.nameSpaces[ns])
        /\ \A i \in DOMAIN doc.nameSpaces[ns] :
              doc.nameSpaces[ns][i].digestID \in DOMAIN Mso(doc).valueDigests[ns]

Parses(response) ==
    \A d \in DOMAIN response.documents :
        response.documents[d].wellShaped /\ NameSpacesParse(response.documents[d])
-----------------------------------------------------------------------------
(* verify_device_auth.                                                     *)

DeviceAuthentication(doc, session) == <<session, doc.docType, doc.deviceNameSpaces>>

DeviceAuthValid(doc, session) ==
    IF \/ ~ \E k \in DOMAIN doc.deviceAuth : DOMAIN doc.deviceAuth = {k}
       \/ Mso(doc) = Absent
    THEN Absent
    ELSE LET key  == Mso(doc).deviceKey
             kind == CHOOSE k \in DOMAIN doc.deviceAuth : TRUE
             auth == doc.deviceAuth[kind]
         IN  IF key \notin EcKeys \/ ~auth.detached
             THEN Absent
             ELSE IF kind = "deviceSignature"
             THEN VerifySign1(auth, key, DeviceAuthentication(doc, session))
             ELSE IF kind = "deviceMac"
             THEN VerifyMac0(auth, key, session, DeviceAuthentication(doc, session))
             ELSE Absent
-----------------------------------------------------------------------------
(* validate_device_response.  A request is [docType, namespaces], the      *)
(* latter mapping a namespace to the identifiers wanted of it.             *)

Matching(doc, requests) == {r \in requests : r.docType = doc.docType}

Identifiers(doc, ns) == {doc.nameSpaces[ns][i].identifier : i \in DOMAIN doc.nameSpaces[ns]}

LacksSomethingRequested(doc, requests) ==
    \E r \in Matching(doc, requests) : \E ns \in DOMAIN r.namespaces :
        \/ ns \notin DOMAIN doc.nameSpaces
        \/ ~ r.namespaces[ns] \subseteq Identifiers(doc, ns)

DigestNotValid(doc) ==
    \E ns \in DOMAIN doc.nameSpaces : \E i \in DOMAIN doc.nameSpaces[ns] :
        VerifyDigest(Mso(doc), ns, doc.nameSpaces[ns][i]) # TRUE

HasTimes(mso) == mso.signed # Absent /\ mso.validFrom # Absent /\ mso.validUntil # Absent

(* The reasons against one document.                                       *)
DocumentErrors(doc, requests, session, now) ==
    {e \in {"doc_type_not_requested", "issuer_auth_missing", "issuer_signature_not_valid",
            "mso_missing", "mso_version", "doc_type_mismatch", "validity_info",
            "signed_in_future", "not_yet_valid", "expired", "element_digest_not_valid",
            "device_auth_not_valid", "device_namespaces_unsupported", "invalid_errors",
            "requested_missing"} :
        \/ e = "doc_type_not_requested" /\ Matching(doc, requests) = {}
        \/ e = "issuer_auth_missing" /\ doc.issuerAuth = Absent
        \/ e = "issuer_signature_not_valid" /\ doc.issuerAuth # Absent
                                            /\ IssuerSignatureValid(doc.issuerAuth) # TRUE
        \/ e = "mso_missing" /\ Mso(doc) = Absent
        \/ /\ Mso(doc) # Absent
           /\ \/ e = "mso_version" /\ Mso(doc).version # "1.0"
              \/ e = "doc_type_mismatch" /\ Mso(doc).docType # doc.docType
              \/ e = "validity_info" /\ ~HasTimes(Mso(doc))
              \/ /\ HasTimes(Mso(doc))
                 /\ \/ e = "signed_in_future" /\ now < Mso(doc).signed
                    \/ e = "not_yet_valid" /\ now < Mso(doc).validFrom
                    \/ e = "expired" /\ now >= Mso(doc).validUntil
        \/ e = "element_digest_not_valid" /\ DigestNotValid(doc)
        \/ e = "device_auth_not_valid" /\ DeviceAuthValid(doc, session) # TRUE
        \/ e = "device_namespaces_unsupported" /\ doc.deviceNameSpaces # {}
        \/ e = "invalid_errors" /\ ~doc.errorsOk
        \/ e = "requested_missing" /\ LacksSomethingRequested(doc, requests)}

DocTypes(response) == {response.documents[d].docType : d \in DOMAIN response.documents}

(* The reasons against the response as a whole.                            *)
ResponseErrors(response, requests) ==
    {e \in {"unsupported_version", "response_status_not_ok", "document_count",
            "invalid_document_errors", "requested_doc_type_missing"} :
        \/ e = "unsupported_version" /\ response.version # "1.0"
        \/ e = "response_status_not_ok" /\ response.status # 0
        \/ e = "document_count" /\ response.documents = <<>>
        \/ e = "invalid_document_errors" /\ ~response.documentErrorsOk
        \/ e = "requested_doc_type_missing" /\ \E r \in requests : r.docType \notin DocTypes(response)}

Validates(response, requests, session, now) ==
    /\ ResponseErrors(response, requests) = {}
    /\ \A d \in DOMAIN response.documents :
          DocumentErrors(response.documents[d], requests, session, now) = {}
-----------------------------------------------------------------------------
(* What a disclosure is good for, said of the response itself and without  *)
(* the checks above.                                                       *)

(* The issuer whose certificate leads the chain has signed, for this       *)
(* document type, a list in which every disclosed claim appears as it was  *)
(* disclosed, and no claim is disclosed twice.                             *)
IssuerAttests(doc) ==
    LET mso == doc.issuerAuth.mso IN
    /\ doc.issuerAuth # Absent /\ mso # Absent
    /\ doc.issuerAuth.chain # <<>>
    /\ doc.issuerAuth.by = <<doc.issuerAuth.chain[1]>> /\ doc.issuerAuth.over = mso
    /\ mso.docType = doc.docType
    /\ \A ns \in DOMAIN doc.nameSpaces :
        /\ \A i \in DOMAIN doc.nameSpaces[ns] :
              \E id \in DOMAIN mso.valueDigests[ns] : mso.valueDigests[ns][id] = doc.nameSpaces[ns][i]
        /\ \A i, j \in DOMAIN doc.nameSpaces[ns] :
              doc.nameSpaces[ns][i].identifier = doc.nameSpaces[ns][j].identifier => i = j

(* The device that holds the key the issuer bound to the document made its *)
(* one authentication for this document in this session, and it claims     *)
(* nothing on its own account.                                             *)
DevicePresents(doc, session) ==
    \E kind \in {"deviceSignature", "deviceMac"} :
        /\ DOMAIN doc.deviceAuth = {kind}
        /\ doc.deviceAuth[kind].by[1] = Mso(doc).deviceKey
        /\ doc.deviceAuth[kind].over = <<session, doc.docType, {}>>

InForce(doc, now) ==
    Mso(doc).signed <= now /\ Mso(doc).validFrom <= now /\ now < Mso(doc).validUntil

(* Nothing but what was asked for, and all of it.                          *)
Answers(response, requests) ==
    /\ \A d \in DOMAIN response.documents : \E r \in requests : r.docType = response.documents[d].docType
    /\ \A r \in requests :
        /\ \E d \in DOMAIN response.documents : response.documents[d].docType = r.docType
        /\ \A d \in DOMAIN response.documents : response.documents[d].docType = r.docType =>
              \A ns \in DOMAIN r.namespaces : \A wanted \in r.namespaces[ns] :
                  ns \in DOMAIN response.documents[d].nameSpaces
                  /\ \E i \in DOMAIN response.documents[d].nameSpaces[ns] :
                        response.documents[d].nameSpaces[ns][i].identifier = wanted

Genuine(response, requests, session, now) ==
    /\ Answers(response, requests)
    /\ \A d \in DOMAIN response.documents :
          LET doc == response.documents[d] IN
          IssuerAttests(doc) /\ DevicePresents(doc, session) /\ InForce(doc, now)
=============================================================================
