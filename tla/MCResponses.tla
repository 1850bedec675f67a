---------------------------- MODULE MCResponses ----------------------------
(* What an mdoc may answer to a request of two document types: a genuine   *)
(* pair of documents, or a pair in which one thing is wrong, at every      *)
(* place the code looks at.                                                *)
EXTENDS DeviceResponse

Item(id, name, value) == [digestID |-> id, identifier |-> name, value |-> value]

MCSession  == "this session"
MCEcKeys   == {"issuer", "phone", "thief"}
MCEdKeys   == {"edIssuer"}

MdlMso == [version |-> "1.0", docType |-> "mdl", digestAlgorithm |-> "SHA-256", deviceKey |-> "phone",
           valueDigests |-> [ns \in {"iso"} |->
               [id \in 0..2 |-> CASE id = 0 -> Item(0, "name", "Ada")
                                  [] id = 1 -> Item(1, "age", "30")
                                  [] id = 2 -> Item(2, "name", "Eve")]],
           signed |-> 0, validFrom |-> 0, validUntil |-> 2]

Signed(mso) == [chain |-> <<"issuer", "thief">>, alg |-> "ES256", by |-> <<"issuer">>, over |-> mso, mso |-> mso]

DeviceSigned(docType, claims) ==
    [kind \in {"deviceSignature"} |->
        [detached |-> TRUE, alg |-> "ES256", by |-> <<"phone">>, over |-> <<MCSession, docType, claims>>]]

Mdl == [docType |-> "mdl", wellShaped |-> TRUE, issuerAuth |-> Signed(MdlMso),
        nameSpaces |-> [ns \in {"iso"} |-> <<Item(0, "name", "Ada"), Item(1, "age", "30")>>],
        deviceNameSpaces |-> {}, deviceAuth |-> DeviceSigned("mdl", {}), errorsOk |-> TRUE]

Pid == [Mdl EXCEPT !.docType = "pid", !.deviceAuth = DeviceSigned("pid", {}),
                   !.issuerAuth = Signed([MdlMso EXCEPT !.docType = "pid", !.validUntil = 3])]

Other == [Mdl EXCEPT !.docType = "other", !.deviceAuth = DeviceSigned("other", {}),
                     !.issuerAuth = Signed([MdlMso EXCEPT !.docType = "other"])]

MCRequests == {[docType |-> "mdl", namespaces |-> [ns \in {"iso"} |-> {"name", "age"}]],
               [docType |-> "pid", namespaces |-> [ns \in {"iso"} |-> {"name"}]]}

(* MSOs an issuer signs, or somebody alters, that are not good for Mdl.    *)
OddMsos ==
    {[MdlMso EXCEPT !.version = "2.0"], [MdlMso EXCEPT !.docType = "pid"],
     [MdlMso EXCEPT !.digestAlgorithm = "MD5"], [MdlMso EXCEPT !.digestAlgorithm = Absent],
     [MdlMso EXCEPT !.deviceKey = Absent], [MdlMso EXCEPT !.deviceKey = "thief"],
     [MdlMso EXCEPT !.valueDigests = [ns \in {"iso"} |-> [id \in {0} |-> Item(0, "name", "Ada")]]],
     [MdlMso EXCEPT !.valueDigests = [ns \in {"eu"} |-> MdlMso.valueDigests["iso"]]],
     [MdlMso EXCEPT !.signed = Absent], [MdlMso EXCEPT !.validUntil = Absent],
     [MdlMso EXCEPT !.signed = 1], [MdlMso EXCEPT !.validFrom = 2],
     [MdlMso EXCEPT !.validUntil = 1], [MdlMso EXCEPT !.validUntil = 5], Absent}

OddIssuerAuths ==
    {Signed(m) : m \in OddMsos}
    \cup {[Signed(MdlMso) EXCEPT !.mso = m] : m \in OddMsos}
    \cup {[Signed(MdlMso) EXCEPT !.chain = <<>>], [Signed(MdlMso) EXCEPT !.chain = <<"thief", "issuer">>],
          [Signed(MdlMso) EXCEPT !.chain = <<"rsa">>], [Signed(MdlMso) EXCEPT !.alg = "none"],
          [Signed(MdlMso) EXCEPT !.by = <<"thief">>],
          [Signed(MdlMso) EXCEPT !.chain = <<"edIssuer">>, !.by = <<"edIssuer">>, !.alg = "EdDSA"], Absent}

OddItems ==
    {<<Item(0, "name", "Eve"), Item(1, "age", "30")>>, <<Item(0, "name", "Ada")>>,
     <<Item(0, "name", "Ada"), Item(1, "age", "30"), Item(2, "name", "Eve")>>,
     <<Item(0, "name", "Ada"), Item(1, "age", "30"), Item(0, "name", "Ada")>>,
     <<Item(0, "name", "Ada"), Item(7, "age", "30")>>, <<>>}

OddDeviceAuths ==
    LET signature == Mdl.deviceAuth["deviceSignature"]
        mac == [detached |-> TRUE, alg |-> "HMAC 256/256", by |-> <<"phone", MCSession>>,
                over |-> <<MCSession, "mdl", {}>>]
        sign(s) == [kind \in {"deviceSignature"} |-> s]
    IN  {sign([signature EXCEPT !.over = <<"a session before", "mdl", {}>>]),
         sign([signature EXCEPT !.over = <<MCSession, "pid", {}>>]),
         sign([signature EXCEPT !.by = <<"thief">>]), sign([signature EXCEPT !.alg = "none"]),
         sign([signature EXCEPT !.detached = FALSE]), sign(mac),
         [kind \in {"deviceMac"} |-> mac],
         [kind \in {"deviceMac"} |-> [mac EXCEPT !.by = <<"phone", "a session before">>]],
         [kind \in {"somethingElse"} |-> signature],
         [kind \in {"deviceSignature", "deviceMac"} |-> IF kind = "deviceMac" THEN mac ELSE signature],
         [kind \in {} |-> signature]}

OddDocuments ==
    {[Mdl EXCEPT !.wellShaped = FALSE], [Mdl EXCEPT !.errorsOk = FALSE], Other,
     [Mdl EXCEPT !.deviceNameSpaces = {"claim"}, !.deviceAuth = DeviceSigned("mdl", {"claim"})],
     [Mdl EXCEPT !.nameSpaces = [ns \in {} |-> <<>>]],
     [Mdl EXCEPT !.nameSpaces = [ns \in {"iso", "eu"} |-> Mdl.nameSpaces["iso"]]]}
    \cup {[Mdl EXCEPT !.issuerAuth = a] : a \in OddIssuerAuths}
    \cup {[Mdl EXCEPT !.nameSpaces["iso"] = s] : s \in OddItems}
    \cup {[Mdl EXCEPT !.deviceAuth = a] : a \in OddDeviceAuths}

Good == [version |-> "1.0", status |-> 0, documents |-> <<Mdl, Pid>>, documentErrorsOk |-> TRUE]

MCResponses ==
    {Good, [Good EXCEPT !.version = "2.0"], [Good EXCEPT !.status = 10], [Good EXCEPT !.documentErrorsOk = FALSE],
     [Good EXCEPT !.documents = <<>>], [Good EXCEPT !.documents = <<Mdl>>],
     [Good EXCEPT !.documents = <<Mdl, Pid, Other>>], [Good EXCEPT !.documents = <<Pid, Mdl, Mdl>>]}
    \cup {[Good EXCEPT !.documents = <<d, Pid>>] : d \in OddDocuments}
    \cup {[Good EXCEPT !.documents = <<Pid, Mdl, d>>] : d \in OddDocuments}

MCSessionData ==
    {[kind |-> k, response |-> Good] : k \in {"not_cbor", "no_data", "undecryptable", "not_response"}}
    \cup {[kind |-> "response", response |-> r] : r \in MCResponses}
=============================================================================
