---------------------------- MODULE DocRequests ----------------------------
(***************************************************************************)
(* What is asked of the mdoc: cli.parse_requests merges the --request      *)
(* options, mdoc.build_device_request encodes the result.  An option is    *)
(* [fields, docType, namespace, claims]: how many of its three fields it   *)
(* has, and its claims without the empty ones.                             *)
(***************************************************************************)
EXTENDS Naturals, Sequences, SequencesExt

(* Otherwise a ValueError.                                                 *)
IsRequest(spec) == spec.fields = 3 /\ spec.claims # <<>>

(* setdefault(namespace, []).extend(claims)                                *)
Overwritten(namespaces, namespace, claims) ==
    [ns \in DOMAIN namespaces \cup {namespace} |-> IF ns = namespace THEN claims ELSE namespaces[ns]]
Extended(namespaces, namespace, claims) ==
    [ns \in DOMAIN namespaces \cup {namespace} |->
        (IF ns \in DOMAIN namespaces THEN namespaces[ns] ELSE <<>>)
            \o (IF ns = namespace THEN claims ELSE <<>>)]

AddSpec(requests, spec) ==
    LET known == {i \in DOMAIN requests : requests[i].docType = spec.docType}
    IN  IF known = {}
        THEN Append(requests, [docType |-> spec.docType,
                               namespaces |-> Extended(<<>>, spec.namespace, spec.claims)])
        ELSE [i \in DOMAIN requests |->
                 IF i \notin known THEN requests[i]
                 ELSE [requests[i] EXCEPT !.namespaces = Extended(@, spec.namespace, spec.claims)]]

ParseRequests(specs) == FoldLeft(AddSpec, <<>>, specs)

(* The claims of a namespace become the keys of a map.                     *)
BuildDeviceRequest(requests) ==
    [i \in DOMAIN requests |->
        [docType |-> requests[i].docType,
         namespaces |-> [ns \in DOMAIN requests[i].namespaces |-> ToSet(requests[i].namespaces[ns])]]]
=============================================================================
