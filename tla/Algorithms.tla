----------------------------- MODULE Algorithms -----------------------------
(***************************************************************************)
(* What the traversal of DER data accepts, what the folds over names and   *)
(* options compute and what JSON shows, of an input that is given: the     *)
(* identifier of an issuer, the request that is sent and what is printed.  *)
(***************************************************************************)
EXTENDS IssuerId, DocRequests, JsonRender

CONSTANT MaxData  \* the most bytes of DER data

ASSUME AlgorithmsAssumption == MaxData \in Nat

VARIABLE input  \* [algorithm, value]

WellFormed == [n \in 0..MaxData |-> Encodings[n].item]

(* The traversal accepts exactly one item that fills the data, in which    *)
(* every length is the shortest there is, every tag is a single byte and   *)
(* constructed contents are whole items, to the byte (trust.py:49-86).     *)
DerIsExact ==
    input.algorithm = "der" => (IsDer(input.value) <=> input.value \in WellFormed[Len(input.value)])

(* The first extension that tells anything decides.  In it a URL is taken  *)
(* over any host, wherever it stands, but nothing after a name that cannot *)
(* be read, and no host if there is such a name at all; an http URL, its   *)
(* https twin and the bare host are the same issuer (trust.py:98-124).     *)
IssuerIsChosen ==
    input.algorithm = "issuer" =>
        LET id(ok)  == MdocIssuerId([ok |-> ok, extensions |-> input.value])
            settled == {i \in DOMAIN input.value : Settles(input.value[i])}
            e       == input.value[CHOOSE i \in settled : IsFirst(i, settled)]
        IN  /\ id(FALSE) = Hash
            /\ IF settled = {} \/ ~e.ok THEN id(TRUE) = Hash
               ELSE IF \E u \in Urls(e) : \A n \in Unreadable(e) : u < n
               THEN \E u \in Urls(e) : IsFirst(u, Urls(e)) /\ id(TRUE) = Https(e.names[u].rest)
               ELSE IF Unreadable(e) # {} THEN id(TRUE) = Hash
               ELSE \E h \in Hosts(e) : IsFirst(h, Hosts(e)) /\ id(TRUE) = Https(e.names[h].rest)

(* However the --request options are split, repeated and interleaved: the  *)
(* request asks for every claim mentioned under its document type and      *)
(* namespace and for no other, in one item per type, in the order of first *)
(* mention (cli.py:34-51, mdoc.py:59-65).                                  *)
RequestIsMerged ==
    input.algorithm = "requests" =>
        LET specs    == input.value
            requests == BuildDeviceRequest(ParseRequests(specs))
            first(t) == SelectInSeq(specs, LAMBDA spec : spec.docType = t)
            asked(r) == UNION {{<<r.docType, ns, c>> : c \in r.namespaces[ns]} : ns \in DOMAIN r.namespaces}
        IN  (\A i \in DOMAIN specs : IsRequest(specs[i])) =>
                /\ \A i, j \in DOMAIN requests : i < j => first(requests[i].docType) < first(requests[j].docType)
                /\ UNION {asked(r) : r \in ToSet(requests)}
                    = UNION {{<<s.docType, s.namespace, c>> : c \in ToSet(s.claims)} : s \in ToSet(specs)}

(* No value is lost in JSON because two keys of a map have one name there, *)
(* at any depth (display.py:90-97).                                        *)
NothingHidden ==
    input.algorithm = "json" =>
        LET value == [kind |-> "map", entries |-> input.value]
        IN  JsonAtoms[ToJsonable[value]] = Atoms[value]
=============================================================================
