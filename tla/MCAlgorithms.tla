---------------------------- MODULE MCAlgorithms ----------------------------
(* The pure algorithms against what they should compute, on inputs grown   *)
(* element by element: DER data of up to MaxData bytes in a small base, up *)
(* to MaxNames names in certificates, MaxSpecs --request options, and maps *)
(* of MaxEntries entries.                                                  *)
EXTENDS Algorithms

CONSTANTS MaxNames, MaxSpecs, MaxEntries

Name(kind, ascii, prefix, rest) == [kind |-> kind, ascii |-> ascii, prefix |-> prefix, rest |-> rest]

Names == {Name("uri", TRUE, "http://", "a"), Name("uri", TRUE, "https://", "b"), Name("uri", TRUE, "", "urn:c"),
          Name("dns", TRUE, "", "d"), Name("dns", TRUE, "", "e"), Name("dns", TRUE, "*.", "f"),
          Name("uri", FALSE, "https://", "g"), Name("dns", FALSE, "", "h"), Name("other", FALSE, "", "i")}

Specs == {[fields |-> 3, docType |-> d, namespace |-> n, claims |-> c] :
              d \in {"mdl", "pid"}, n \in {"iso", "eu"}, c \in {<<"name">>, <<"age", "name">>}}
         \cup {[fields |-> 2, docType |-> "mdl", namespace |-> "iso", claims |-> <<>>],
               [fields |-> 3, docType |-> "mdl", namespace |-> "iso", claims |-> <<>>]}

Key(type, text) == [type |-> type, text |-> text]
Entry(key, value) == [key |-> key, value |-> value]
Atom(a) == [kind |-> "atom", atom |-> a]

Values(n) ==
    {Atom(n), [kind |-> "list", items |-> <<Atom(n), Atom(n + 10)>>],
     [kind |-> "map", entries |-> <<Entry(Key("int", "1"), Atom(n)), Entry(Key("str", "1"), Atom(n + 10))>>],
     [kind |-> "map", entries |-> <<Entry(Key("str", "1"), Atom(n)), Entry(Key("str", "2"), Atom(n + 10))>>]}

MCKeys == {Key("str", "1"), Key("int", "1"), Key("str", "2"), Key("bytes", "2"), Key("str", "3")}

(* The maps that may be grown of n entries, and what may be in them.       *)
Within == UNION {Values(n) : n \in 0..(MaxEntries - 1)}
Maps(n) ==
    {[kind |-> "map", entries |-> [i \in 1..n |-> Entry(keys[i], values[i])]] :
        keys   \in {k \in [1..n -> MCKeys] : IsInjective(k)},
        values \in {v \in [1..n -> Within] : \A i \in 1..n : v[i] \in Values(i - 1)}}

Atomic == {Atom(a) : a \in 0..(MaxEntries + 9)}
Nested == UNION {Maps(n) : n \in 0..MaxEntries}

MCDepth == [value \in Atomic \cup Within \cup Nested |-> IF value \in Atomic THEN 0 ELSE IF value \in Within THEN 1 ELSE 2]

Init == input \in [algorithm : {"der", "issuer", "requests", "json"}, value : {<<>>}]

Grow(algorithm, more) ==
    input.algorithm = algorithm /\ input' = [input EXCEPT !.value = Append(@, more)]

NameCount == FoldLeft(LAMBDA n, e : n + Len(e.names), 0, input.value)

GrowData  == Len(input.value) < MaxData /\ \E byte \in 0..(Base - 1) : Grow("der", byte)

GrowExtensions ==
    /\ input.algorithm = "issuer" /\ Len(input.value) < 2
    /\ \E san, ok \in BOOLEAN : Grow("issuer", [san |-> san, ok |-> ok, names |-> <<>>])

GrowNames ==
    /\ input.algorithm = "issuer" /\ input.value # <<>> /\ NameCount < MaxNames
    /\ \E name \in Names : input' = [input EXCEPT !.value[Len(input.value)].names = Append(@, name)]

GrowSpecs == Len(input.value) < MaxSpecs /\ \E spec \in Specs : Grow("requests", spec)

GrowEntries ==
    /\ input.algorithm = "json" /\ Len(input.value) < MaxEntries
    /\ \E key \in Keys \ {e.key : e \in ToSet(input.value)} : \E value \in Values(Len(input.value)) :
          Grow("json", Entry(key, value))

Next == GrowData \/ GrowExtensions \/ GrowNames \/ GrowSpecs \/ GrowEntries

Spec == Init /\ [][Next]_input
=============================================================================
