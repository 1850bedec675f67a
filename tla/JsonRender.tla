----------------------------- MODULE JsonRender -----------------------------
(***************************************************************************)
(* display.to_jsonable.  A value is                                        *)
(*   [kind |-> "atom", atom |-> ...]    a number, text, bytes or date      *)
(*   [kind |-> "list", items |-> ...]   a sequence, or a tag's content     *)
(*   [kind |-> "map", entries |-> ...]  a sequence of [key, value], with   *)
(*                                      different keys                     *)
(* and a key [type, text], the text being what safe_text makes of it.      *)
(* JSON is the same, but for a map it has "object", from names to JSON, or *)
(* else "entries", the list of them.                                       *)
(***************************************************************************)
EXTENDS Naturals, Sequences, SequencesExt

CONSTANTS Keys,  \* the keys of maps
          Depth  \* of each value, how deep it is nested

Value == DOMAIN Depth

(* The values that a value is made of, keys aside.                         *)
Parts(value) ==
    CASE value.kind = "atom" -> {}
      [] value.kind = "list" -> ToSet(value.items)
      [] value.kind = "map"  -> {e.value : e \in ToSet(value.entries)}

(* What was decoded is a finite tree.                                      *)
ASSUME JsonRenderAssumption ==
    /\ Depth \in [Value -> Nat]
    /\ \A value \in Value :
          /\ \/ value.kind = "atom"
             \/ value.kind = "list" /\ value.items \in Seq(Value)
             \/ value.kind = "map" /\ value.entries \in Seq([key : Keys, value : Value])
          /\ \A part \in Parts(value) : Depth[part] < Depth[value]

(* A string is its own name; any other key is named by its safe_text.      *)
JsonKey(entry) == entry.key.text

NamesCollideNever(entries) == FALSE
NamesCollide(entries)      == \E i, j \in DOMAIN entries : i < j /\ JsonKey(entries[i]) = JsonKey(entries[j])

Named(entries)        == {JsonKey(e) : e \in ToSet(entries)}
LastOf(entries, name) == SelectLastInSeq(entries, LAMBDA e : JsonKey(e) = name)

KeyAsValue(key) == [kind |-> "atom", atom |-> key]

(* One call of to_jsonable, `shown` being what it makes of the parts.      *)
Shown(shown, value) ==
    CASE value.kind = "atom" -> value
      [] value.kind = "list" ->
            [kind |-> "list", items |-> [i \in DOMAIN value.items |-> shown[value.items[i]]]]
      [] value.kind = "map" /\ NamesCollide(value.entries) ->
            [kind |-> "entries",
             entries |-> [i \in DOMAIN value.entries |->
                             [key   |-> KeyAsValue(value.entries[i].key),
                              value |-> shown[value.entries[i].value]]]]
      [] value.kind = "map" /\ ~NamesCollide(value.entries) ->
            [kind |-> "object",
             members |-> [name \in Named(value.entries) |->
                             shown[value.entries[LastOf(value.entries, name)].value]]]

ToJsonable[value \in Value] == Shown(ToJsonable, value)
-----------------------------------------------------------------------------
(* The atoms one can find in a value, and in JSON, keys aside.             *)
Atoms[value \in Value] ==
    IF value.kind = "atom" THEN {value.atom} ELSE UNION {Atoms[part] : part \in Parts(value)}

Json == {ToJsonable[value] : value \in Value}

JsonParts(json) ==
    CASE json.kind = "atom"    -> {}
      [] json.kind = "list"    -> ToSet(json.items)
      [] json.kind = "entries" -> {e.value : e \in ToSet(json.entries)}
      [] json.kind = "object"  -> {json.members[name] : name \in DOMAIN json.members}

JsonAtoms[json \in Json] ==
    IF json.kind = "atom" THEN {json.atom} ELSE UNION {JsonAtoms[part] : part \in JsonParts(json)}
=============================================================================
