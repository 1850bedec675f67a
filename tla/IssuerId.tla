------------------------------ MODULE IssuerId ------------------------------
(***************************************************************************)
(* trust.mdoc_issuer_id: the identifier of a certificate's owner, from its *)
(* subject alternative names, or a hash of the certificate; and the strict *)
(* DER traversal that comes before every use of asn1crypto.                *)
(***************************************************************************)
EXTENDS Integers, Sequences, SequencesExt

CONSTANTS Base,         \* 256; data are sequences of 0..Base-1
          HighBit,      \* 128: lengths are in long form from here on
          BadTags,      \* 0 and the tags whose five low bits are ones
          Constructed,  \* the tags with bit 0x20
          Absent        \* None

ASSUME IssuerIdAssumption ==
    /\ Base \in Nat /\ HighBit \in 1..(Base - 1)
    /\ 0 \in BadTags /\ Constructed \subseteq 1..(Base - 1)

FromBytes(bytes) == FoldLeft(LAMBDA n, byte : n * Base + byte, 0, bytes)

(* The header of the item at an offset: a tag, and a length in one byte or *)
(* in as many as the first byte tells.                                     *)
Tag(data, offset)       == data[offset + 1]
First(data, offset)     == data[offset + 2]
IsLong(data, offset)    == First(data, offset) >= HighBit
LongBytes(data, offset) == SubSeq(data, offset + 3, offset + 2 + First(data, offset) - HighBit)

ContentStart(data, offset) ==
    offset + 2 + (IF IsLong(data, offset) THEN First(data, offset) - HighBit ELSE 0)

ContentEnd(data, offset) ==
    ContentStart(data, offset)
        + (IF IsLong(data, offset) THEN FromBytes(LongBytes(data, offset)) ELSE First(data, offset))

MinimalInValue(bytes) == FromBytes(bytes) >= HighBit
Minimal(bytes)        == bytes[1] # 0 /\ FromBytes(bytes) >= HighBit

HeaderOk(data, offset, limit) ==
    /\ offset + 2 <= limit
    /\ Tag(data, offset) \notin BadTags
    /\ IsLong(data, offset) => /\ First(data, offset) # HighBit
                               /\ ContentStart(data, offset) <= limit
                               /\ Minimal(LongBytes(data, offset))

Invalid == -1

(* _der_item_end: where the item at an offset ends, if that is up to a     *)
(* limit; and its loop, where the last of the items up to the limit ends.  *)
DerEnds(data) ==
    LET ends[span \in (0..Len(data)) \X (0..Len(data))] ==
            LET offset == span[1]
                limit  == span[2]
                stop   == ContentEnd(data, offset)
                item   == IF /\ HeaderOk(data, offset, limit) /\ stop <= limit
                             /\ Tag(data, offset) \in Constructed =>
                                   ends[<<ContentStart(data, offset), stop>>].items = stop
                          THEN stop ELSE Invalid
            IN  [item  |-> item,
                 items |-> IF offset >= limit THEN offset
                           ELSE IF item = Invalid THEN Invalid ELSE ends[<<item, limit>>].items]
    IN  ends

IsDer(data) == data # <<>> /\ DerEnds(data)[<<0, Len(data)>>].item = Len(data)
-----------------------------------------------------------------------------
(* A certificate is [ok, extensions]; an extension [san, ok, names]; a     *)
(* name [kind, ascii, prefix, rest].  The "ok" are IsDer and that          *)
(* asn1crypto decodes it and encodes it to the same bytes again.           *)
Hash       == "x509_hash"
Https(rest) == <<"https://", rest>>

(* What reading has come to: the identifier, and the first host of this    *)
(* extension.                                                              *)
ReadHostAtOnce(read, name) == IF name.prefix = "*." THEN read ELSE [read EXCEPT !.id = Https(name.rest)]
ReadHost(read, name) ==
    IF read.host = Absent /\ name.prefix # "*." THEN [read EXCEPT !.host = name.rest] ELSE read

ReadName(read, name) ==
    IF read.id # Absent \/ name.kind = "other" THEN read
    ELSE IF ~name.ascii THEN [read EXCEPT !.id = Hash]
    ELSE IF name.kind = "dns" THEN ReadHost(read, name)
    ELSE IF name.prefix \in {"http://", "https://"} THEN [read EXCEPT !.id = Https(name.rest)] ELSE read

ReadExtension(read, extension) ==
    IF read.id # Absent \/ ~extension.san THEN read
    ELSE IF ~extension.ok THEN [read EXCEPT !.id = Hash]
    ELSE LET names == FoldLeft(ReadName, [read EXCEPT !.host = Absent], extension.names)
         IN  IF names.id = Absent /\ names.host # Absent THEN [names EXCEPT !.id = Https(names.host)] ELSE names

MdocIssuerId(certificate) ==
    LET read == FoldLeft(ReadExtension, [id |-> Absent, host |-> Absent], certificate.extensions)
    IN  IF certificate.ok /\ read.id # Absent THEN read.id ELSE Hash
-----------------------------------------------------------------------------
(* The reference: items by construction, with the one shortest length.     *)
Digits[n \in Nat] == IF n < Base THEN <<n>> ELSE Append(Digits[n \div Base], n % Base)

LengthOctets(n) == IF n < HighBit THEN <<n>> ELSE <<HighBit + Len(Digits[n])>> \o Digits[n]

(* The items of n bytes, and the sequences of items of n bytes in all.     *)
Encodings[n \in Nat] ==
    LET item == UNION {{<<tag>> \o LengthOctets(size) \o content :
                           content \in IF tag \in Constructed THEN Encodings[size].items
                                                              ELSE [1..size -> 0..(Base - 1)]} :
                       tag \in 0..(Base - 1) \ BadTags,
                       size \in {m \in 0..(n - 1) : 1 + Len(LengthOctets(m)) + m = n}}
        more == UNION {{a \o b : a \in Encodings[k].item, b \in Encodings[n - k].items} : k \in 1..(n - 1)}
    IN  [item |-> item, items |-> IF n = 0 THEN {<<>>} ELSE item \cup more]

(* The names of an extension, by what they are good for.                   *)
Urls(e)       == {i \in DOMAIN e.names : /\ e.names[i].kind = "uri" /\ e.names[i].ascii
                                         /\ e.names[i].prefix \in {"http://", "https://"}}
Hosts(e)      == {i \in DOMAIN e.names : /\ e.names[i].kind = "dns" /\ e.names[i].ascii
                                         /\ e.names[i].prefix # "*."}
Unreadable(e) == {i \in DOMAIN e.names : e.names[i].kind # "other" /\ ~e.names[i].ascii}

IsFirst(i, S) == i \in S /\ \A j \in S : i <= j

Settles(e) == e.san /\ (~e.ok \/ Urls(e) \cup Hosts(e) \cup Unreadable(e) # {})
=============================================================================
