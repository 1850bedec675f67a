-------------------------- MODULE PdpClientProofs --------------------------
(***************************************************************************)
(* The decisions of the PDP client, for every set of replies, any number   *)
(* of documents and any limit on a reply.                                  *)
(***************************************************************************)
EXTENDS PdpClient, TLAPS

(* The place in the loop over the documents.                               *)
Placed ==
    /\ pc = "start" => documents = <<>> /\ permits = 0
    /\ documents # <<>> => documents \in Presentations /\ Len(documents) \in Nat
    /\ pc \in {"start", "next", "headers", "read", "decide"} => outcome = "open"
    /\ pc \in {"headers", "read", "decide"} => permits < Len(documents)
    /\ outcome = "cleared" => documents # <<>> /\ permits = Len(documents)

(* How much of a reply is read: up to the limit, or to its end.            *)
Pieced ==
    /\ pc = "headers" => reply = Absent /\ got = 0
    /\ pc \in {"read", "decide"} => ~Refused(reply)
    /\ pc = "read" => got <= MaxBytes
    /\ pc = "decide" => got = reply.size \/ got > MaxBytes

IInv == TypeOK /\ Placed /\ Pieced /\ RefusedForCause
-----------------------------------------------------------------------------
LEMMA DocumentsCounted ==
    ASSUME NEW p \in Presentations
    PROVE  p # <<>> /\ Len(p) \in Nat
<1>1. p \in Seq([hasChain : BOOLEAN]) /\ p # <<>>
  BY PdpClientAssumption
<1> QED
  BY <1>1

(* What a body is taken for: a text that says `decision` once, and with a  *)
(* boolean, has that boolean for its decision.                             *)
LEMMA DecisionIsSaid ==
    ASSUME NEW r \in Replies, NEW value \in {"true", "false"}
    PROVE  Decision(r.text) = value <=>
              /\ r.text.kind = "object"
              /\ \A i, j \in DOMAIN r.text.members :
                    r.text.members[i].key = r.text.members[j].key => i = j
              /\ \E i \in DOMAIN r.text.members :
                    r.text.members[i].key = "decision" /\ r.text.members[i].value = value
<1> DEFINE text == r.text
           members == text.members
           at == CHOOSE k \in DOMAIN members : members[k].key = "decision"
           Once == \A i, j \in DOMAIN members : members[i].key = members[j].key => i = j
<1>1. DOMAIN members \subseteq Nat /\ Absent \notin {"true", "false"}
  BY PdpClientAssumption
<1>2. Once <=> ~Repeats(text)
  BY <1>1 DEF Repeats
<1>3. ASSUME NEW i \in DOMAIN members, members[i].key = "decision", Once
      PROVE  at = i
  BY <1>3
<1>4. ASSUME Decision(text) = value
      PROVE  /\ text.kind = "object" /\ Once
             /\ \E i \in DOMAIN members : members[i].key = "decision" /\ members[i].value = value
  <2>1. /\ text.kind = "object" /\ ~Repeats(text)
        /\ \E i \in DOMAIN members : members[i].key = "decision" /\ members[i].value \in {"true", "false"}
    BY <1>1, <1>4 DEF Decision
  <2>2. members[at].value = value
    BY <1>4, <2>1 DEF Decision
  <2> QED
    BY <1>2, <1>3, <2>1, <2>2
<1>5. ASSUME text.kind = "object", Once,
             NEW i \in DOMAIN members, members[i].key = "decision", members[i].value = value
      PROVE  Decision(text) = value
  <2>1. at = i
    BY <1>3, <1>5
  <2>2. Decision(text) = members[at].value
    BY <1>2, <1>5 DEF Decision
  <2> QED
    BY <1>5, <2>1, <2>2
<1> QED
  BY <1>4, <1>5

(* A reply whose size is within the limit, that was not refused and says   *)
(* yes, is an explicit permit.                                             *)
LEMMA PermitIsDecision ==
    ASSUME NEW r \in Replies, ~Refused(r), r.size <= MaxBytes
    PROVE  ExplicitPermit(r) <=> Decision(r.text) = "true"
<1>1. ExplicitPermit(r) =>
         /\ r.text.kind = "object"
         /\ \A i, j \in DOMAIN r.text.members : r.text.members[i].key = r.text.members[j].key => i = j
         /\ \E i \in DOMAIN r.text.members :
               r.text.members[i].key = "decision" /\ r.text.members[i].value = "true"
  BY DEF ExplicitPermit
<1>2. r.status >= 200 /\ r.status < 300
  BY DEF Refused
<1> QED
  BY <1>1, <1>2, DecisionIsSaid DEF ExplicitPermit
-----------------------------------------------------------------------------
(* The invariant holds initially.                                          *)
LEMMA InitIInv == Init => IInv
BY PdpClientAssumption DEF Init, IInv, TypeOK, Placed, Pieced, RefusedForCause

(* The client leaves, and what it leaves with says why.                    *)
LEMMA LeaveIInv ==
    ASSUME IInv, pc \notin {"start", "done"},
           NEW how \in {"cleared", "denied", "unavailable", "failed", "misconfigured", "traceback"},
           Leave(how),
           how = "cleared" => documents # <<>> /\ permits = Len(documents),
           how \in {"denied", "unavailable"} => ~ExplicitPermit(reply)
    PROVE  IInv'
<1> USE DEF Leave
<1>1. TypeOK'
  BY DEF IInv, TypeOK
<1>2. Placed'
  BY DEF IInv, Placed
<1>3. Pieced'
  BY DEF IInv, Pieced
<1>4. RefusedForCause'
  BY DEF RefusedForCause
<1> QED
  BY <1>1, <1>2, <1>3, <1>4 DEF IInv

LEMMA CallIInv ==
    ASSUME IInv, Call
    PROVE  IInv'
<1> USE DEF Call
<1>1. Len(documents') \in Nat /\ documents' # <<>> /\ permits \in 0..Len(documents')
  <2>1. documents = <<>> /\ permits = 0
    BY DEF IInv, TypeOK, Placed
  <2> QED
    BY <2>1, DocumentsCounted
<1>2. TypeOK'
  BY <1>1 DEF IInv, TypeOK
<1>3. Placed'
  BY <1>1 DEF IInv, Placed
<1>4. Pieced' /\ RefusedForCause'
  BY DEF IInv, Pieced, RefusedForCause, Placed
<1> QED
  BY <1>2, <1>3, <1>4 DEF IInv

LEMMA PostIInv ==
    ASSUME IInv, Post
    PROVE  IInv'
<1> USE DEF Post
<1>1. TypeOK'
  BY PdpClientAssumption DEF IInv, TypeOK
<1>2. Placed'
  BY DEF IInv, Placed
<1>3. Pieced'
  BY DEF IInv, Pieced
<1>4. RefusedForCause'
  BY DEF IInv, Placed, RefusedForCause
<1> QED
  BY <1>1, <1>2, <1>3, <1>4 DEF IInv

(* A reply refused by its headers is no permit: its status is none of      *)
(* success, or its body, as long as announced, is too long.                *)
LEMMA RefusedIsNoPermit ==
    ASSUME NEW r \in Replies, Refused(r)
    PROVE  ~ExplicitPermit(r)
<1>1. r.status \in Int /\ r.size \in Nat /\ r.contentLength \in {Absent, r.size} /\ MaxBytes \in Nat
  BY PdpClientAssumption
<1>2. CASE r.contentLength # Absent /\ r.contentLength > MaxBytes
  BY <1>1, <1>2 DEF ExplicitPermit
<1>3. CASE r.status \notin 200..299
  BY <1>1, <1>3 DEF ExplicitPermit
<1> QED
  BY <1>2, <1>3 DEF Refused

LEMMA HeadersIInv ==
    ASSUME IInv, Headers
    PROVE  IInv'
<1> USE DEF Headers
<1>1. reply' \in Replies /\ reply' # Absent /\ got = 0 /\ reply'.size \in Nat /\ MaxBytes \in Nat
  BY PdpClientAssumption DEF IInv, Pieced
<1>2. TypeOK'
  BY <1>1 DEF IInv, TypeOK
<1>3. Placed'
  BY DEF IInv, Placed
<1>4. Pieced'
  BY <1>1 DEF IInv, Pieced
<1>5. RefusedForCause'
  BY <1>1, RefusedIsNoPermit DEF IInv, Placed, RefusedForCause
<1> QED
  BY <1>2, <1>3, <1>4, <1>5 DEF IInv

LEMMA ReadPieceIInv ==
    ASSUME IInv, ReadPiece
    PROVE  IInv'
<1>1. reply \in Replies /\ pc = "read" /\ got \in Nat /\ got <= MaxBytes
  BY DEF ReadPiece, IInv, TypeOK, Pieced
<1>2. reply.size \in Nat /\ MaxBytes \in Nat /\ ReadSize \in Nat
  BY <1>1, PdpClientAssumption
<1>3. got' \in 0..(MaxBytes + 1) /\ got' <= reply.size
  <2>1. PICK n \in 1..Lesser(ReadLimit(got), reply.size - got) : got' = got + n
    BY DEF ReadPiece
  <2>2. n \in Nat /\ n <= MaxBytes + 1 - got /\ n <= reply.size - got
    BY <1>1, <1>2, <2>1 DEF Lesser, ReadLimit
  <2> QED
    BY <1>1, <1>2, <2>1, <2>2
<1>4. /\ UNCHANGED <<settings, documents, permits, reply, outcome>>
      /\ pc' = IF got' <= MaxBytes THEN "read" ELSE "decide"
  BY DEF ReadPiece, KeepReading
<1>5. TypeOK'
  BY <1>1, <1>3, <1>4 DEF IInv, TypeOK
<1>6. Placed'
  BY <1>1, <1>4 DEF IInv, Placed
<1>7. Pieced'
  BY <1>1, <1>2, <1>3, <1>4 DEF IInv, Pieced
<1>8. RefusedForCause'
  BY <1>1, <1>4 DEF IInv, Placed, RefusedForCause
<1> QED
  BY <1>5, <1>6, <1>7, <1>8 DEF IInv

LEMMA EndOfBodyIInv ==
    ASSUME IInv, EndOfBody
    PROVE  IInv'
<1> USE DEF EndOfBody
<1>1. TypeOK'
  BY DEF IInv, TypeOK
<1>2. Placed' /\ Pieced'
  BY DEF IInv, Placed, Pieced
<1>3. RefusedForCause'
  BY DEF IInv, Placed, RefusedForCause
<1> QED
  BY <1>1, <1>2, <1>3 DEF IInv

(* What a body that is decided upon was: read to its end, if not too long. *)
LEMMA ReadToTheEnd ==
    ASSUME IInv, pc = "decide"
    PROVE  /\ reply \in Replies /\ ~Refused(reply)
           /\ TooLong(got) => reply.size > MaxBytes
           /\ ~TooLong(got) => got = reply.size /\ reply.size <= MaxBytes /\ Received = reply.text
<1>1. reply \in Replies /\ ~Refused(reply) /\ got \in Nat /\ got <= reply.size
  BY DEF IInv, TypeOK, Pieced
<1>2. reply.size \in Nat /\ MaxBytes \in Nat
  BY <1>1, PdpClientAssumption
<1>3. got = reply.size \/ got > MaxBytes
  BY DEF IInv, Pieced
<1> QED
  BY <1>1, <1>2, <1>3 DEF TooLong, Received

(* When it is decided upon, a reply that permits is taken for what it is.  *)
LEMMA PermitIsRecognised ==
    ASSUME IInv, pc = "decide"
    PROVE  ExplicitPermit(reply) <=> ~TooLong(got) /\ Decision(Received) = "true"
<1>1. CASE TooLong(got)
  <2>1. reply.size > MaxBytes /\ reply.size \in Nat /\ MaxBytes \in Nat
    BY <1>1, ReadToTheEnd, PdpClientAssumption
  <2> QED
    BY <1>1, <2>1 DEF ExplicitPermit
<1>2. CASE ~TooLong(got)
  BY <1>2, ReadToTheEnd, PermitIsDecision
<1> QED
  BY <1>1, <1>2

LEMMA PermittedIInv ==
    ASSUME IInv, Permitted
    PROVE  IInv'
<1> USE DEF Permitted
<1>1. permits \in Nat /\ Len(documents) \in Nat /\ permits + 1 <= Len(documents) /\ documents # <<>>
  BY DEF IInv, TypeOK, Placed
<1>2. TypeOK'
  BY <1>1 DEF IInv, TypeOK
<1>3. Placed'
  BY <1>1 DEF IInv, Placed
<1>4. Pieced' /\ RefusedForCause'
  BY DEF IInv, Pieced, Placed, RefusedForCause
<1> QED
  BY <1>2, <1>3, <1>4 DEF IInv

(* The actions with which the client leaves.                               *)
LEMMA LeavingIInv ==
    ASSUME IInv,
           Clear \/ RefuseToSend \/ TransportFails \/ NoDecision \/ NotDecoded \/ Denied \/ Interrupt
    PROVE  IInv'
<1>1. CASE Clear
  BY <1>1, LeaveIInv DEF Clear, IInv, TypeOK
<1>2. CASE RefuseToSend
  BY <1>2, LeaveIInv DEF RefuseToSend
<1>3. CASE TransportFails
  BY <1>3, LeaveIInv DEF TransportFails
<1>4. CASE NoDecision
  <2>1. ~ExplicitPermit(reply)
    BY <1>4, PermitIsRecognised, ReadToTheEnd, PdpClientAssumption DEF NoDecision, ExplicitPermit
  <2> QED
    BY <1>4, <2>1, LeaveIInv DEF NoDecision
<1>5. CASE NotDecoded
  BY <1>5, LeaveIInv DEF NotDecoded
<1>6. CASE Denied
  <2>1. ~ExplicitPermit(reply)
    BY <1>6, PermitIsRecognised DEF Denied
  <2> QED
    BY <1>6, <2>1, LeaveIInv DEF Denied
<1>7. CASE Interrupt
  BY <1>7, LeaveIInv DEF Interrupt
<1> QED
  BY <1>1, <1>2, <1>3, <1>4, <1>5, <1>6, <1>7

LEMMA NextIInv == IInv /\ [Next]_vars => IInv'
<1> SUFFICES ASSUME IInv, [Next]_vars PROVE IInv'
  OBVIOUS
<1>1. CASE UNCHANGED vars
  BY <1>1 DEF vars, IInv, TypeOK, Placed, Pieced, RefusedForCause
<1>2. CASE Call
  BY <1>2, CallIInv
<1>3. CASE Post \/ Headers
  BY <1>3, PostIInv, HeadersIInv
<1>4. CASE ReadPiece \/ EndOfBody
  BY <1>4, ReadPieceIInv, EndOfBodyIInv
<1>5. CASE Permitted
  BY <1>5, PermittedIInv
<1>6. CASE Clear \/ RefuseToSend \/ TransportFails \/ NoDecision \/ NotDecoded \/ Denied \/ Interrupt
  BY <1>6, LeavingIInv
<1> QED
  BY <1>1, <1>2, <1>3, <1>4, <1>5, <1>6 DEF Next, Client
-----------------------------------------------------------------------------
(* The invariant of authorize_documents.                                   *)
THEOREM Inductive == Spec => []IInv
BY InitIInv, NextIInv, PTL DEF Spec

(* Never more than one byte beyond the limit is kept, and the documents    *)
(* are counted right (trust.py:198-202).                                   *)
THEOREM TypeCorrect == Spec => []TypeOK
<1>1. IInv => TypeOK
  BY DEF IInv
<1> QED
  BY <1>1, Inductive, PTL

(* A reply that permits is not refused (trust.py:193-221).                 *)
THEOREM NoRefusalWithoutCause == Spec => []RefusedForCause
<1>1. IInv => RefusedForCause
  BY DEF IInv
<1> QED
  BY <1>1, Inductive, PTL

(* A document is permitted on an explicit permit that was read to its end, *)
(* and on nothing else (trust.py:198-231).                                 *)
THEOREM PermitsExplicit == Spec => PermitsAreExplicit
<1> DEFINE A == permits' # permits => /\ permits' = permits + 1 /\ outcome = "open"
                                      /\ ExplicitPermit(reply) /\ got = reply.size
<1>1. IInv /\ [Next]_vars => [A]_vars
  <2> SUFFICES ASSUME IInv, Next PROVE A
    OBVIOUS
  <2>1. CASE Permitted
    BY <2>1, PermitIsRecognised, ReadToTheEnd DEF Permitted, IInv, Placed
  <2>2. CASE ~Permitted
    BY <2>2 DEF Next, Client, Call, Clear, RefuseToSend, Post, Headers, ReadPiece, EndOfBody,
                TransportFails, NoDecision, NotDecoded, Denied, Interrupt, Leave
  <2> QED
    BY <2>1, <2>2
<1> QED
  BY <1>1, Inductive, PTL DEF Spec, PermitsAreExplicit

(* Whatever is said of the end of a call, it clears a presentation only    *)
(* through the gate: the steps are those of DisclosureGate, with the PDP   *)
(* as the judge of each document (trust.py:224-231).                       *)
THEOREM ClearsThroughGate == Spec => Gate!Init /\ [][Gate!Next]_(Gate!vars)
<1>1. Init => Gate!Init
  BY DEF Init, Gate!Init
<1>2. IInv /\ [Next]_vars => [Gate!Next]_(Gate!vars)
  <2> SUFFICES ASSUME IInv, [Next]_vars PROVE [Gate!Next]_(Gate!vars)
    OBVIOUS
  <2>1. CASE UNCHANGED vars
    BY <2>1 DEF vars, Gate!vars
  <2>2. CASE Call
    <3>1. documents = <<>> /\ documents' # <<>> /\ outcome = "open"
      BY <2>2, PdpClientAssumption DEF Call, IInv, Placed
    <3> QED
      BY <2>2, <3>1 DEF Call, Gate!Next, Gate!Vet
  <2>3. CASE Permitted
    <3>1. permits < Len(documents) /\ outcome = "open"
      BY <2>3 DEF Permitted, IInv, Placed
    <3> QED
      BY <2>3, <3>1 DEF Permitted, Gate!Next, Gate!Permit
  <2>4. CASE Clear
    <3>1. documents # <<>> /\ permits = Len(documents)
      BY <2>4 DEF Clear, IInv, TypeOK
    <3> QED
      BY <2>4, <3>1 DEF Clear, Leave, Gate!Next, Gate!Release
  <2>5. CASE Post \/ ReadPiece \/ EndOfBody \/ (Headers /\ pc' # "done")
    BY <2>5 DEF Post, ReadPiece, EndOfBody, Headers, Gate!vars
  <2>6. CASE \/ RefuseToSend \/ TransportFails \/ NoDecision \/ NotDecoded \/ Denied \/ Interrupt
             \/ (Headers /\ pc' = "done")
    <3>1. /\ pc # "done" /\ pc' = "done" /\ outcome' # "cleared" /\ outcome = "open"
          /\ UNCHANGED <<documents, permits>>
      BY <2>6 DEF RefuseToSend, TransportFails, NoDecision, NotDecoded, Denied, Interrupt,
                  Headers, Leave, IInv, TypeOK
    <3> QED
      BY <3>1 DEF Gate!Next, Gate!Refuse
  <2> QED
    BY <2>1, <2>2, <2>3, <2>4, <2>5, <2>6 DEF Next, Client
<1> QED
  BY <1>1, <1>2, Inductive, PTL DEF Spec
=============================================================================
