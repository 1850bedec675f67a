------------------------ MODULE VerifierSystemProofs ------------------------
(***************************************************************************)
(* Sessions do not mix, for any number of processes and phones, whatever   *)
(* engagements they share and however often an mdoc answers.               *)
(***************************************************************************)
EXTENDS VerifierSystem, TLAPS

(* What a process has when it has prepared its session.                    *)
Prepared ==
    /\ pc \in [Verifiers -> {"setup", "exchange", "answer", "done"}]
    /\ exit \in [Verifiers -> {"running", "ok", "reported", "traceback"}]
    /\ setting \in [Verifiers -> Settings \cup {Absent}]
    /\ sent = [v \in Verifiers |-> sent[v]] /\ printed = [v \in Verifiers |-> printed[v]]
    /\ \A v \in Verifiers :
        /\ exit[v] = "running" <=> pc[v] # "done"
        /\ pc[v] = "setup" => setting[v] = Absent
        /\ pc[v] \in {"exchange", "answer"} => setting[v] # Absent
        /\ pc[v] = "answer" => sent[v] \in air
        /\ printed[v] # Absent => pc[v] = "done" /\ setting[v] # Absent
        /\ setting[v] = Absent => sent[v] = Absent
        /\ setting[v] # Absent => /\ CanBuild(setting[v]) /\ CanUse(Role(setting[v]), setting[v].command)
                                  /\ sent[v] = Message(v, setting[v])

(* What is on the air, by who sent it: a verifier, or an mdoc in answer.   *)
IsSent(m) == \E v \in Verifiers : setting[v] # Absent /\ m = sent[v]

IsAnswer(m) ==
    /\ m.kind = "data"
    /\ \E de \in Mdocs, n \in 1..2, e \in air :
        /\ e.kind = "establishment" /\ Understood(de, e) = 0
        /\ m.data.intact /\ m.data.iv = <<"mdoc", n>>
        /\ m.data.key = IsoSession(de, e.readerKey).skDevice
        /\ m.data.text.answers = e /\ m.data.text.nth = n

Told == \A m \in air : IsSent(m) \/ m.kind = "status" \/ IsAnswer(m)

(* What is printed answers the message of the process that prints it.      *)
Answered ==
    \A v \in Verifiers : printed[v] # Absent =>
        /\ printed[v].answers = sent[v] /\ printed[v].nth = 1
        /\ \E de \in Mdocs : Understood(de, sent[v]) = 0
        /\ setting[v].command = "read" => Verified(v, printed[v])

IInv == Prepared /\ Told /\ Answered
-----------------------------------------------------------------------------
(* Transcripts, and derived keys, tell what they are made of.              *)
LEMMA TranscriptsTell ==
    ASSUME NEW e1, NEW e2, NEW k1, NEW k2, NEW h1, NEW h2, <<e1, k1, h1>> = <<e2, k2, h2>>
    PROVE  e1 = e2 /\ k1 = k2 /\ h1 = h2
OBVIOUS

(* The session of a verifier, and of an mdoc that was told a reader key.   *)
LEMMA SessionIs ==
    ASSUME NEW v, NEW s
    PROVE  LET de == s.engagement
               transcript == <<de.raw, v, ResolveHandover(s.nfc)>>
               zab == {v, EDeviceKey(de)}
           IN  /\ Session(v, s).transcript = transcript
               /\ Session(v, s).skReader = SkReader(zab, transcript)
               /\ Session(v, s).skDevice = SkDevice(zab, transcript)
BY DEF Session, BuildSessionTranscript, FreshKey, Agreed

LEMMA IsoSessionIs ==
    ASSUME NEW de, NEW key
    PROVE  LET transcript == <<de.raw, key, IF Touched[de] = Absent THEN Absent ELSE <<Touched[de], Absent>>>>
               zab == {key, de.coseKey.point}
           IN  /\ IsoSession(de, key).transcript = transcript
               /\ IsoSession(de, key).skReader = SkReader(zab, transcript)
               /\ IsoSession(de, key).skDevice = SkDevice(zab, transcript)
BY DEF IsoSession, SkReader, SkDevice

(* An mdoc whose reader key for the verifier's messages is the verifier's  *)
(* has its other key as well.                                              *)
LEMMA OneKeyGivesTheOther ==
    ASSUME NEW v, NEW s, NEW de, NEW key,
           IsoSession(de, key).skReader = Session(v, s).skReader
    PROVE  IsoSession(de, key).skDevice = Session(v, s).skDevice
<1> DEFINE t == <<de.raw, key, IF Touched[de] = Absent THEN Absent ELSE <<Touched[de], Absent>>>>
           z == {key, de.coseKey.point}
           u == <<s.engagement.raw, v, ResolveHandover(s.nfc)>>
           y == {v, EDeviceKey(s.engagement)}
<1>1. IsoSession(de, key).skReader = SkReader(z, t) /\ IsoSession(de, key).skDevice = SkDevice(z, t)
  BY IsoSessionIs
<1>2. Session(v, s).skReader = SkReader(y, u) /\ Session(v, s).skDevice = SkDevice(y, u)
  BY SessionIs
<1> HIDE DEF t, z, u, y
<1>3. z = y /\ t = u
  <2>1. <<"SKReader", z, t>> = <<"SKReader", y, u>>
    BY <1>1, <1>2 DEF SkReader
  <2> QED
    BY <2>1
<1> QED
  BY <1>1, <1>2, <1>3

LEMMA DeviceKeyTellsReader ==
    ASSUME NEW v, NEW s, NEW de, NEW key,
           IsoSession(de, key).skDevice = Session(v, s).skDevice
    PROVE  key = v
<1> DEFINE h == IF Touched[de] = Absent THEN Absent ELSE <<Touched[de], Absent>>
           t == <<de.raw, key, h>>
           z == {key, de.coseKey.point}
           u == <<s.engagement.raw, v, ResolveHandover(s.nfc)>>
           y == {v, EDeviceKey(s.engagement)}
<1>1. IsoSession(de, key).skDevice = SkDevice(z, t)
  BY IsoSessionIs
<1>2. Session(v, s).skDevice = SkDevice(y, u)
  BY SessionIs
<1> HIDE DEF h, t, z, u, y
<1>3. z = y /\ t = u
  <2>1. <<"SKDevice", z, t>> = <<"SKDevice", y, u>>
    BY <1>1, <1>2 DEF SkDevice
  <2> QED
    BY <2>1
<1> QED
  BY <1>3, TranscriptsTell DEF t, u

LEMMA ReaderKeyIsNoDeviceKey ==
    ASSUME NEW v, NEW s, NEW w, NEW r
    PROVE  Session(w, r).skReader # Session(v, s).skDevice
BY DEF Session, SkReader, SkDevice

(* Whatever the command, the message names its reader and is encrypted     *)
(* with the reader's key.                                                  *)
LEMMA MessageIs ==
    ASSUME NEW v, NEW s \in Settings
    PROVE  /\ Message(v, s).kind = "establishment" /\ Message(v, s).readerKey = v
           /\ Message(v, s).data.key = Session(v, s).skReader
           /\ Message(v, s).data.iv = <<"reader", 1>>
<1> DEFINE key == Session(v, s).skReader
           request == EncryptReaderMessage(key, 1, DeviceRequest(s.request))
           garbage == EncryptReaderMessage(key, 1, Garbage)
           corrupt == CorruptCiphertext(request)
<1>1. request.key = key /\ request.iv = <<"reader", 1>>
  BY DEF EncryptReaderMessage, Encrypt, GcmIv
<1>2. garbage.key = key /\ garbage.iv = <<"reader", 1>>
  BY DEF EncryptReaderMessage, Encrypt, GcmIv
<1>3. corrupt.key = key /\ corrupt.iv = <<"reader", 1>>
  BY DEF EncryptReaderMessage, Encrypt, GcmIv, CorruptCiphertext
<1>4. ASSUME NEW c
      PROVE  /\ Establishment(v, c).kind = "establishment" /\ Establishment(v, c).readerKey = v
             /\ Establishment(v, c).data = c
             /\ Truncate(Establishment(v, c), s.keep).kind = "establishment"
             /\ Truncate(Establishment(v, c), s.keep).readerKey = v
             /\ Truncate(Establishment(v, c), s.keep).data = c
  BY DEF Truncate, Establishment
<1>5. s.command \in Commands
  BY VerifierSystemAssumption
<1>6. CASE s.command = "read"
  <2>1. Message(v, s) = Establishment(v, request)
    BY <1>6 DEF Message, FreshKey
  <2> HIDE DEF request
  <2> QED
    BY <2>1, <1>1, <1>4
<1>7. CASE s.command = "garbage-cbor-request"
  <2>1. Message(v, s) = Establishment(v, garbage)
    BY <1>7 DEF Message, FreshKey
  <2> HIDE DEF garbage
  <2> QED
    BY <2>1, <1>2, <1>4
<1>8. CASE s.command = "corrupt-ciphertext"
  <2>1. Message(v, s) = Establishment(v, corrupt)
    BY <1>8 DEF Message, FreshKey
  <2> HIDE DEF corrupt
  <2> QED
    BY <2>1, <1>3, <1>4
<1>9. CASE s.command = "truncated-session-establishment"
  <2>1. Message(v, s) = Truncate(Establishment(v, request), s.keep)
    BY <1>9 DEF Message, FreshKey
  <2> HIDE DEF request
  <2> QED
    BY <2>1, <1>1, <1>4
<1> QED
  BY <1>5, <1>6, <1>7, <1>8, <1>9 DEF Commands

(* What of the air a verifier can read: an mdoc's answer, the first that   *)
(* was made to this verifier's own message.                                *)
LEMMA ReadableIsOwnAnswer ==
    ASSUME IInv, NEW v \in Verifiers, setting[v] # Absent,
           NEW m \in Heard, HasData(m), Plaintext(v, m) # Absent
    PROVE  /\ Plaintext(v, m).answers = sent[v] /\ Plaintext(v, m).nth = 1
           /\ \E de \in Mdocs : Understood(de, sent[v]) = 0
<1> DEFINE key == Session(v, setting[v]).skDevice
<1>1. m.data.key = key /\ m.data.iv = <<"mdoc", 1>> /\ Plaintext(v, m) = m.data.text
  BY DEF Plaintext, DecryptDeviceMessage, Decrypt, GcmIv
<1>2. m.kind \in {"data", "establishment"} /\ m \in air
  BY DEF HasData, Heard
<1>3. ASSUME NEW w \in Verifiers, setting[w] # Absent
      PROVE  /\ setting[w] \in Settings /\ sent[w] = Message(w, setting[w])
             /\ sent[w].kind = "establishment" /\ sent[w].readerKey = w
             /\ sent[w].data.key = Session(w, setting[w]).skReader
  <2>1. setting[w] \in Settings /\ sent[w] = Message(w, setting[w])
    BY <1>3 DEF IInv, Prepared
  <2> QED
    BY <2>1, MessageIs
<1>4. ~IsSent(m)
  <2> SUFFICES ASSUME NEW w \in Verifiers, setting[w] # Absent, m = sent[w] PROVE FALSE
    BY DEF IsSent
  <2>1. m.data.key = Session(w, setting[w]).skReader
    BY <1>3
  <2>2. Session(w, setting[w]).skReader # Session(v, setting[v]).skDevice
    BY ReaderKeyIsNoDeviceKey
  <2> QED
    BY <1>1, <2>1, <2>2
<1>5. IsAnswer(m)
  BY <1>2, <1>4 DEF IInv, Told
<1>6. PICK de \in Mdocs, n \in 1..2, e \in air :
        /\ e.kind = "establishment" /\ Understood(de, e) = 0
        /\ m.data.iv = <<"mdoc", n>>
        /\ m.data.key = IsoSession(de, e.readerKey).skDevice
        /\ m.data.text.answers = e /\ m.data.text.nth = n
  BY <1>5 DEF IsAnswer
<1>7. n = 1
  BY <1>1, <1>6
<1>8. e.readerKey = v
  BY <1>1, <1>6, DeviceKeyTellsReader
<1>9. e = sent[v]
  <2>1. IsSent(e)
    BY <1>6 DEF IInv, Told, IsAnswer
  <2> QED
    BY <1>3, <1>8, <2>1 DEF IsSent
<1> QED
  BY <1>1, <1>6, <1>7, <1>9
-----------------------------------------------------------------------------
(* The invariant holds initially.                                          *)
LEMMA InitIInv == Init => IInv
BY DEF Init, IInv, Prepared, Told, Answered

(* What was true of the air stays true when it fills.                      *)
LEMMA ToldStands ==
    ASSUME Told, air \subseteq air',
           \A w \in Verifiers : setting[w] # Absent => setting'[w] # Absent /\ sent'[w] = sent[w],
           \A m \in air' \ air : IsSent(m) \/ m.kind = "status" \/ IsAnswer(m)
    PROVE  Told'
<1> SUFFICES ASSUME NEW m \in air' PROVE IsSent(m)' \/ m.kind = "status" \/ IsAnswer(m)'
  BY DEF Told
<1>1. CASE IsSent(m)
  BY <1>1 DEF IsSent
<1>2. CASE IsAnswer(m)
  BY <1>2 DEF IsAnswer
<1> QED
  BY <1>1, <1>2 DEF Told

(* A process that ends without printing.                                   *)
LEMMA LeaveIInv ==
    ASSUME IInv, NEW v \in Verifiers, pc[v] # "done", NEW how \in {"ok", "reported", "traceback"},
           Leave(v, how), UNCHANGED <<setting, sent, air, printed>>
    PROVE  IInv'
<1>1. Prepared'
  BY DEF IInv, Prepared, Leave
<1>2. Told'
  BY ToldStands DEF IInv
<1>3. Answered'
  BY DEF IInv, Answered, Verified
<1> QED
  BY <1>1, <1>2, <1>3 DEF IInv

LEMMA PrepareIInv ==
    ASSUME IInv, NEW v \in Verifiers, Prepare(v)
    PROVE  IInv'
<1>1. PICK s \in Settings :
        /\ CanBuild(s) /\ CanUse(Role(s), s.command)
        /\ setting' = [setting EXCEPT ![v] = s] /\ sent' = [sent EXCEPT ![v] = Message(v, s)]
  BY DEF Prepare
<1>2. /\ pc[v] = "setup" /\ pc' = [pc EXCEPT ![v] = "exchange"]
      /\ UNCHANGED <<air, printed, exit>>
  BY DEF Prepare
<1>3. s # Absent /\ setting[v] = Absent /\ printed[v] = Absent
  BY <1>2, VerifierSystemAssumption DEF IInv, Prepared
<1>4. /\ setting' \in [Verifiers -> Settings \cup {Absent}]
      /\ setting'[v] = s /\ sent'[v] = Message(v, s) /\ pc'[v] = "exchange"
      /\ \A w \in Verifiers \ {v} : setting'[w] = setting[w] /\ sent'[w] = sent[w] /\ pc'[w] = pc[w]
  BY <1>1, <1>2 DEF IInv, Prepared
<1>5. Prepared'
  <2>1. /\ pc' \in [Verifiers -> {"setup", "exchange", "answer", "done"}]
        /\ sent' = [w \in Verifiers |-> sent'[w]]
    BY <1>1, <1>2 DEF IInv, Prepared
  <2> QED
    BY <1>1, <1>2, <1>3, <1>4, <2>1 DEF IInv, Prepared
<1>6. Told'
  BY <1>2, <1>3, <1>4, ToldStands DEF IInv
<1>7. Answered'
  BY <1>2, <1>3, <1>4 DEF IInv, Answered, Verified
<1> QED
  BY <1>5, <1>6, <1>7 DEF IInv

LEMMA TransmitIInv ==
    ASSUME IInv, NEW v \in Verifiers, Transmit(v)
    PROVE  IInv'
<1> USE DEF Transmit
<1>1. setting[v] # Absent
  BY DEF IInv, Prepared
<1>2. Prepared'
  BY <1>1 DEF IInv, Prepared
<1>3. Told'
  BY <1>1, ToldStands DEF IInv, IsSent
<1>4. Answered'
  BY DEF IInv, Answered, Verified
<1> QED
  BY <1>2, <1>3, <1>4 DEF IInv

LEMMA GetResponseIInv ==
    ASSUME IInv, NEW v \in Verifiers, GetResponse(v)
    PROVE  IInv'
<1>1. PICK m \in Heard :
        /\ HasData(m) /\ Plaintext(v, m) # Absent
        /\ setting[v].command = "read" => Verified(v, Plaintext(v, m))
        /\ printed' = [printed EXCEPT ![v] = Plaintext(v, m)]
  BY DEF GetResponse
<1>2. pc[v] = "answer" /\ Leave(v, "ok") /\ UNCHANGED <<setting, sent, air>>
  BY DEF GetResponse
<1>3. setting[v] # Absent
  BY <1>2 DEF IInv, Prepared
<1>4. /\ printed'[v] = Plaintext(v, m) /\ printed' = [w \in Verifiers |-> printed'[w]]
      /\ \A w \in Verifiers \ {v} : printed'[w] = printed[w]
  BY <1>1 DEF IInv, Prepared
<1>5. Prepared'
  BY <1>2, <1>3, <1>4 DEF IInv, Prepared, Leave
<1>6. Told'
  BY <1>2, ToldStands DEF IInv
<1>7. /\ Plaintext(v, m).answers = sent[v] /\ Plaintext(v, m).nth = 1
      /\ \E de \in Mdocs : Understood(de, sent[v]) = 0
  BY <1>1, <1>3, ReadableIsOwnAnswer
<1>8. Answered'
  BY <1>1, <1>2, <1>4, <1>7 DEF IInv, Answered, Verified
<1> QED
  BY <1>5, <1>6, <1>8 DEF IInv

(* An mdoc's reply, of either kind.                                        *)
LEMMA ReplyIInv ==
    ASSUME IInv, NEW m, Reply(m), m.kind = "status" \/ IsAnswer(m)
    PROVE  IInv'
<1> USE DEF Reply
<1>1. Prepared'
  BY DEF IInv, Prepared
<1>2. Told'
  BY ToldStands DEF IInv
<1>3. Answered'
  BY DEF IInv, Answered, Verified
<1> QED
  BY <1>1, <1>2, <1>3 DEF IInv

LEMMA MdocIInv ==
    ASSUME IInv, NEW de \in Mdocs, MdocRefuses(de) \/ MdocAnswers(de)
    PROVE  IInv'
<1>1. CASE MdocRefuses(de)
  <2>1. PICK e \in air :
          Reply([kind |-> "status", status |-> IF Understood(de, e) = 0 THEN 20 ELSE Understood(de, e)])
    BY <1>1 DEF MdocRefuses
  <2> QED
    BY <2>1, ReplyIInv
<1>2. CASE MdocAnswers(de)
  <2> DEFINE answer(e, n, documents, other) ==
               [kind |-> "data",
                data |-> Encrypt(IsoSession(de, e.readerKey).skDevice, <<"mdoc", n>>,
                                 [documents |-> documents, nth |-> n, answers |-> e,
                                  signedFor |-> IsoSession(de, other.readerKey).transcript])]
  <2>1. PICK e \in air, n \in 1..2, documents \in {s.request : s \in Settings}, other \in air :
          e.kind = "establishment" /\ Understood(de, e) = 0 /\ Reply(answer(e, n, documents, other))
    BY <1>2 DEF MdocAnswers
  <2>2. IsAnswer(answer(e, n, documents, other))
    BY <2>1 DEF IsAnswer, Encrypt
  <2> HIDE DEF answer
  <2> QED
    BY <2>1, <2>2, ReplyIInv
<1> QED
  BY <1>1, <1>2

LEMMA NextIInv == IInv /\ [Next]_vars => IInv'
<1> SUFFICES ASSUME IInv, [Next]_vars PROVE IInv'
  OBVIOUS
<1>1. CASE UNCHANGED vars
  BY <1>1, ToldStands DEF vars, IInv, Prepared, Answered, Verified
<1>2. ASSUME NEW v \in Verifiers,
             CannotPrepare(v) \/ ExchangeFails(v) \/ GetStatus(v) \/ GetUnreadable(v) \/ GetUnverified(v)
      PROVE  IInv'
  BY <1>2, LeaveIInv DEF CannotPrepare, ExchangeFails, GetStatus, GetUnreadable, GetUnverified
<1>3. ASSUME NEW v \in Verifiers, Prepare(v) \/ Transmit(v) \/ GetResponse(v)
      PROVE  IInv'
  BY <1>3, PrepareIInv, TransmitIInv, GetResponseIInv
<1>4. ASSUME NEW de \in Mdocs, MdocRefuses(de) \/ MdocAnswers(de)
      PROVE  IInv'
  BY <1>4, MdocIInv
<1> QED
  BY <1>1, <1>2, <1>3, <1>4 DEF Next
-----------------------------------------------------------------------------
(* The strengthened invariant holds for every behaviour.                   *)
THEOREM Inductive == Spec => []IInv
BY InitIInv, NextIInv, PTL DEF Spec

(* What is chosen for a process can be used (cli.py:66-110): the mode that *)
(* is resolved has its UUID.                                               *)
THEOREM TypeCorrect == Spec => []TypeOK
<1>1. IInv => TypeOK
  <2> SUFFICES ASSUME IInv, NEW v \in Verifiers, setting[v] # Absent
               PROVE  Uuid(Role(setting[v]), setting[v].engagement) # Absent
    BY DEF IInv, Prepared, TypeOK
  <2>1. setting[v] \in Settings /\ CanBuild(setting[v]) /\ CanUse(Role(setting[v]), setting[v].command)
    BY DEF IInv, Prepared
  <2>2. setting[v].mode \in {"auto", "central", "peripheral"}
    BY <2>1, VerifierSystemAssumption
  <2> QED
    BY <2>1, <2>2 DEF CanBuild, IsEngagement, CanUse, Role, ResolveMode, Uuid
<1> QED
  BY <1>1, Inductive, PTL

(* No process prints what was answered to another, or later in its own     *)
(* session, or signed for another (cli.py:170-175, 247-250).               *)
THEOREM SessionsKeptApart == Spec => []OwnSession
<1>1. IInv => OwnSession
  <2> SUFFICES ASSUME IInv, NEW v \in Verifiers, printed[v] # Absent
               PROVE  /\ printed[v].answers = sent[v] /\ printed[v].nth = 1
                      /\ setting[v].command = "read" =>
                            /\ printed[v].documents = setting[v].request
                            /\ printed[v].signedFor[1] = setting[v].engagement.raw
                            /\ printed[v].signedFor[2] = sent[v].readerKey
    BY DEF OwnSession
  <2>1. setting[v] \in Settings /\ sent[v] = Message(v, setting[v])
    BY DEF IInv, Prepared
  <2>2. sent[v].readerKey = v
    BY <2>1, MessageIs
  <2>3. Session(v, setting[v]).transcript = <<setting[v].engagement.raw, v, ResolveHandover(setting[v].nfc)>>
    BY SessionIs
  <2> QED
    BY <2>2, <2>3 DEF IInv, Answered, Verified
<1> QED
  BY <1>1, Inductive, PTL
-----------------------------------------------------------------------------
(* A proper share of a message is shorter than the message.                *)
LEMMA ShareIsLess ==
    ASSUME NEW n \in Nat \ {0, 1}, NEW a \in Int, NEW b \in Int, 0 < a, a < b
    PROVE  (n * a) \div b \in Int /\ (n * a) \div b < n
<1> DEFINE q == (n * a) \div b
<1>1. q \in Int /\ q * b <= n * a
  OBVIOUS
<1>2. n * a < n * b
  OBVIOUS
<1> HIDE DEF q
<1>3. CASE q >= n
  <2>1. q * b >= n * b
    BY <1>1, <1>3
  <2> QED
    BY <1>1, <1>2, <2>1
<1>4. q < n
  BY <1>1, <1>3
<1> QED
  BY <1>1, <1>4 DEF q

(* What the message of each command holds.                                 *)
LEMMA ContentIs ==
    ASSUME NEW v, NEW s \in Settings, CanBuild(s)
    PROVE  /\ s.command = "read" =>
                 /\ Message(v, s).kept = EstablishmentSize
                 /\ Message(v, s).data.intact /\ Message(v, s).data.text = DeviceRequest(s.request)
           /\ s.command = "garbage-cbor-request" =>
                 /\ Message(v, s).kept = EstablishmentSize
                 /\ Message(v, s).data.intact /\ Message(v, s).data.text = Garbage
           /\ s.command = "corrupt-ciphertext" =>
                 Message(v, s).kept = EstablishmentSize /\ ~Message(v, s).data.intact
           /\ s.command = "truncated-session-establishment" => Message(v, s).kept # EstablishmentSize
<1> DEFINE encrypted(text) == EncryptReaderMessage(Session(v, s).skReader, 1, text)
           request == encrypted(DeviceRequest(s.request))
<1>1. ASSUME NEW text
      PROVE  encrypted(text).intact /\ encrypted(text).text = text
             /\ ~CorruptCiphertext(encrypted(text)).intact
  BY DEF EncryptReaderMessage, Encrypt, CorruptCiphertext
<1>2. ASSUME NEW c
      PROVE  Establishment(v, c).kept = EstablishmentSize /\ Establishment(v, c).data = c
  BY DEF Establishment
<1>3. /\ s.command = "read" => Message(v, s) = Establishment(v, request)
      /\ s.command = "garbage-cbor-request" => Message(v, s) = Establishment(v, encrypted(Garbage))
      /\ s.command = "corrupt-ciphertext" => Message(v, s) = Establishment(v, CorruptCiphertext(request))
      /\ s.command = "truncated-session-establishment" =>
            Message(v, s) = Truncate(Establishment(v, request), s.keep)
  BY DEF Message, FreshKey
<1> HIDE DEF encrypted
<1>4. s.command = "truncated-session-establishment" =>
         Truncate(Establishment(v, request), s.keep).kept # EstablishmentSize
  <2> SUFFICES ASSUME s.command = "truncated-session-establishment"
               PROVE  Truncate(Establishment(v, request), s.keep).kept # EstablishmentSize
    OBVIOUS
  <2> DEFINE share == (EstablishmentSize * s.keep[1]) \div s.keep[2]
  <2>1. /\ EstablishmentSize \in Nat \ {0, 1} /\ s.keep[1] \in Int /\ s.keep[2] \in Int
        /\ 0 < s.keep[1] /\ s.keep[1] < s.keep[2]
    BY VerifierSystemAssumption DEF CanBuild, KeepIsFraction
  <2>2. share \in Int /\ share < EstablishmentSize
    <3> DEFINE a == s.keep[1]
               b == s.keep[2]
    <3> HIDE DEF a, b
    <3>1. a \in Int /\ b \in Int /\ 0 < a /\ a < b
      BY <2>1 DEF a, b
    <3>2. (EstablishmentSize * a) \div b \in Int /\ (EstablishmentSize * a) \div b < EstablishmentSize
      BY <2>1, <3>1, ShareIsLess
    <3> QED
      BY <3>2 DEF a, b
  <2>3. Truncate(Establishment(v, request), s.keep).kept = IF share > 1 THEN share ELSE 1
    BY DEF Truncate, Establishment
  <2> HIDE DEF share
  <2> QED
    BY <2>1, <2>2, <2>3
<1> QED
  BY <1>1, <1>2, <1>3, <1>4

(* An mdoc that was told of the handover has a verifier's session.         *)
LEMMA SameSession ==
    ASSUME NEW v, NEW s, IsEngagement(s.engagement), s.nfc = Touched[s.engagement]
    PROVE  IsoSession(s.engagement, v).skReader = Session(v, s).skReader
<1> DEFINE de == s.engagement
           handover == IF Touched[de] = Absent THEN Absent ELSE <<Touched[de], Absent>>
<1>1. EDeviceKey(de) = de.coseKey.point /\ ResolveHandover(s.nfc) = handover
  BY DEF IsEngagement, EDeviceKey, CoseKeyToPublicKey, ResolveHandover
<1>2. Session(v, s).skReader = SkReader({v, EDeviceKey(de)}, <<de.raw, v, ResolveHandover(s.nfc)>>)
  BY SessionIs
<1>3. IsoSession(de, v).skReader = SkReader({v, de.coseKey.point}, <<de.raw, v, handover>>)
  BY IsoSessionIs
<1> QED
  BY <1>1, <1>2, <1>3

(* What a setting of a process is known to be.                             *)
LEMMA SettingIs ==
    ASSUME IInv, NEW v \in Verifiers, setting[v] # Absent
    PROVE  /\ setting[v] \in Settings /\ CanBuild(setting[v])
           /\ sent[v] = Message(v, setting[v])
           /\ sent[v].kind = "establishment" /\ sent[v].readerKey = v
           /\ sent[v].data.key = Session(v, setting[v]).skReader
           /\ sent[v].data.iv = <<"reader", 1>>
<1>1. setting[v] \in Settings /\ CanBuild(setting[v]) /\ sent[v] = Message(v, setting[v])
  BY DEF IInv, Prepared
<1> QED
  BY <1>1, MessageIs
-----------------------------------------------------------------------------
(* Reader and mdoc, each deriving its keys on its own, read one another    *)
(* (crypto.py:71; cli.py:162-204).                                         *)
THEOREM BothSidesAgree == Spec => []SidesAgree
<1>1. IInv => SidesAgree
  <2> SUFFICES ASSUME IInv, NEW v \in Verifiers, setting[v] # Absent, setting[v].command = "read",
                      setting[v].nfc = Touched[setting[v].engagement]
               PROVE  /\ Understood(setting[v].engagement, sent[v]) = 0
                      /\ \A m \in air : m.kind = "data" /\ m.data.text.answers = sent[v] /\ m.data.text.nth = 1 =>
                            Plaintext(v, m) = m.data.text
    BY DEF SidesAgree
  <2> DEFINE s == setting[v]
             de == s.engagement
  <2>1. /\ s \in Settings /\ CanBuild(s) /\ sent[v] = Message(v, s)
        /\ sent[v].kind = "establishment" /\ sent[v].readerKey = v
        /\ sent[v].data.key = Session(v, s).skReader /\ sent[v].data.iv = <<"reader", 1>>
    BY SettingIs
  <2>2. IsoSession(de, v).skReader = Session(v, s).skReader
    BY <2>1, SameSession DEF CanBuild
  <2>3. /\ sent[v].kept = EstablishmentSize /\ sent[v].data.intact
        /\ sent[v].data.text = DeviceRequest(s.request)
    BY <2>1, ContentIs
  <2>4. Understood(de, sent[v]) = 0
    <3>1. Decrypt(IsoSession(de, sent[v].readerKey).skReader, <<"reader", 1>>, sent[v].data) = DeviceRequest(s.request)
      BY <2>1, <2>2, <2>3 DEF Decrypt
    <3>2. DeviceRequest(s.request) # Absent /\ DeviceRequest(s.request).kind = "request"
      BY <2>1, PlaintextAssumption DEF DeviceRequest
    <3> QED
      BY <2>3, <3>1, <3>2 DEF Understood
  <2>5. ASSUME NEW m \in air, m.kind = "data", m.data.text.answers = sent[v], m.data.text.nth = 1
        PROVE  Plaintext(v, m) = m.data.text
    <3>1. ~IsSent(m)
      BY <2>5, SettingIs DEF IsSent
    <3>2. IsAnswer(m)
      BY <2>5, <3>1 DEF IInv, Told
    <3>3. PICK other \in Mdocs, n \in 1..2, e \in air :
            /\ Understood(other, e) = 0
            /\ m.data.intact /\ m.data.iv = <<"mdoc", n>>
            /\ m.data.key = IsoSession(other, e.readerKey).skDevice
            /\ m.data.text.answers = e /\ m.data.text.nth = n
      BY <3>2 DEF IsAnswer
    <3>4. e = sent[v] /\ n = 1
      BY <2>5, <3>3
    <3>5. Decrypt(IsoSession(other, v).skReader, <<"reader", 1>>, sent[v].data) # Absent
      BY <2>1, <3>3, <3>4 DEF Understood
    <3>6. IsoSession(other, v).skReader = Session(v, s).skReader
      BY <2>1, <3>5 DEF Decrypt
    <3>7. m.data.key = Session(v, s).skDevice
      BY <2>1, <3>3, <3>4, <3>6, OneKeyGivesTheOther
    <3> QED
      BY <3>3, <3>4, <3>7 DEF Plaintext, DecryptDeviceMessage, Decrypt, GcmIv
  <2> QED
    BY <2>4, <2>5
<1> QED
  BY <1>1, Inductive, PTL

(* Each message scenario of fuzz spoils what it says it spoils, for every  *)
(* size and fraction (fuzz.py:84-121).                                     *)
THEOREM ScenariosSpoil == Spec => []ScenarioSpoils
<1>1. IInv => ScenarioSpoils
  <2> SUFFICES ASSUME IInv, NEW v \in Verifiers, setting[v] # Absent, setting[v].command # "read"
               PROVE  /\ printed[v] = Absent
                      /\ setting[v].nfc = Touched[setting[v].engagement] =>
                            Understood(setting[v].engagement, sent[v])
                                = IF setting[v].command = "corrupt-ciphertext" THEN 10 ELSE 11
    BY DEF ScenarioSpoils
  <2> DEFINE s == setting[v]
             de == s.engagement
             text(mdoc) == Decrypt(IsoSession(mdoc, v).skReader, <<"reader", 1>>, sent[v].data)
  <2>1. /\ s \in Settings /\ CanBuild(s) /\ sent[v] = Message(v, s) /\ sent[v].readerKey = v
        /\ sent[v].data.key = Session(v, s).skReader /\ sent[v].data.iv = <<"reader", 1>>
    BY SettingIs
  <2>2. s.command \in {"garbage-cbor-request", "corrupt-ciphertext", "truncated-session-establishment"}
    BY <2>1, VerifierSystemAssumption DEF Commands
  <2>3. Garbage # Absent /\ Garbage.kind = "garbage"
    BY PlaintextAssumption DEF Garbage
  <2>4. s.command = "garbage-cbor-request" =>
           /\ sent[v].kept = EstablishmentSize /\ sent[v].data.intact
           /\ \A mdoc : text(mdoc) \in {Absent, Garbage}
    BY <2>1, ContentIs DEF Decrypt
  <2>5. s.command = "corrupt-ciphertext" =>
           sent[v].kept = EstablishmentSize /\ \A mdoc : text(mdoc) = Absent
    BY <2>1, ContentIs DEF Decrypt
  <2>6. s.command = "truncated-session-establishment" => sent[v].kept # EstablishmentSize
    BY <2>1, ContentIs
  <2>7. ASSUME NEW mdoc PROVE Understood(mdoc, sent[v]) # 0
    BY <2>1, <2>2, <2>3, <2>4, <2>5, <2>6 DEF Understood
  <2>8. printed[v] = Absent
    BY <2>7 DEF IInv, Answered
  <2>9. ASSUME s.nfc = Touched[de]
        PROVE  Understood(de, sent[v]) = IF s.command = "corrupt-ciphertext" THEN 10 ELSE 11
    <3>1. IsoSession(de, v).skReader = Session(v, s).skReader
      BY <2>1, <2>9, SameSession DEF CanBuild
    <3>2. s.command = "garbage-cbor-request" => text(de) = Garbage
      BY <2>1, <3>1, ContentIs DEF Decrypt
    <3> QED
      BY <2>1, <2>2, <2>3, <2>4, <2>5, <2>6, <3>2 DEF Understood
  <2> QED
    BY <2>8, <2>9
<1> QED
  BY <1>1, Inductive, PTL
=============================================================================
