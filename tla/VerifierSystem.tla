--------------------------- MODULE VerifierSystem ---------------------------
(***************************************************************************)
(* Several verifiers and mdocs within one radio's reach.  Each verifier is *)
(* a process of `read` or of a message scenario of `fuzz`: it derives its  *)
(* session from an engagement (cli._setup_session), sends one message and  *)
(* judges one answer.  fuzz.py:16 has two of them race on one engagement.  *)
(*                                                                         *)
(* An exchange is what both transports give at worst: it fails, or returns *)
(* any message that was on the air, of whoever and for whomever, or noise  *)
(* (a torn message).  An mdoc is external: it answers whatever it can read *)
(* as the tests' fake mdoc does, once or more, possibly with documents not *)
(* asked for or with a signature it made in another session.               *)
(***************************************************************************)
EXTENDS Engagement, Integers, FiniteSets

CONSTANTS Verifiers,          \* the processes
          Settings,           \* what a process is started with: [command, engagement,
                              \* nfc (the handover given, or Absent), mode, request, keep]
          Mdocs,              \* the engagements, read by whoever is near
          Touched,            \* [Mdocs -> what was exchanged over NFC, or Absent for QR]
          EstablishmentSize,  \* the bytes of a SessionEstablishment
          MaxReplies          \* bound: the answers mdocs give

Commands == {"read", "garbage-cbor-request", "corrupt-ciphertext", "truncated-session-establishment"}

ASSUME VerifierSystemAssumption ==
    /\ EstablishmentSize \in Nat \ {0, 1} /\ MaxReplies \in Nat
    /\ Absent \notin Settings
    /\ \A s \in Settings :
          /\ s.command \in Commands /\ s.mode \in {"auto", "central", "peripheral"}
          /\ s.keep[1] \in Int /\ s.keep[2] \in Int

VARIABLES pc,       \* [Verifiers -> "setup", "exchange", "answer" or "done"]
          setting,  \* [Verifiers -> its setting, Absent before]
          sent,     \* [Verifiers -> the message it sends, Absent before it is built]
          air,      \* the messages that have been on the air
          printed,  \* [Verifiers -> the response it printed, or Absent]
          exit      \* [Verifiers -> "running", "ok" (0), "reported" (1), "traceback"]

vars == <<pc, setting, sent, air, printed, exit>>

Init ==
    /\ pc = [v \in Verifiers |-> "setup"] /\ exit = [v \in Verifiers |-> "running"]
    /\ setting = [v \in Verifiers |-> Absent] /\ sent = [v \in Verifiers |-> Absent]
    /\ printed = [v \in Verifiers |-> Absent] /\ air = {}

Leave(v, how) == pc' = [pc EXCEPT ![v] = "done"] /\ exit' = [exit EXCEPT ![v] = how]
-----------------------------------------------------------------------------
(* A verifier's session.  Every process draws a key pair of its own.       *)
StaticKey(v) == "static"
FreshKey(v)  == v

ResolveHandover(nfc) == IF nfc = Absent THEN Absent ELSE <<nfc, Absent>>

Session(v, s) ==
    LET de         == s.engagement
        transcript == BuildSessionTranscript(de.raw, FreshKey(v), ResolveHandover(s.nfc))
        zab        == Agreed(FreshKey(v), EDeviceKey(de))
    IN  [transcript |-> transcript,
         skReader |-> SkReader(zab, transcript), skDevice |-> SkDevice(zab, transcript)]

Establishment(key, ciphertext) ==
    [kind |-> "establishment", readerKey |-> key, data |-> ciphertext, kept |-> EstablishmentSize]

DeviceRequest(request) == [kind |-> "request", wants |-> request]

Garbage == [kind |-> "garbage"]

ASSUME PlaintextAssumption ==
    Absent # Garbage /\ \A s \in Settings : Absent # DeviceRequest(s.request)

CorruptNothing(ciphertext)    == ciphertext
CorruptCiphertext(ciphertext) == [ciphertext EXCEPT !.intact = FALSE]

(* --keep-fraction is the quotient of the pair.                            *)
KeepIsFraction(keep) == 0 < keep[1] /\ keep[1] < keep[2]

Truncate(message, keep) ==
    LET share == (message.kept * keep[1]) \div keep[2]
    IN  [message EXCEPT !.kept = IF share > 1 THEN share ELSE 1]

Message(v, s) ==
    LET encrypted(text) == EncryptReaderMessage(Session(v, s).skReader, 1, text)
        request         == encrypted(DeviceRequest(s.request))
    IN  CASE s.command = "read" -> Establishment(FreshKey(v), request)
          [] s.command = "garbage-cbor-request" -> Establishment(FreshKey(v), encrypted(Garbage))
          [] s.command = "corrupt-ciphertext" -> Establishment(FreshKey(v), CorruptCiphertext(request))
          [] s.command = "truncated-session-establishment" ->
                 Truncate(Establishment(FreshKey(v), request), s.keep)

(* parse, _resolve_mode and, for fuzz, _require_peripheral_mode: a mode    *)
(* that is not to be had is reported, an engagement that cannot be read    *)
(* and a fraction that is none are tracebacks.                             *)
CanBuild(s) ==
    /\ IsEngagement(s.engagement)
    /\ s.command = "truncated-session-establishment" => KeepIsFraction(s.keep)

Role(s) == ResolveMode(s.mode, s.engagement)

CanUse(role, command) == role # Absent /\ (command # "read" => role = "server")

Prepare(v) ==
    /\ pc[v] = "setup"
    /\ \E s \in Settings :
        /\ CanBuild(s) /\ CanUse(Role(s), s.command)
        /\ setting' = [setting EXCEPT ![v] = s] /\ sent' = [sent EXCEPT ![v] = Message(v, s)]
    /\ pc' = [pc EXCEPT ![v] = "exchange"]
    /\ UNCHANGED <<air, printed, exit>>

CannotPrepare(v) ==
    /\ pc[v] = "setup"
    /\ \E s \in Settings :
        \/ IsEngagement(s.engagement) /\ ~CanUse(Role(s), s.command) /\ Leave(v, "reported")
        \/ /\ ~CanBuild(s) /\ (IsEngagement(s.engagement) => CanUse(Role(s), s.command))
           /\ Leave(v, "traceback")
    /\ UNCHANGED <<setting, sent, air, printed>>
-----------------------------------------------------------------------------
(* The exchange: the message goes out, an answer comes or the exchange     *)
(* fails, as in ReadSession and FuzzSession.                               *)
Transmit(v) ==
    /\ pc[v] = "exchange"
    /\ air' = air \cup {sent[v]}
    /\ pc' = [pc EXCEPT ![v] = "answer"]
    /\ UNCHANGED <<setting, sent, printed, exit>>

ExchangeFails(v) ==
    /\ pc[v] \in {"exchange", "answer"}
    /\ \E how \in {"reported", "traceback"} : Leave(v, how)
    /\ UNCHANGED <<setting, sent, air, printed>>

Heard == air \cup {[kind |-> "noise"]}

(* A SessionEstablishment is a map with data too.                          *)
HasData(m) == m.kind = "data" \/ (m.kind = "establishment" /\ m.kept = EstablishmentSize)

Plaintext(v, m) == DecryptDeviceMessage(Session(v, setting[v]).skDevice, 1, m.data)

(* DeviceAuth and validate_device_response, which fuzz leaves out.         *)
Verified(v, response) ==
    /\ response.signedFor = Session(v, setting[v]).transcript
    /\ response.documents = setting[v].request

GetStatus(v) ==
    /\ pc[v] = "answer"
    /\ \E m \in Heard : m.kind = "status"
    /\ Leave(v, IF setting[v].command = "read" THEN "reported" ELSE "ok")
    /\ UNCHANGED <<setting, sent, air, printed>>

(* No CBOR map, or a failed decryption.                                    *)
Unreadable(v, m) == m.kind # "status" /\ (HasData(m) => Plaintext(v, m) = Absent)

GetUnreadable(v) ==
    /\ pc[v] = "answer"
    /\ \E m \in Heard : Unreadable(v, m)
    /\ Leave(v, "traceback")
    /\ UNCHANGED <<setting, sent, air, printed>>

GetUnverified(v) ==
    /\ pc[v] = "answer" /\ setting[v].command = "read"
    /\ \E m \in Heard : HasData(m) /\ Plaintext(v, m) # Absent /\ ~Verified(v, Plaintext(v, m))
    /\ Leave(v, "reported")
    /\ UNCHANGED <<setting, sent, air, printed>>

GetResponse(v) ==
    /\ pc[v] = "answer"
    /\ \E m \in Heard :
        /\ HasData(m) /\ Plaintext(v, m) # Absent
        /\ setting[v].command = "read" => Verified(v, Plaintext(v, m))
        /\ printed' = [printed EXCEPT ![v] = Plaintext(v, m)]
    /\ Leave(v, "ok")
    /\ UNCHANGED <<setting, sent, air>>
-----------------------------------------------------------------------------
(* The mdoc, with the session as ISO/IEC 18013-5 has it.                   *)
IsoSession(de, key) ==
    LET zab        == {key, de.coseKey.point}
        transcript == <<de.raw, key, IF Touched[de] = Absent THEN Absent ELSE <<Touched[de], Absent>>>>
    IN  [transcript |-> transcript,
         skReader |-> <<"SKReader", zab, transcript>>, skDevice |-> <<"SKDevice", zab, transcript>>]

(* What it makes of a message: 11 is a CBOR error, 10 a decryption error.  *)
Understood(de, m) ==
    LET text == Decrypt(IsoSession(de, m.readerKey).skReader, <<"reader", 1>>, m.data)
    IN  IF m.kept # EstablishmentSize THEN 11
        ELSE IF text = Absent THEN 10
        ELSE IF text.kind # "request" THEN 11 ELSE 0

Reply(m) ==
    /\ Cardinality({n \in air : n.kind \in {"data", "status"}}) < MaxReplies
    /\ air' = air \cup {m}
    /\ UNCHANGED <<pc, setting, sent, printed, exit>>

(* 20: the holder declines.                                                *)
MdocRefuses(de) ==
    \E m \in air : m.kind = "establishment"
        /\ Reply([kind |-> "status", status |-> IF Understood(de, m) = 0 THEN 20 ELSE Understood(de, m)])

(* The n-th message of a session is encrypted with counter n.              *)
MdocAnswers(de) ==
    \E m \in air : \E n \in 1..2 :
        /\ m.kind = "establishment" /\ Understood(de, m) = 0
        /\ \E documents \in {s.request : s \in Settings} :
           \E other \in {e \in air : e.kind = "establishment"} :
              Reply([kind |-> "data",
                     data |-> Encrypt(IsoSession(de, m.readerKey).skDevice, <<"mdoc", n>>,
                                      [documents |-> documents, nth |-> n, answers |-> m,
                                       signedFor |-> IsoSession(de, other.readerKey).transcript])])
-----------------------------------------------------------------------------
Next ==
    \/ \E v \in Verifiers :
          \/ Prepare(v) \/ CannotPrepare(v) \/ Transmit(v) \/ ExchangeFails(v)
          \/ GetStatus(v) \/ GetUnreadable(v) \/ GetUnverified(v) \/ GetResponse(v)
    \/ \E de \in Mdocs : MdocRefuses(de) \/ MdocAnswers(de)

Spec == Init /\ [][Next]_vars
-----------------------------------------------------------------------------
(* Among the types: the exchange that is chosen has its UUID, as cli.py    *)
(* asserts (cli.py:214, 223).                                              *)
TypeOK ==
    \A v \in Verifiers :
        /\ pc[v] \in {"setup", "exchange", "answer", "done"}
        /\ exit[v] \in {"running", "ok", "reported", "traceback"}
        /\ exit[v] = "running" <=> pc[v] # "done"
        /\ setting[v] \in Settings \cup {Absent} /\ (setting[v] = Absent => sent[v] = Absent)
        /\ setting[v] # Absent => Uuid(Role(setting[v]), setting[v].engagement) # Absent
        /\ pc[v] = "answer" => sent[v] \in air

(* A verifier prints nothing but the first answer that the mdoc of its     *)
(* engagement made to the message of this very process, however many of    *)
(* them race; `read` prints it only if it has what was asked for and was   *)
(* signed for its session (cli.py:170-175, 247-250).                       *)
OwnSession ==
    \A v \in Verifiers : printed[v] # Absent =>
        /\ printed[v].answers = sent[v] /\ printed[v].nth = 1
        /\ setting[v].command = "read" =>
              /\ printed[v].documents = setting[v].request
              /\ printed[v].signedFor[1] = setting[v].engagement.raw
              /\ printed[v].signedFor[2] = sent[v].readerKey

(* The two sides agree on the session: an mdoc that was told of the same   *)
(* handover reads the request of `read`, and its first answer is read in   *)
(* turn (cli.py:162-204; tests/test_cli_read.py).                          *)
SidesAgree ==
    \A v \in Verifiers :
        setting[v] # Absent /\ setting[v].command = "read" /\ setting[v].nfc = Touched[setting[v].engagement] =>
            /\ Understood(setting[v].engagement, sent[v]) = 0
            /\ \A m \in air : m.kind = "data" /\ m.data.text.answers = sent[v] /\ m.data.text.nth = 1 =>
                  Plaintext(v, m) = m.data.text

(* Each message scenario spoils what it says: no mdoc finds a request in   *)
(* it, and each refuses with the status that the tests expect of a real    *)
(* one, so nothing is ever printed (fuzz.py:84-121; cli.py:361).           *)
ScenarioSpoils ==
    \A v \in Verifiers : setting[v] # Absent /\ setting[v].command # "read" =>
        /\ printed[v] = Absent
        /\ setting[v].nfc = Touched[setting[v].engagement] =>
              Understood(setting[v].engagement, sent[v])
                  = IF setting[v].command = "corrupt-ciphertext" THEN 10 ELSE 11
=============================================================================
