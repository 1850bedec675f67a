# Formal models of siros-verify

`siros-verify` is a command line verifier for ISO/IEC 18013-5 mobile documents
("mdocs"): it takes a QR or NFC engagement, talks to a phone over Bluetooth Low
Energy, decrypts and verifies what the phone answers, may put each document to a
policy decision point (PDP), and prints the claims. This directory holds TLA+
modules translated from `src/src/siros_verifier/`, TLC configurations that check
them on small instances, and proofs for every instance that TLAPS checks.
`PROJECT.json` maps every definition to the lines it stands for.

Paths below such as `ble.py:134` are relative to `src/src/siros_verifier/`.

## The system

| Component | State | Operations | Correct when |
|---|---|---|---|
| Framing (`ble.py:31-77`) | `Reassembler._buffer` | choose a chunk size, cut a message, feed a chunk | chunks fit the link; messages arrive whole and in order; nothing of one is left for the next |
| Central exchange (`ble.exchange`) | place in the coroutine, GATT connection, `response_future`, Reassembler | scan, connect, subscribe, write, wait with a timer, end, disconnect; notification callback | it ends, with the first complete message or a failure; the mdoc does not revise the verdict; it sees the session in order, and its end is tried; nothing stays connected unless the disconnection fails |
| Peripheral exchange (`ble_peripheral.exchange`) | GATT server, two futures, Reassembler | set up and start the server, wait for STATE_START, notify, wait, stop; write callback | as above, and it answers only when asked; the server is stopped on every way out |
| DeviceResponse verification (`mdoc.py`, `verify.py`) | none | parse, verify issuer and device signatures, MACs and digests, validate | what passes is attested by the issuer, presented by the holder's device in this session, in force, and what was asked for |
| `read` (`cli.run_read`) | place in the coroutine, response, output buffer, exit status | exchange, decrypt, check, authorize, render, print | nothing unverified is printed or shown to the PDP; all documents or none |
| PDP client (`trust.py`) | none between calls | build a request, POST it, read the decision; one per document | one explicit permit per document; refusal is final; bounded wait |
| `fuzz`, transport scenarios (`ble.py:162-248`, `cli.py:369-412`) | connection, results per cycle | drop a transfer, connect and leave, reconnect many times | the transfer is not completed; every cycle is reported; the scenario ends |
| `fuzz`, message scenarios (`cli.py:312-367`, `fuzz.py`) | as `read`, less | send a spoilt request, report the answer | what is sent is really spoilt; the exit status tells what came back |
| Session cryptography (`crypto.py`) | none | key agreement, HKDF, AES-GCM, COSE keys | both sides derive the same keys; nothing of another session is read |
| Engagement and mode (`engagement.py`, `cli.py:54-110`) | none | decode, choose the transport | an exchange is started only with the UUID of its mode |
| Issuer identifier (`trust.py:44-124`) | none | walk DER, select a SAN, or hash | exactly DER is accepted; the identifier does not depend on names after the deciding one |
| QR helpers (`qr.py`) | open cameras | poll cameras until a deadline, render | cameras are released on every way out; none starves another |
| Request options (`cli.py:34-51`, `mdoc.py:59-65`) | none | merge, encode | what is asked for is what the options mention |
| Rendering (`display.py`, `cli.py:423-478`) | none | text and JSON | no value hidden by another |

Interaction: `run_read` prepares the request, calls one of the two exchanges and
then works on its result alone, suspending only in the requests to the PDP. Each
exchange is one coroutine; the event loop runs its Bluetooth callback whenever the
coroutine is suspended. They share a future and nothing else. `fuzz` uses
`ble.exchange` for spoilt messages and transports of its own for broken ones.
Several processes may run side by side, against one phone or several; they share
nothing but the air.

What is hard here: callbacks that come before, between and after the steps of the
coroutine; a timer racing an answer; a phone that hangs up in the middle of
anything; clean-up that fails while an error is on its way; Ctrl-C at any await;
time passing between check and use; partial refusal by the PDP; boundaries of the
chunking; and verification results with three values. The list with lines is in
`PROJECT.json` under `hazards`.

## The modules

| Module | Models | Builds on |
|---|---|---|
| `Framing` | chunk size, `chunk_message` in closed form, one step of `Reassembler.feed` | |
| `FramingLoop` | the loop of `chunk_message`, a sender, a Reassembler | `Framing` |
| `ExchangeContract` | abstract: what an exchange promises its caller | |
| `BleCentral` | `ble.exchange`; refines `ExchangeContract` | `Framing` |
| `BlePeripheral` | `ble_peripheral.exchange` | `Framing` |
| `DeviceResponse` | parser, COSE checks, `verify_device_auth`, `validate_device_response`, as operators; and `Genuine`, what a disclosure should be, said without them | |
| `DisclosureGate` | abstract: what `read` promises about disclosure | |
| `ReadSession` | `run_read` from the exchange on, `authorize_documents`; refines `DisclosureGate` | `DeviceResponse` |
| `FuzzTransport` | the three transport scenarios | `Framing` |
| `FuzzSession` | the three message scenarios | `DeviceResponse` |
| `PdpClient` | `authorize_documents` and `evaluate_request`: reading a reply piece by piece, deciding; refines `DisclosureGate` | |
| `SessionCrypto` | `crypto.py`, idealised, as operators | |
| `Engagement` | `engagement.parse`, `_resolve_mode`, as operators | `SessionCrypto` |
| `VerifierSystem` | several processes of `read` and `fuzz` (`_setup_session`, `fuzz.py`, decryption) and several phones on one air | `Engagement` |
| `CameraScan` | `qr.scan_camera` | |
| `IssuerId` | the DER traversal and `mdoc_issuer_id`, as functions | |
| `DocRequests` | `parse_requests` and `build_device_request`, as operators | |
| `JsonRender` | `to_jsonable`, as a function on nested values | |
| `Algorithms` | what the last three should compute, of any input | `IssuerId`, `DocRequests`, `JsonRender` |
| `MCAlgorithms` | grows inputs for the last four | `Algorithms` |
| `MCResponses` | the answers an mdoc may give, for TLC | `DeviceResponse` |
| `MC...` | constants for TLC | the module named |
| `...Proofs` | theorems | the module named |

How they correspond to the code:

- *Coroutines.* `pc` names the await at which the coroutine is suspended; an action
  is the stretch from there to the next await, with every early return and every
  exception of it. Code without an await in it is one action. `Interrupt` is the
  cancellation that Ctrl-C brings about under `asyncio.run`; it is delivered once,
  at the await where the task is, and runs the `finally` blocks that enclose that
  await. A second Ctrl-C kills the process; it is modelled only where an error of the
  clean-up has replaced the cancellation.
- *Callbacks* (`OnServer2Client`, `MdocWrites...`) are actions of their own,
  enabled at every await.
- *Timers* may fire at any time while their await is pending, also when the future
  has been resolved in the same turn of the event loop. `asyncio.wait_for` of
  Python 3.12 and later then raises TimeoutError and an answer that was complete is
  dropped; earlier versions return it. Both are in the models (`WaitTimeout`,
  `WaitResult`).
- *The mdoc, the radio, bleak, bless and the PDP* are external, and modelled by what
  the code relies on: any operation of bleak may raise, on a live connection too, and
  writes to a dropped one do; leaving `async with` disconnects, and that may raise as
  well, with the connection closed or still up. Their actions are unconstrained by
  fairness.
- *Clean-up that fails* has three forms in `BleCentral`, as it has in the code. A
  BleakError of STATE_END is swallowed (`ble.py:141-144`) and leaves its trace in the
  history `endFailed`. Any other exception of it, and any exception of the disconnection
  (`ble.py:122`), replaces what was on its way: the outcomes `end_error` and
  `close_error`. `BlePeripheral!Stop` and `FuzzTransport!Leave` may fail likewise.
- *Data.* A message is a sequence of numbers, the prefix byte of a chunk is the
  boolean `last`; only cutting and concatenation matter. In `DeviceResponse`
  cryptography is ideal: a signature or MAC is a record of the key it was made with
  and of what it covers, an item is its own digest, and `Absent` is Python's `None`,
  so that checks that were "not attempted" stay distinct from failed ones. The many
  type and length tests of the parser that raise the same error are one flag,
  `wellShaped`.
- *Sessions* in `VerifierSystem`: a derived key is the list of what it is derived
  from, a ciphertext opens only under its own key and IV. What has been on the air
  stays there and may come to anyone, later, as noise, or not at all; that covers what
  either exchange can return, a torn message before the next one included. The
  phones compute their side of the session from ISO/IEC 18013-5, not from
  `crypto.py`. An answer carries, for the properties alone, which message it answers
  and as what number.
- *The PDP's replies* in `PdpClient` are a status, an announced length or none, a
  size, and what the body says when read whole and when cut off; the size is in
  bytes because the limit is.
- *Cameras.* `scan_camera` has no await, and in `qr scan` Ctrl-C is an exception between
  any two bytecodes (`Interrupt`). Inside `read`, asyncio takes the first Ctrl-C and
  cancels the task at its next await, after the scan; `CameraScan` covers both.
- *DER* is walked over bytes 0 to `Base - 1`, with lengths from `HighBit` on in long
  form, instead of 256 and 128; tags keep their three sorts (refused, primitive,
  constructed).
- *Decoded values* in `JsonRender` are atoms, lists and maps. They are finite trees: a
  constant says which there are and how deep each is nested, and the parts of a value
  are less deep than it. A key is its type and the text that `safe_text` makes of it.
- *Time* in `ReadSession` is a clock of ticks that advances only where the coroutine
  is suspended.

`FramingLoop!LoopIsClosedForm`, checked and proved, is why the transports may use
`ChunkMessage` where the code runs the loop. `BleCentral` implementing
`ExchangeContract` is why `ReadSession` may treat an exchange as a step that ends
with some message or fails. `BlePeripheral` does not implement that contract: see
below. `PdpClient` implements `DisclosureGate` with the PDP as judge of each
document, which is why `ReadSession` may treat a request to the PDP as one wait that
ends in a permit or in something else. `VerifierSystem` is why `ReadSession` may
take for granted that what it decrypted was made for its own session's keys.

## The runs

| Run | Question | Bounds |
|---|---|---|
| `framing_loop` | Does the loop compute the closed form, do chunks fit, do messages arrive whole? | messages of 0 to 5 bytes, two in a row, chunk sizes 2 to 4 from MTUs 3 to 8 |
| `ble_central` | Is the first complete message returned whatever the mdoc does, and the contract implemented? | request of 2 or 3 chunks; 2 messages of 1 or 2 chunks; 1 empty notification; a failure of every operation, one loss of the link, one Ctrl-C |
| `ble_peripheral` | The same for the other role, with mdocs that leave and return | request of 2 chunks; 2 connections; 3 messages |
| `read_session` | Does anything unverified, unpermitted or partial get out, and does `read` implement `DisclosureGate`? | some 130 answers to a request of two document types: a genuine one, and one with one thing wrong at each place the code looks at, in first or last position; PDP timeout of 2 ticks, up to 3 documents |
| `fuzz_transport` | Is a dropped transfer never completed, and every cycle reported? | 1 to 4 chunks; fractions below 0 to above 1; 4 cycles |
| `fuzz_session` | Are claims printed whole or not at all? | the answers of `read_session` |
| `pdp_client` | Is a document cleared only by an explicit permit read to its end, and none refused without a cause? | limit of 4 bytes read by 3; bodies of 0 to 6 bytes, announced or not; 10 texts; up to 2 documents |
| `verifier_system` | Do sessions keep apart, do both sides agree, is what is spoilt spoilt? | 2 processes; 3 phones (QR with both modes, QR with one, NFC); 2 answers; 4 odd engagements |
| `camera_scan` | Are cameras released, and none starved? | 3 indices; timeouts of 0, 4 and 5 ticks; reads of 1 or 2 ticks |
| `algorithms` | Do the pure parts compute what they should? | 9 bytes of DER in base 5; 2 extensions with 3 names; 3 options; maps of 3 entries, in which there are lists and maps of 2 |
| `fuzz_never_completes` | (violated) Is no dropped transfer ever completed? | as `fuzz_transport` |
| `fuzz_fail_closed` | (violated) Are only verified claims printed? | as `fuzz_session` |

Why the bounds are enough. Two messages are needed for a late or repeated answer and a
third for one after a broken one; two chunks for a message to be in the middle of; two
connections for one that finds the remains of another. Chunk sizes of 2 to 4 with
messages up to 5 meet every remainder, a message that just fits, and one byte more and
less; the clamps of the chunk size lie inside the range of MTUs. Bytes of different
messages differ, so that a mixture shows. One defect per answer is enough for the checks
of one document, as they are a disjunction of reasons; a second document shows that one
bad document stops all. The properties that are proved do not depend on the bounds at
all. A limit of 4 with pieces of up to 3 lets a body stay below it, meet it, and pass it
by one and by two, in pieces that end at the limit and pieces that do not. Two processes
and two answers are enough for an answer to go astray, to be repeated, and to be signed
for the other session; the processes are interchangeable (`SYMMETRY`). Nine bytes of DER
in base 5, with lengths from 2 on in long form, hold constructed items in constructed
items, and whole items with long-form lengths of one and two bytes, minimal and not.
Three names put one before and one after the deciding one. The bounds are named
constants (`MaxMessages`, `MaxEmpty`, `MaxVisits`, `MaxReplies`, `ExchangeTime`,
`ReadTime`, `Cycles`, `MaxData`, `MaxNames`, `MaxSpecs`, `MaxEntries`) or follow from
the sets the MC modules define. `CHECK_DEADLOCK FALSE` everywhere: all of these programs
end, and an input of `algorithms` stops growing.

Fairness. Only the coroutine is assumed to make progress (`WF_vars(Coroutine)`,
`WF_vars(Progress)`, `WF_vars(Client)`): each of its awaits is bounded, by
`scan_timeout`, bleak's connection timeout, `response_timeout`, `advertise_timeout`, the
PDP's total timeout, or the local Bluetooth stack, and the event loop resumes a
coroutine whose await is over. Nothing is assumed of the phone, of the delivery of a
notification, or of the PDP. `FramingLoop` has no waits. `VerifierSystem`, `CameraScan`
and `MCAlgorithms` assume no fairness and check safety only.

### What the runs show of the code

Two statements of the documentation do not hold:

- `drop-mid-chunk` is to disconnect "instead of sending the final chunk" and send
  "always at least one short of the full set" (`ble.py:169-175`). A request that fits
  one chunk is sent completely (`ble.py:184`): `NeverCompletes` is violated. A chunk
  carries up to 511 bytes of it, which a short request fits. `TailDropped` is what
  holds: transfers of several chunks are never completed.
- "Any ... failure exits nonzero without printing claims" (`README.md:165`). The
  message scenarios of `fuzz` print the claims of any response that parses, without
  DeviceAuth or validation, and exit 0 (`cli.py:361-367`): `FailClosed` is violated.

And two behaviours are stated as they are. In the central role an answer that has been
received, or a TimeoutError, is lost if the disconnection then raises, or if STATE_END
raises something that is no BleakError: nothing catches the exception, and the caller sees
that one. `BleCentral!VerdictStands` and `BleCentral!LeavesNothingOpen` name these cases
beside Ctrl-C, and that there are no others is checked and proved. The comment at
`ble.py:136-140` speaks of the failure of STATE_END on a stale connection, a BleakError,
and there the code does what it says. And in the peripheral role the Reassembler is not
reset when an mdoc disconnects, so the first part of a message that broke off is put
before the next complete message. `BlePeripheral!ReturnsFirst` says exactly that
(`torn \o Head(completed)`); `read` then fails to decode or decrypt, and prints
nothing. Without a broken message the first complete message is returned.

## The proofs

For every value of the constants: any request, any MTU, any messages, any number of
them, any answers and requests, any timeout, any cameras, any certificate, any decoded
value. The assumptions are those named in the modules (`ChunkSizeAssumption`,
`FramingLoopAssumption`, `BleCentralAssumption`, `BlePeripheralAssumption`,
`AbsentAssumption`, `ReadSessionAssumption`, `PdpClientAssumption`,
`VerifierSystemAssumption`, `PlaintextAssumption`, `CameraScanAssumption`,
`IssuerIdAssumption`, `JsonRenderAssumption`, `AlgorithmsAssumption`); they say that
constants have their types, that chunk sizes are at least 2, that a piece of a body and
a `SessionEstablishment` have the sizes they have, that no camera is listed twice, that
decoded values are finite trees, and that "no message" is not a message. A theorem about
an input or about a module taken by `INSTANCE` states what it assumes of them itself:
that options and names of a certificate are options and names, that what is shown is a
decoded value, that `None` is no name (`AbsentIsNone`), and the types of `Request` and
`Fractions` in `TailIsDropped`, which are the assumption of `FuzzTransport`.

- **`FramingProofs`**: the closed form. The size is between 2 and the limits; the number
  of chunks is the quotient rounded up; chunks are typed and only the last is marked; a
  beginning of a message and the next chunk make a longer beginning.
- **`FramingLoopProofs`**: `TypeOK`, `ChunksFit`, `RoundTrip`, `LoopIsClosedForm`. Neither
  is inductive: that a message arrives whole depends on what the chunks cut so far
  are. The invariant `IInv` adds `Cut` (the first k chunks are the first k pieces, and
  the offset is where the last one ends) and `Fed` (what is delivered is what was sent,
  and the buffer is the message up to the chunks fed). `LoopIsClosedForm` follows
  because only one number of pieces ends exactly at the end of the message.
  `TailIsDropped` is `TailDropped` of `FuzzTransport`, for any fraction of any sign: at least
  one chunk is kept and at least one is not (`SomeAreKept`), so no chunk that is written is
  the last; `TailInv` says that what the mdoc holds ends where the last chunk written does,
  and that only drop-mid-chunk cuts anything, since the other scenarios start again.
- **`BleCentralProofs`**: `TypeOK`, `ScriptFollowed`, `LeavesNothingOpen`, and the action
  properties `ResolvedOnce` and `VerdictStands`. `IInv` adds `Sent` (how much of the
  script has been written, by `pc`), `Linked` (the connection, by `pc`; with `Ended`, that
  an answer, a timeout or a failing STATE_END reaches the disconnection only when the whole
  request was written and STATE_END tried) and `Spoken` (the mdoc notifies whole messages,
  needed to type `completed`).
  Beyond the invariants of the runs, `FirstIsHeard` and `KeepsContract`: the exchange
  returns the first message that the mdoc completes, and so every step of it is a step of
  `ExchangeContract` or changes nothing of it. The contract counts the messages that the
  mdoc has sent whole; the coroutine has a buffer, a future and a queue of notifications
  on their way. `Heard` relates them: while the future is pending, the queue is cut into
  the rest of the message in the buffer and whole messages behind it, none of which is
  complete in the buffer (`Tracked`); when the callback has taken the last chunk of one,
  the future holds the first that was completed, whatever else arrives.
- **`BlePeripheralProofs`**: `ReturnsFirst`, `AskedBeforeReturn`, `StopsServer`,
  `FuturesResolvedOnce`. `IInv` adds `Spoken` (which chunks the mdoc has still to write, and
  that until a message is complete the buffer is `torn` and the part of the message written
  so far) and `Held` (the future is pending only while nothing is complete, and holds what
  the first complete message made of the buffer). `torn` changes only while nothing is
  complete; later connections cannot touch the result.
- **`ReadSessionProofs`**: first `ChecksSuffice`. What parses and validates is `Genuine`:
  every reason absent from `DocumentErrors` is a fact about the document, and the facts
  together are the four parts of `Genuine`. There is no induction; the argument goes
  through every three-valued result, which is where a check that is "not attempted"
  would otherwise slip through. Then `TypeOK`, `NothingUnverifiedLeaves` (with `ChecksSuffice`),
  `PermittedOneByOne`, `AllOrNothing`, `BoundedStaleness`, `NoAskingAfterRefusal`. `IInv`
  adds `Vetted` (past the checks, the response validated at `checkedAt`), `Counted` (how
  many documents were asked about and permitted, by `pc`), `Printed` and `Aged` (the clock
  is at most one PDP timeout per permit, and the current wait, past `checkedAt`).
  `DisclosesThroughGate` is the safety of the refinement: every step is a step of
  `DisclosureGate` under the mapping of `ReadSession!Gate`, or changes nothing of it.
  `FuzzPrintsAllOrNothing` says the same of the output of `FuzzSession`, at any time of
  the answer.
- **`PdpClientProofs`**: `TypeOK`, `RefusedForCause`, `PermitsAreExplicit`, and
  `ClearsThroughGate`, the safety of the refinement. `IInv` adds `Placed` (the place in
  the loop over the documents, and that a cleared presentation has a permit for each) and
  `Pieced` (what has been read of a body, against its size and the limit).
- **`VerifierSystemProofs`**: `TypeOK`, `OwnSession`, `SidesAgree`, `ScenarioSpoils`, for any
  number of processes, phones and answers. `IInv` is `Prepared` (what each process has sent
  is what its setting makes), `Told` (everything on the air was sent by a process, is a
  status, or is an answer encrypted with the device key that an mdoc derived from the reader
  key of a message it could read) and `Answered`. The argument is that a key which opens an
  answer names the reader key in its transcript, which names the process; and that the
  reader key of a session that matches brings the device key with it.

- **`HelperProofs`**: the parts without Bluetooth. `RequestsMerged` and `IssuerChosen` are
  about folds over sequences of any length. The library's induction theorems cannot be
  used here, so the module starts with induction from the fact that a set of numbers has
  a least element (`LeastNumber`, `Induction`), and with what a fold is (`FoldExists`,
  `OneByOne`): a sequence of results, one per element. What has been merged, or read of the
  names, after n elements is then an invariant over n. Of `CameraScan`, `ScanReleasesCameras`
  and `ScanIsFair`, and `ReleaseFindsCamera`, that the `finally` clause finds what it
  releases. `CameraInv` says which of the cameras opened are held at each `pc`, and how many
  times each was read (`PolledTo`): as often as the others, or once more if its turn was
  already.

  `DerAccepted` is the DER traversal, for data of any length in any base with any
  tags. `DerEnds`, `Digits` and `Encodings` are recursive functions, that is, each is some
  function that satisfies its equation, if there is one. There is, as each
  turns to less only (`Contracts`, `FixpointExists`): a smaller number, fewer bytes, a
  narrower span of the data. Then `NumberOfDigits` and `DigitsOfNumber` make `Digits` the
  inverse of `FromBytes`, so that a minimal length is the one that `LengthOctets` writes;
  `ItemInData` and `ItemIsRead` say of one header that what is read is what was written; and
  `TraversalIsExact` goes by induction on the width of a span, over an item and the items
  after it, and over a constructed item and the items in it.

  `NothingLost` is `to_jsonable`, for values of any depth and maps with any keys. Three
  recursive functions have to exist for it. For `Atoms` and `JsonAtoms` that is
  `FixpointExists` again; for `ToJsonable` there is no set in which JSON could be looked
  for beforehand, so `ToJsonableIs` builds it depth by depth. `ShownParts` is the heart: what
  is shown of a value has for parts what is shown of the value's parts, all of them,
  because where no names collide the last entry of a name is the only one (`LastOfIs`).
  The rest is induction on the depth.

Only model-checked: liveness (`Arrives`, `Terminates`, `EveryCycleReported`, and the end
promised by `ExchangeContract` and `DisclosureGate`), which the prover does not reach.

## What is not modelled

- CBOR, COSE, X.509 and the primitives of `crypto.py`: libraries, idealised. Their
  encodings (`cose_key_tag`, `compute_ident`) are pure calls. `asn1crypto`, which reads a
  certificate after the DER traversal, is a flag per certificate and extension; that
  the traversal recurses once per level of nesting, and Python's limit on that, is
  left out.
- A composition of `BleCentral` or `BlePeripheral` with `ReadSession` step by step: the
  contract stands between them, as above, and `read` does nothing while it waits.
- Base64 and image decoding of an engagement; reading the NFC handover from a file.
- Two centrals connected to the peripheral-mode server at once: `on_write` does not tell
  them apart, so their chunks would mix in the one Reassembler.
- The delay between reconnect cycles; `--keep-fraction` values that are no numbers.
- HTML pages and the browser, `argparse`, dumps, logging, text output: I/O and
  formatting.

## Plan

Done, in this order: `Framing` and `FramingLoop` (everything goes through them),
`BleCentral` with its contract, `BlePeripheral`, `DeviceResponse`, `ReadSession` with its
gate, the two fuzz modules, and their proofs; then `PdpClient`, `SessionCrypto`,
`Engagement` and `VerifierSystem`, `CameraScan`, and the algorithms. No component with
state of its own is left to model.

Proved: the safety of every module with state, and all that is checked of the algorithms.
No safety property that a passing run checks is left without a theorem.
