----------------------------- MODULE CameraScan -----------------------------
(***************************************************************************)
(* qr.scan_camera: open the cameras there are, poll them in turn until one *)
(* shows a QR code or the time is up, release them.  What a camera shows,  *)
(* and how long a read takes, is up to the camera; a read takes some time. *)
(***************************************************************************)
EXTENDS Integers, Sequences, FiniteSets, SequencesExt

CONSTANTS Indices,   \* the camera indices to try, in order
          Timeouts,  \* the values of --timeout, in ticks
          ReadTime   \* bound: the ticks a read may take

ASSUME CameraScanAssumption ==
    /\ Indices \in Seq(Int) /\ IsInjective(Indices)
    /\ Timeouts \subseteq Int /\ ReadTime \in Nat \ {0}

VARIABLES pc,        \* "open", "round", "poll", "release", "done"
          probed,    \* how many of Indices have been tried
          captures,  \* the indices opened, in order
          held,      \* those that are not released
          left,      \* deadline - time.monotonic(), the timeout before polling
          at,        \* the position in captures of the camera to read
          polls,     \* history: [camera -> how often it was read]
          outcome    \* "open", "found", "not_found", "no_camera", "raised",
                     \* "interrupted", "aborted" (interrupted outside try)

vars == <<pc, probed, captures, held, left, at, polls, outcome>>

Init ==
    /\ pc = "open" /\ probed = 0 /\ captures = <<>> /\ held = {}
    /\ left \in Timeouts /\ at = 1
    /\ polls = [i \in ToSet(Indices) |-> 0] /\ outcome = "open"

Go(to, how) == pc' = to /\ outcome' = how
-----------------------------------------------------------------------------
(* A camera that cannot be opened is released at once.                     *)
Probe ==
    /\ pc = "open" /\ probed < Len(Indices)
    /\ probed' = probed + 1
    /\ \/ captures' = Append(captures, Indices[probed']) /\ held' = held \cup {Indices[probed']}
       \/ UNCHANGED <<captures, held>>
    /\ UNCHANGED <<pc, left, at, polls, outcome>>

NoCamera ==
    /\ pc = "open" /\ probed = Len(Indices) /\ captures = <<>>
    /\ Go("done", "no_camera")
    /\ UNCHANGED <<probed, captures, held, left, at, polls>>

StartPolling ==
    /\ pc = "open" /\ probed = Len(Indices) /\ captures # <<>>
    /\ pc' = "round"
    /\ UNCHANGED <<probed, captures, held, left, at, polls, outcome>>

(* The deadline is looked at between two rounds.                           *)
TimeIsLeft == left > 0

StartRound ==
    /\ pc = "round" /\ TimeIsLeft
    /\ pc' = "poll" /\ at' = 1
    /\ UNCHANGED <<probed, captures, held, left, polls, outcome>>

TimeIsUpForgotten ==
    /\ pc = "round" /\ ~TimeIsLeft
    /\ Go("done", "not_found")
    /\ UNCHANGED <<probed, captures, held, left, at, polls>>

TimeIsUp ==
    /\ pc = "round" /\ ~TimeIsLeft
    /\ Go("release", "not_found")
    /\ UNCHANGED <<probed, captures, held, left, at, polls>>

(* No frame, or no code in it; a code; an exception of OpenCV, or a code   *)
(* that is not ASCII.                                                      *)
AfterNothingBreak == pc' = "round" /\ UNCHANGED at
AfterNothing ==
    IF at < Len(captures) THEN at' = at + 1 /\ UNCHANGED pc ELSE pc' = "round" /\ UNCHANGED at

Read ==
    /\ pc = "poll"
    /\ \E t \in 1..ReadTime : left' = left - t
    /\ polls' = [polls EXCEPT ![captures[at]] = @ + 1]
    /\ \/ AfterNothing /\ UNCHANGED outcome
       \/ \E how \in {"found", "raised"} : Go("release", how) /\ UNCHANGED at
    /\ UNCHANGED <<probed, captures, held>>

(* The finally clause, camera by camera.                                   *)
Release ==
    /\ pc = "release"
    /\ held' = held \ {captures[Len(captures) - Cardinality(held) + 1]}
    /\ pc' = IF held' = {} THEN "done" ELSE "release"
    /\ UNCHANGED <<probed, captures, left, at, polls, outcome>>

(* KeyboardInterrupt may be raised at any bytecode.                        *)
Interrupt ==
    /\ \/ pc \in {"open", "release"} /\ Go("done", "aborted")
       \/ pc \in {"round", "poll"} /\ Go("release", "interrupted")
    /\ UNCHANGED <<probed, captures, held, left, at, polls>>

Next == Probe \/ NoCamera \/ StartPolling \/ StartRound \/ TimeIsUp \/ Read \/ Release \/ Interrupt

Spec == Init /\ [][Next]_vars
-----------------------------------------------------------------------------
(* No camera stays open, whichever of them opened and however the scan     *)
(* ends, unless Ctrl-C comes while cameras are opened or released: then it *)
(* is left to the end of the process (qr.py:54-80).                        *)
CamerasReleased ==
    pc = "done" /\ held # {} => outcome = "aborted"

(* Rounds are whole: no camera is passed over because another gave no      *)
(* frame or the time was up, so a code that is in view of any of them is   *)
(* looked for as often as with that camera alone; and for that the scan    *)
(* overruns its timeout by less than one round (qr.py:44-49, 67-77).       *)
RoundsAreWhole ==
    /\ \A i, j \in DOMAIN captures : i <= j =>
          polls[captures[i]] - polls[captures[j]] \in (IF outcome = "not_found" THEN {0} ELSE {0, 1})
    /\ \A i \in DOMAIN captures : polls[captures[i]] > 0 => left > -(ReadTime * Len(captures))
=============================================================================
