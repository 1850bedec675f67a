-------------------------- MODULE ExchangeContract --------------------------
(***************************************************************************)
(* What an exchange with an mdoc promises to run_read, whatever the radio  *)
(* does: it ends, with the first complete message the mdoc sent or with a  *)
(* failure, and its verdict is never revised.                              *)
(***************************************************************************)
EXTENDS Sequences

CONSTANTS Responses,  \* the messages an mdoc may send
          NoMessage   \* not a message

VARIABLES completed,  \* the messages the mdoc has sent completely, in order
          verdict     \* "open", "message" or "failed"
VARIABLE  value       \* the message returned, NoMessage if none

vars == <<completed, verdict, value>>

Init == completed = <<>> /\ verdict = "open" /\ value = NoMessage

Complete(m) ==
    /\ completed' = Append(completed, m)
    /\ UNCHANGED <<verdict, value>>

Return ==
    /\ verdict = "open" /\ completed # <<>>
    /\ verdict' = "message" /\ value' = Head(completed)
    /\ UNCHANGED completed

Fail ==
    /\ verdict = "open"
    /\ verdict' = "failed"
    /\ UNCHANGED <<completed, value>>

Next == (\E m \in Responses : Complete(m)) \/ Return \/ Fail

Spec == Init /\ [][Next]_vars /\ WF_vars(Return \/ Fail)
=============================================================================
