--------------------------- MODULE DisclosureGate ---------------------------
(***************************************************************************)
(* What `read` promises about disclosure: claims come out of one candidate *)
(* response, all of its documents or none, after it was vetted and, when a *)
(* PDP decides, after each document was permitted; once refused, never;    *)
(* and there is always a decision.                                         *)
(***************************************************************************)
EXTENDS Naturals, Sequences

VARIABLES pdpDecides, \* whether a PDP has a say
          candidate,  \* the documents vetted, <<>> before
          permits,    \* how many of them the PDP has permitted
          released,   \* the documents whose claims were printed
          closed      \* the decision has been taken

vars == <<pdpDecides, candidate, permits, released, closed>>

Init ==
    /\ pdpDecides \in BOOLEAN
    /\ candidate = <<>> /\ permits = 0 /\ released = <<>> /\ closed = FALSE

Vet ==
    /\ ~closed /\ candidate = <<>>
    /\ candidate' # <<>>
    /\ UNCHANGED <<pdpDecides, permits, released, closed>>

Permit ==
    /\ ~closed /\ pdpDecides /\ permits < Len(candidate)
    /\ permits' = permits + 1
    /\ UNCHANGED <<pdpDecides, candidate, released, closed>>

Release ==
    /\ ~closed /\ candidate # <<>>
    /\ pdpDecides => permits = Len(candidate)
    /\ released' = candidate /\ closed' = TRUE
    /\ UNCHANGED <<pdpDecides, candidate, permits>>

Refuse ==
    /\ ~closed /\ closed' = TRUE
    /\ UNCHANGED <<pdpDecides, candidate, permits, released>>

Next == Vet \/ Permit \/ Release \/ Refuse

Spec == Init /\ [][Next]_vars /\ <>closed
=============================================================================
