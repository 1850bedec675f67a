-------------------------- MODULE MCFuzzTransport --------------------------
(* FuzzTransport with a request of four bytes, in one to four chunks, all  *)
(* kinds of fractions (none, some, all, more than all, negative) and four  *)
(* cycles.                                                                 *)
EXTENDS FuzzTransport

MCRequest   == <<1, 2, 3, 4>>
MCMtus      == 5..8
MCFractions == {[num |-> n, den |-> 4] : n \in {-3, 0, 1, 2, 3, 4, 6}}
=============================================================================
