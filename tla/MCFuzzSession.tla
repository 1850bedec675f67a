--------------------------- MODULE MCFuzzSession ---------------------------
(* FuzzSession on the answers of MCResponses.                              *)
EXTENDS FuzzSession, MCResponses
=============================================================================
