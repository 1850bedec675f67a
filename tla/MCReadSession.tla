--------------------------- MODULE MCReadSession ---------------------------
(* ReadSession for a request of two document types and the answers of      *)
(* MCResponses, with a PDP timeout of two ticks.                           *)
EXTENDS ReadSession, MCResponses
=============================================================================
