---------------------------- MODULE MCBleCentral ----------------------------
(* BleCentral with a request of three bytes, cut into two or three chunks, *)
(* and an mdoc that may send two messages of one or two bytes in any       *)
(* cutting.  Bytes of different messages differ, so that a mixture shows.  *)
EXTENDS BleCentral

MCRequest   == <<1, 2, 3>>
MCResponses == {<<4>>, <<5, 6>>}
MCMtus      == {4, 7}
=============================================================================
