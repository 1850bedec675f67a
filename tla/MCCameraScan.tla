---------------------------- MODULE MCCameraScan ----------------------------
(* CameraScan with three camera indices to try, each of which may open.    *)
EXTENDS CameraScan

MCIndices == <<0, 1, 2>>
=============================================================================
