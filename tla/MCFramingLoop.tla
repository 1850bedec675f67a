--------------------------- MODULE MCFramingLoop ---------------------------
(* FramingLoop on messages of 0 to 5 bytes; chunk sizes 2 to 4, reached    *)
(* from MTUs below, inside and above the clamp.                            *)
EXTENDS FramingLoop

MCMessages == {[i \in 1..n |-> 10 * n + i] : n \in 0..5}
MCMtus     == 3..8
=============================================================================
