------------------------------ MODULE MCChunk ------------------------------
(* A small instance of Chunk: buffers of five bytes, counters of three     *)
(* bits.  Two messages of different lengths, so that pieces can be mixed,  *)
(* an empty one and one that is too long; chunk sizes that divide the      *)
(* length or not, exceed it, are zero, or are zero or more once truncated. *)
EXTENDS Chunk

MCMessages == {<<1, 1, 1, 0, 1>>, <<1, 1, 0, 1>>, <<>>, <<1, 1, 1, 1, 1, 1>>}
MCSizes    == {0, 2, 6, 8, 9}
MCCaps     == {5, 7}
=============================================================================
