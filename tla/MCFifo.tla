------------------------------- MODULE MCFifo -------------------------------
(* Model-checking instance of Fifo: a 6-byte arena of three 2-byte        *)
(* segments (two permits, one reserved), writes of 1 or 2 bytes so that   *)
(* ragged tails of 0 and 1 bytes occur, and enough records to wrap twice. *)
EXTENDS Fifo

MCTotalBufferSize == 6
MCSingleBufferSize == 2
MCLengths == {1, 2}
MCMaxRecords == 7
=============================================================================
