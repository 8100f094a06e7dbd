------------------------- MODULE MCFifoTwoSegments -------------------------
(* Fifo with an arena of exactly two segments (4 bytes, 2-byte writes):   *)
(* allowed by the construction-time check totalBufferSize >=              *)
(* singleBufferSize, and leaving a single permit after the reserved slack.*)
EXTENDS Fifo

TwoSegTotalBufferSize == 4
TwoSegSingleBufferSize == 2
TwoSegLengths == {1, 2}
TwoSegMaxRecords == 4
=============================================================================
