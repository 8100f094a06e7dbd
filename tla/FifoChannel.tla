---------------------------- MODULE FifoChannel ----------------------------
(***************************************************************************)
(* What the gator Fifo promises its two users (spec.md sections 4.1, 5):   *)
(* a bounded FIFO channel of whole records from one producer to one        *)
(* consumer.  A record becomes visible when it is committed, at most       *)
(* Capacity committed records are unread at a time, records are taken in  *)
(* commit order, and after the producer closes the stream nothing more is *)
(* committed.  A consumer that is scheduled takes every committed record.  *)
(***************************************************************************)
EXTENDS Naturals, Sequences

CONSTANTS Capacity, Records

VARIABLES queue, closed

chanVars == <<queue, closed>>

Init == queue = <<>> /\ closed = FALSE

Commit(r) == /\ ~closed
             /\ Len(queue) < Capacity
             /\ queue' = Append(queue, r)
             /\ UNCHANGED closed

Take == /\ queue # <<>>
        /\ queue' = Tail(queue)
        /\ UNCHANGED closed

Close == /\ ~closed
         /\ closed' = TRUE
         /\ UNCHANGED queue

Next == (\E r \in Records : Commit(r)) \/ Take \/ Close

Spec == Init /\ [][Next]_chanVars /\ WF_chanVars(Take)
=============================================================================
