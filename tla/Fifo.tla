-------------------------------- MODULE Fifo --------------------------------
(***************************************************************************)
(* The gator daemon's segmented single-producer/single-consumer byte ring  *)
(* buffer, class Fifo (src/arm/gator-daemon/Fifo.h).  Only the class       *)
(* declaration is in src/; Fifo.cpp is not, so the operations are modelled *)
(* from spec.md sections 3-5 and the state is the class's member list:     *)
(*   mWrite, mReadCommit, mRead, mRaggedEnd, mEnd, mWaitForSpaceSem and    *)
(*   the consumer-owned semaphore *mReaderSem.                              *)
(* Bytes are abstracted to the record that last wrote them (arena), and a  *)
(* record's framing to its start and length (frames).                      *)
(***************************************************************************)
EXTENDS Naturals, Sequences, SequencesExt

CONSTANTS
  TotalBufferSize,   \* bytes in the arena
  SingleBufferSize,  \* largest single write request
  Lengths,           \* the write lengths the producer may request
  MaxRecords         \* bound on the number of records written in a run

ASSUME /\ SingleBufferSize \in Nat \ {0}
       /\ TotalBufferSize \in Nat
       /\ TotalBufferSize >= SingleBufferSize
       /\ Lengths \subseteq 1 .. SingleBufferSize
       /\ MaxRecords \in Nat

Positions == 0 .. TotalBufferSize - 1

\* Whole segments in the arena; one of them is reserved as slack, so the
\* space-available semaphore starts one below it.
Segments == TotalBufferSize \div SingleBufferSize

\* A write that would end beyond this offset must wrap.
mWrapThreshold == TotalBufferSize

\* mRaggedEnd = 0 means no ragged tail is pending: a write starting at
\* offset 0 always fits, so no ragged tail can start there.
NoRagged == 0

VARIABLES
  mWrite, mReadCommit, mRead, mRaggedEnd, mEnd,
  mWaitForSpaceSem,  \* space-available permits
  mReaderSem,        \* reader-notify count (owned by the consumer)
  frames,            \* committed, unread records: [start, len, id]
  arena,             \* arena[i]: the record that last wrote byte i (0: none)
  prodPC, pending,   \* producer thread: where it is, the region it holds
  consPC, held,      \* consumer thread: where it is, the region it holds
  produced,          \* ghost: ids of committed records, in commit order
  delivered          \* ghost: what the consumer found in each record read

vars == <<mWrite, mReadCommit, mRead, mRaggedEnd, mEnd, mWaitForSpaceSem,
          mReaderSem, frames, arena, prodPC, pending, consPC, held,
          produced, delivered>>

Region == [start : 0 .. TotalBufferSize, len : 0 .. SingleBufferSize]

Bytes(r) == {i \in Positions : r.start <= i /\ i < r.start + r.len}

NextId == Len(produced) + 1

\* Mutant: no segment reserved as slack.
InitNoSlack ==
  /\ mWrite = 0 /\ mReadCommit = 0 /\ mRead = 0
  /\ mRaggedEnd = NoRagged
  /\ mEnd = FALSE
  /\ mWaitForSpaceSem = Segments
  /\ mReaderSem = 0
  /\ frames = <<>>
  /\ arena = [i \in Positions |-> 0]
  /\ prodPC = "idle" /\ pending = [start |-> 0, len |-> 0]
  /\ consPC = "wait" /\ held = [start |-> 0, len |-> 0]
  /\ produced = <<>> /\ delivered = <<>>

Init ==
  /\ mWrite = 0 /\ mReadCommit = 0 /\ mRead = 0
  /\ mRaggedEnd = NoRagged
  /\ mEnd = FALSE
  /\ mWaitForSpaceSem = Segments - 1
  /\ mReaderSem = 0
  /\ frames = <<>>
  /\ arena = [i \in Positions |-> 0]
  /\ prodPC = "idle" /\ pending = [start |-> 0, len |-> 0]
  /\ consPC = "wait" /\ held = [start |-> 0, len |-> 0]
  /\ produced = <<>> /\ delivered = <<>>

----------------------------------------------------------------------------
(* Producer.                                                               *)
(***************************************************************************)

\* The blocking wait on the space-available semaphore that precedes write().
AcquireSpace ==
  /\ prodPC = "idle" /\ ~mEnd
  /\ Len(produced) < MaxRecords
  /\ mWaitForSpaceSem > 0
  /\ mWaitForSpaceSem' = mWaitForSpaceSem - 1
  /\ prodPC' = "permit"
  /\ UNCHANGED <<mWrite, mReadCommit, mRead, mRaggedEnd, mEnd, mReaderSem,
                 frames, arena, pending, consPC, held, produced, delivered>>

\* Grant the region [start, start+len) and let the producer fill it.
Grant(start, len) ==
  /\ pending' = [start |-> start, len |-> len]
  /\ arena' = [i \in Positions |->
                 IF start <= i /\ i < start + len THEN NextId ELSE arena[i]]
  /\ mWrite' = start + len
  /\ prodPC' = "writing"

\* write(length): grant the region at mWrite when it fits before the wrap
\* threshold; otherwise the trailing bytes must first be paid for with a
\* second permit (WriteWrap).
write(len) ==
  /\ prodPC = "permit"
  /\ \/ /\ mWrite + len <= mWrapThreshold
        /\ Grant(mWrite, len)
        /\ UNCHANGED mRaggedEnd
     \/ /\ mWrite + len > mWrapThreshold
        /\ prodPC' = "wrapWait"
        /\ pending' = [start |-> 0, len |-> len]
        /\ UNCHANGED <<mWrite, mRaggedEnd, arena>>
  /\ UNCHANGED <<mReadCommit, mRead, mEnd, mWaitForSpaceSem, mReaderSem,
                 frames, consPC, held, produced, delivered>>

\* The ragged-end policy: take a permit for the trailing bytes, mark them
\* ragged, wrap mWrite to 0 and grant the region there.
WriteWrap ==
  /\ prodPC = "wrapWait"
  /\ mWaitForSpaceSem > 0
  /\ mWaitForSpaceSem' = mWaitForSpaceSem - 1
  /\ mRaggedEnd' = mWrite
  /\ Grant(0, pending.len)
  /\ UNCHANGED <<mReadCommit, mRead, mEnd, mReaderSem, frames, consPC, held,
                 produced, delivered>>

\* Mutant: commits up to the start of the record instead of its end.
releaseCommitStart ==
  /\ prodPC = "writing"
  /\ mReadCommit' = pending.start
  /\ frames' = Append(frames, [start |-> pending.start, len |-> pending.len,
                               id |-> NextId])
  /\ produced' = Append(produced, NextId)
  /\ mReaderSem' = mReaderSem + 1
  /\ prodPC' = "idle"
  /\ UNCHANGED <<mWrite, mRead, mRaggedEnd, mEnd, mWaitForSpaceSem, arena,
                 pending, consPC, held, delivered>>

\* Mutant: the reader semaphore is not posted.
releaseNoNotify ==
  /\ prodPC = "writing"
  /\ mReadCommit' = mWrite
  /\ frames' = Append(frames, [start |-> pending.start, len |-> pending.len,
                               id |-> NextId])
  /\ produced' = Append(produced, NextId)
  /\ prodPC' = "idle"
  /\ UNCHANGED <<mWrite, mRead, mRaggedEnd, mEnd, mWaitForSpaceSem, arena,
                 pending, consPC, held, delivered, mReaderSem>>

\* release(): commit the written region and post the reader semaphore once.
release ==
  /\ prodPC = "writing"
  /\ mReadCommit' = mWrite
  /\ frames' = Append(frames, [start |-> pending.start, len |-> pending.len,
                               id |-> NextId])
  /\ produced' = Append(produced, NextId)
  /\ mReaderSem' = mReaderSem + 1
  /\ prodPC' = "idle"
  /\ UNCHANGED <<mWrite, mRead, mRaggedEnd, mEnd, mWaitForSpaceSem, arena,
                 pending, consPC, held, delivered>>

\* The producer sets the end flag: no further writes.
EndStream ==
  /\ prodPC = "idle" /\ ~mEnd
  /\ mEnd' = TRUE
  /\ prodPC' = "ended"
  /\ UNCHANGED <<mWrite, mReadCommit, mRead, mRaggedEnd, mWaitForSpaceSem,
                 mReaderSem, frames, arena, pending, consPC, held, produced,
                 delivered>>

----------------------------------------------------------------------------
(* Consumer.                                                               *)
(***************************************************************************)

\* The consumer blocks on its reader-notify semaphore, then drains.
WaitReaderSem ==
  /\ consPC = "wait"
  /\ mReaderSem > 0
  /\ mReaderSem' = mReaderSem - 1
  /\ consPC' = "drain"
  /\ UNCHANGED <<mWrite, mReadCommit, mRead, mRaggedEnd, mEnd,
                 mWaitForSpaceSem, frames, arena, prodPC, pending, held,
                 produced, delivered>>

\* Mutant: ragged tail not skipped / its permit not returned / returned twice.
readWith(skipRagged, raggedPermit) ==
  /\ consPC = "drain"
  /\ \/ /\ mRead = mReadCommit
        /\ consPC' = "wait"
        /\ UNCHANGED <<mRead, mRaggedEnd, mWaitForSpaceSem, frames, held>>
     \/ /\ mRead # mReadCommit
        /\ frames # <<>>
        /\ LET skip  == skipRagged /\ mRaggedEnd # NoRagged /\ mRead = mRaggedEnd
               start == IF skip THEN 0 ELSE mRead
               len   == Head(frames).len
           IN /\ held' = [start |-> start, len |-> len]
              /\ mRead' = start + len
              /\ mRaggedEnd' = IF skip THEN NoRagged ELSE mRaggedEnd
              /\ mWaitForSpaceSem' = mWaitForSpaceSem + 1 + (IF skip THEN raggedPermit ELSE 0)
        /\ frames' = Tail(frames)
        /\ consPC' = "consume"
  /\ UNCHANGED <<mWrite, mReadCommit, mEnd, mReaderSem, arena, prodPC,
                 pending, produced, delivered>>
readNoSkip == readWith(FALSE, 1)
readLeakRagged == readWith(TRUE, 0)
readDoubleRagged == readWith(TRUE, 2)

\* read(&length): null when nothing is committed; otherwise skip a pending
\* ragged tail (returning its permit), return the next record's region,
\* advance mRead past it and return its permit.
read ==
  /\ consPC = "drain"
  /\ \/ /\ mRead = mReadCommit
        /\ consPC' = "wait"
        /\ UNCHANGED <<mRead, mRaggedEnd, mWaitForSpaceSem, frames, held>>
     \/ /\ mRead # mReadCommit
        /\ frames # <<>>
        /\ LET skip  == mRaggedEnd # NoRagged /\ mRead = mRaggedEnd
               start == IF skip THEN 0 ELSE mRead
               len   == Head(frames).len
           IN /\ held' = [start |-> start, len |-> len]
              /\ mRead' = start + len
              /\ mRaggedEnd' = IF skip THEN NoRagged ELSE mRaggedEnd
              /\ mWaitForSpaceSem' = mWaitForSpaceSem + (IF skip THEN 2 ELSE 1)
        /\ frames' = Tail(frames)
        /\ consPC' = "consume"
  /\ UNCHANGED <<mWrite, mReadCommit, mEnd, mReaderSem, arena, prodPC,
                 pending, produced, delivered>>

\* The consumer uses the bytes read() pointed it to, after read() returned.
Consume ==
  /\ consPC = "consume"
  /\ delivered' = Append(delivered, {arena[i] : i \in Bytes(held)})
  /\ consPC' = "drain"
  /\ UNCHANGED <<mWrite, mReadCommit, mRead, mRaggedEnd, mEnd,
                 mWaitForSpaceSem, mReaderSem, frames, arena, prodPC,
                 pending, held, produced>>

----------------------------------------------------------------------------
Producer == AcquireSpace \/ (\E len \in Lengths : write(len)) \/ WriteWrap
            \/ release \/ EndStream

Consumer == WaitReaderSem \/ read \/ Consume

Next == Producer \/ Consumer

\* A producer inside write()/release() and a consumer thread are scheduled;
\* whether the producer starts another write or ends is its own choice.
Fairness ==
  /\ WF_vars(\E len \in Lengths : write(len))
  /\ WF_vars(WriteWrap)
  /\ WF_vars(release)
  /\ WF_vars(Consumer)

Spec == Init /\ [][Next]_vars /\ Fairness

----------------------------------------------------------------------------
(* Properties.                                                             *)
(***************************************************************************)

TypeOK ==
  /\ mWrite \in 0 .. TotalBufferSize
  /\ mReadCommit \in 0 .. TotalBufferSize
  /\ mRead \in 0 .. TotalBufferSize
  /\ mRaggedEnd \in 0 .. TotalBufferSize
  /\ mEnd \in BOOLEAN
  /\ mWaitForSpaceSem \in 0 .. Segments
  /\ mReaderSem \in 0 .. MaxRecords
  /\ frames \in Seq([start : 0 .. TotalBufferSize, len : Lengths,
                     id : 1 .. MaxRecords])
  /\ arena \in [Positions -> 0 .. MaxRecords]
  /\ prodPC \in {"idle", "permit", "wrapWait", "writing", "ended"}
  /\ pending \in Region
  /\ consPC \in {"wait", "drain", "consume"}
  /\ held \in Region

\* Bytes some party still owns: the region being written, the committed
\* records not yet read, and the record the consumer is using.
WriterBytes == IF prodPC = "writing" THEN Bytes(pending) ELSE {}
UnreadBytes == UNION {Bytes(frames[k]) : k \in 1 .. Len(frames)}
HeldBytes   == IF consPC = "consume" THEN Bytes(held) ELSE {}

(* No overrun (spec 8): the region write() hands the producer never       *)
(* overlaps a committed record the consumer has not read, nor the record  *)
(* the consumer is still using after read() returned its permit.          *)
NoOverrun ==
  /\ WriterBytes \cap UnreadBytes = {}
  /\ WriterBytes \cap HeldBytes = {}

(* Order and content (spec 8): the k-th record the consumer uses holds    *)
(* exactly the bytes of the k-th committed record: no record is lost,    *)
(* reordered, overwritten before use, or mixed with ragged-tail bytes.   *)
DeliveredInOrder ==
  \A k \in 1 .. Len(delivered) : delivered[k] = {produced[k]}

(* isEmpty() (mRead = mReadCommit) is true exactly when no committed      *)
(* record is waiting, across wraps of both cursors.                       *)
EmptyMeansDrained == (mRead = mReadCommit) <=> (frames = <<>>)

(* Backpressure liveness (spec 8): a producer blocked inside write(),     *)
(* also on the permit for a ragged tail, is eventually granted space.    *)
WriteCompletes == (prodPC \in {"permit", "wrapWait"}) ~> (prodPC = "writing")

(* End-of-stream draining (spec 8): after the end flag is set the         *)
(* consumer eventually uses every committed record and the buffer stays  *)
(* empty from then on.                                                    *)
EndDrains == mEnd ~> [](frames = <<>> /\ consPC # "consume")

(* The Fifo implements the abstract bounded channel: commits append,     *)
(* reads take from the head, at most Segments - 1 records are unread.    *)
Chan == INSTANCE FifoChannel
          WITH queue <- [k \in 1 .. Len(frames) |-> frames[k].id],
               closed <- mEnd,
               Capacity <- Segments - 1,
               Records <- 1 .. MaxRecords

ImplementsChannel == Chan!Spec
=============================================================================
