-------------------------------- MODULE FIFO --------------------------------
(***************************************************************************)
(* The FIFO between a device and the bus (util/fifo.cc): DMA requests are  *)
(* cut into pieces that fit, copied between the device and a buffer (the   *)
(* "insertion"), and between the buffer and the bus (the "transfer").  The *)
(* two overlap.  The engine's events insertDone, beginTransfer and         *)
(* submitCompletion and the upstream callback transferDone drive it.       *)
(*                                                                         *)
(* Latencies are left out: an event that is scheduled may fire at any      *)
(* time, except that what is scheduled for insertEndAt + latency fires     *)
(* after the insertion has ended.                                          *)
(***************************************************************************)
EXTENDS Integers, Sequences, SequencesExt

CONSTANTS
  TransferUnit,   \* param.transferUnit
  QueueSize       \* param.rqSize and param.wqSize

ASSUME FIFOAssumption ==
  /\ TransferUnit \in Nat \ {0}
  /\ QueueSize \in Nat /\ TransferUnit <= QueueSize

VARIABLES
  writeQueue, readQueue,
  readCompletion,   \* ids of reads of which one half, "dma" or "insert", is done
  moved             \* bytes of each request that went over the bus, in order

fifoVars == <<writeQueue, readQueue, readCompletion, moved>>

\* A piece of request r: bytes addr .. addr + size - 1 of it.
FIFOEntry(r, size) ==
  [req |-> r, addr |-> 0, size |-> size, last |-> TRUE, id |-> 0]

EmptyQueue ==
  [wait |-> <<>>, transfer |-> <<>>, usage |-> 0, counter |-> 0,
   insertPending |-> FALSE, transferPending |-> FALSE,
   insertDone |-> FALSE, beginTransfer |-> FALSE, submitCompletion |-> FALSE,
   dma |-> FALSE]

FIFOInit ==
  /\ writeQueue = EmptyQueue
  /\ readQueue = EmptyQueue
  /\ readCompletion = {}
  /\ moved = <<>>

\* What a piece of this size takes up in the queue.
calcSize(size) ==
  IF size < TransferUnit THEN size
  ELSE ((size + TransferUnit - 1) \div TransferUnit) * TransferUnit

\* Must the first waiting piece of q wait?  One that is larger than the whole
\* queue does not look at the room left.
Blocked(q, pending) ==
  LET size == calcSize(Head(q.wait).size)
  IN  /\ pending \/ q.usage + size > QueueSize
      /\ size <= QueueSize

\* Mutant of Split: the piece split off is the last one of its request, too.
SplitKeepsLast(wait) ==
  LET p == Head(wait)
  IN  IF calcSize(p.size) <= QueueSize THEN wait
      ELSE <<[p EXCEPT !.size = TransferUnit],
             [p EXCEPT !.addr = @ + TransferUnit, !.size = @ - TransferUnit]>>
           \o Tail(wait)

\* The waiting pieces, with one transfer unit split off the first one if that
\* does not fit into the queue.
Split(wait) ==
  LET p == Head(wait)
  IN  IF calcSize(p.size) <= QueueSize THEN wait
      ELSE <<[p EXCEPT !.size = TransferUnit, !.last = FALSE],
             [p EXCEPT !.addr = @ + TransferUnit, !.size = @ - TransferUnit]>>
           \o Tail(wait)

-----------------------------------------------------------------------------
(* Writes: insertion first, then transfer.                                 *)

insertWrite(q) ==
  IF q.wait = <<>> \/ Blocked(q, q.insertPending) THEN q
  ELSE LET wait == Split(q.wait)
       IN  [q EXCEPT !.wait = wait,
                     !.insertPending = TRUE,
                     !.usage = @ + calcSize(Head(wait).size),
                     !.insertDone = TRUE,
                     !.beginTransfer = TRUE,
                     !.transfer = Append(@, Head(wait))]

insertWriteDone(q) ==
  insertWrite([q EXCEPT !.wait = Tail(@), !.insertPending = FALSE,
                        !.insertDone = FALSE])

\* A transfer over the bus starts unless there is one already.
transferWrite(q) ==
  IF q.transferPending THEN q
  ELSE [q EXCEPT !.transferPending = TRUE, !.dma = TRUE]

\* Has the piece that is transferred been inserted to its end?
Inserted(q) == ~(q.insertPending /\ Len(q.transfer) = 1)

\* A request of no bytes is ignored: its callback is never called.
dmaWrite(q, r, size) ==
  IF size = 0 THEN q
  ELSE insertWrite([q EXCEPT !.wait = Append(@, FIFOEntry(r, size))])

transferWriteDoneNext(q) ==
  LET popped == [q EXCEPT !.usage = @ - calcSize(Head(q.transfer).size),
                          !.transferPending = FALSE,
                          !.transfer = Tail(@)]
  IN  insertWrite(IF popped.transfer # <<>> /\ ~popped.beginTransfer
                  THEN transferWrite(popped) ELSE popped)

-----------------------------------------------------------------------------
(* Reads: transfer first, then insertion; they may end in either order.    *)

transferRead(q) ==
  IF q.wait = <<>> \/ Blocked(q, q.transferPending) THEN q
  ELSE LET wait == Split(q.wait)
           p    == [Head(wait) EXCEPT !.id = q.counter]
       IN  [q EXCEPT !.wait = <<p>> \o Tail(wait),
                     !.transferPending = TRUE,
                     !.counter = @ + 1,
                     !.usage = @ + calcSize(p.size),
                     !.dma = TRUE,
                     !.beginTransfer = TRUE,
                     !.transfer = Append(@, p)]

\* Mutant of dmaRead: the new request is put in front of those that wait.
dmaReadInFront(q, r, size) ==
  IF size = 0 THEN q
  ELSE transferRead([q EXCEPT !.wait =
         IF Len(@) > 1 THEN <<@[1], FIFOEntry(r, size)>> \o Tail(@)
         ELSE Append(@, FIFOEntry(r, size))])

dmaRead(q, r, size) ==
  IF size = 0 THEN q
  ELSE transferRead([q EXCEPT !.wait = Append(@, FIFOEntry(r, size))])

insertRead(q) ==
  IF q.insertPending THEN q
  ELSE [q EXCEPT !.insertPending = TRUE, !.insertDone = TRUE]

insertReadDoneNext(q) ==
  LET popped == [q EXCEPT !.usage = @ - calcSize(Head(q.transfer).size),
                          !.insertPending = FALSE,
                          !.transfer = Tail(@)]
  IN  transferRead(IF popped.transfer # <<>> /\ ~popped.beginTransfer
                   THEN insertRead(popped) ELSE popped)

-----------------------------------------------------------------------------
(* The steps in which no callback is called.                               *)

\* The bus has taken the bytes of piece p.
Torn == -1
Moved(p) ==
  [moved EXCEPT ![p.req] = IF p.addr = @ THEN @ + p.size ELSE Torn]

InsertWriteDone ==
  /\ writeQueue.insertDone
  /\ writeQueue' = insertWriteDone(writeQueue)
  /\ UNCHANGED <<readQueue, readCompletion, moved>>

BeginTransferWrite ==
  /\ writeQueue.beginTransfer
  /\ writeQueue' = transferWrite([writeQueue EXCEPT !.beginTransfer = FALSE])
  /\ UNCHANGED <<readQueue, readCompletion, moved>>

\* The transfer ends; the piece is finished later.
TransferWriteDone ==
  /\ writeQueue.dma
  /\ moved' = Moved(Head(writeQueue.transfer))
  /\ writeQueue' = [writeQueue EXCEPT !.dma = FALSE, !.submitCompletion = TRUE]
  /\ UNCHANGED <<readQueue, readCompletion>>

BeginInsertRead ==
  /\ readQueue.beginTransfer
  /\ readQueue' = insertRead([readQueue EXCEPT !.beginTransfer = FALSE])
  /\ UNCHANGED <<writeQueue, readCompletion, moved>>

\* When the insertion has ended before, the piece is finished one latency
\* later, else when the insertion ends.
TransferReadDone ==
  LET p     == Head(readQueue.wait)
      first == p.id \notin readCompletion
  IN  /\ readQueue.dma
      /\ moved' = Moved(p)
      /\ readCompletion' = IF first THEN readCompletion \union {p.id}
                           ELSE readCompletion \ {p.id}
      /\ readQueue' = transferRead([readQueue EXCEPT
                         !.dma = FALSE, !.transferPending = FALSE,
                         !.submitCompletion = @ \/ ~first,
                         !.wait = Tail(@)])
      /\ UNCHANGED writeQueue

\* The insertion ends; the piece is finished when the transfer has, too.
InsertReadDone ==
  LET id    == Head(readQueue.transfer).id
      first == id \notin readCompletion
  IN  /\ readQueue.insertDone
      /\ readCompletion' = IF first THEN readCompletion \union {id}
                           ELSE readCompletion \ {id}
      /\ readQueue' = [readQueue EXCEPT !.insertDone = FALSE,
                                        !.submitCompletion = @ \/ ~first]
      /\ UNCHANGED <<writeQueue, moved>>

FIFOStep ==
  \/ InsertWriteDone \/ BeginTransferWrite \/ TransferWriteDone
  \/ BeginInsertRead \/ TransferReadDone \/ InsertReadDone

(***************************************************************************)
(* When the event that finishes a piece, and so calls back, may fire.  A   *)
(* piece that is finished "immediately" instead is one whose event comes   *)
(* first among those that may fire.                                        *)
(***************************************************************************)
WriteFinishes == writeQueue.submitCompletion /\ Inserted(writeQueue)
ReadFinishes  == readQueue.submitCompletion

=============================================================================
