------------------------------ MODULE DMALists ------------------------------
(***************************************************************************)
(* How the NVMe firmware moves the data of a command (hil/nvme/dma.cc):    *)
(* the pages of a PRP list or the chunks of an SGL are fetched from the    *)
(* host's memory through the FIFO, and then the data is moved, one request *)
(* to the FIFO per page or chunk; the command goes on when a counter of    *)
(* outstanding requests reaches 0.  PRP lists are laid out as the driver   *)
(* does (sil/nvme/prp.cc): every page is aligned.                          *)
(*                                                                         *)
(* A list that was fetched is parsed when a core of the CPU model has time *)
(* for it, or, when no cores are configured, in the FIFO's callback.       *)
(***************************************************************************)
EXTENDS FIFO, FiniteSets, FiniteSetsExt

CONSTANTS
  PageSize,      \* memoryPageSize
  ListEntries,   \* entries of a page of a PRP list
  Transfers,     \* the transfers the firmware may be asked for
  MaxCommands    \* bound: commands of a behaviour

\* A part of the host's memory, to be moved or ignored, and a transfer:
\* bytes offset .. offset + length - 1 of a list.
ChunkType == [length : Nat, ignore : BOOLEAN]
TransferType ==
  [kind : {"prp", "cont", "queue", "sgl"}, total : Nat, dir : {"read", "write"},
   offset : Nat, length : Nat, segments : Seq(Seq(ChunkType))]

ASSUME DMAListsAssumption ==
  /\ PageSize \in Nat \ {0}
  /\ ListEntries \in Nat \ {0, 1}
  /\ Transfers \subseteq TransferType

VARIABLES
  cmds,       \* the commands' transfers, with their list and their counter
  requests,   \* every request made to the FIFO
  cores       \* are cores configured for the firmware?

vars == <<fifoVars, cmds, requests, cores>>

\* Op over the elements of s, from the left.
Fold(Op(_, _), base, s) ==
  LET f[i \in 0 .. Len(s)] ==
        IF i = 0 THEN base ELSE Op(f[i - 1], s[i])
  IN  f[Len(s)]

-----------------------------------------------------------------------------
(* The host's lists.  An entry is a chunk of data, or the pointer to the   *)
(* next page or segment.                                                   *)

Chunk(length, ignore) == [length |-> length, ignore |-> ignore]
Pointer == Chunk(PageSize, FALSE)

Pages(n) == [i \in 1 .. n |-> Chunk(PageSize, FALSE)]
DIVCEIL(a, b) == (a + b - 1) \div b

\* The driver's PRP list for this many bytes: as long as they do not fit into
\* one page of entries, the last entry of a page points to the next one.
PRP(size) ==
  LET full == ListEntries - 1
      n == DIVCEIL(size, PageSize)   \* pages of data
      k == IF n <= ListEntries THEN 0 ELSE DIVCEIL(n - ListEntries, full)
  IN  [i \in 1 .. k |-> Append(Pages(full), Pointer)]
        \o <<Pages(n - k * full)>>

SumSizes(chunks) == Fold(LAMBDA t, c : t + c.length, 0, chunks)

\* The first entries of s that make up the size, or all of them.
Covering(s, size) ==
  LET enough == {k \in 0 .. Len(s) : SumSizes(SubSeq(s, 1, k)) >= size}
  IN  SubSeq(s, 1, IF enough = {} THEN Len(s) ELSE Min(enough))

-----------------------------------------------------------------------------
(* The constructors: what is known at once and what must be fetched.       *)

Parsed(chunks) == [chunks |-> chunks, lists |-> <<>>, todo |-> 0]
Listed(chunks, lists, todo) ==
  [chunks |-> chunks, lists |-> lists, todo |-> todo]

PRPList(total) ==
  IF total <= PageSize THEN Parsed(<<Chunk(total, FALSE)>>)
  ELSE IF total <= 2 * PageSize THEN Parsed(Pages(2))
  ELSE Listed(Pages(1), PRP(total - PageSize), total - PageSize)

\* The memory of an I/O queue.
PRPListOfQueue(total, cont) ==
  IF cont THEN Parsed(<<Chunk(total, FALSE)>>)
  ELSE Listed(<<>>, PRP(total), total)

\* An SGL is one data block, or segments of chunks and "ignored" ones.
SGL(segments) ==
  IF Len(segments) = 1 /\ Len(segments[1]) = 1 THEN Parsed(segments[1])
  ELSE Listed(<<>>, segments, 0)

NewList(t) ==
  CASE t.kind = "prp"   -> PRPList(t.total)
    [] t.kind = "cont"  -> PRPListOfQueue(t.total, TRUE)
    [] t.kind = "queue" -> PRPListOfQueue(t.total, FALSE)
    [] t.kind = "sgl"   -> SGL(t.segments)

ListSize(l) == IF l.transfer.kind = "sgl" THEN Len(Head(l.lists)) ELSE PageSize

(***************************************************************************)
(* What the firmware makes of a page of a PRP list: it takes entries until *)
(* they make up the size it still wants.  When they do not, the last one   *)
(* was the pointer to the next page; its size has been counted, too.       *)
(***************************************************************************)
getPRPListFromPRP(c) ==
  LET s    == Covering(Head(c.lists), c.todo)
      left == c.todo - SumSizes(s)
  IN  IF left > 0
      THEN [c EXCEPT !.chunks = @ \o Front(s), !.lists = Tail(@), !.todo = left]
      ELSE [c EXCEPT !.chunks = @ \o s, !.lists = <<>>, !.todo = 0]

\* A segment is taken whole; a pointer in its last entry leads to the next.
parseSGLSegment(c) ==
  [c EXCEPT !.chunks = @ \o Head(c.lists), !.lists = Tail(@)]

(***************************************************************************)
(* read and write: the requests for bytes offset .. offset + length - 1 of *)
(* the list.  The loop is not left after the first of them, even if it     *)
(* covers the whole length.                                                *)
(***************************************************************************)
NextChunk(s, c, offset, length) ==
  LET from == IF s.begin THEN 0 ELSE offset - s.current
      size == Min({c.length - from, length - s.total})
      took == [s EXCEPT
                !.segments = IF c.ignore THEN @
                             ELSE Append(@, [pos |-> s.total, size |-> size]),
                !.total = @ + size,
                !.begin = TRUE,
                !.stop = s.begin /\ s.total + size = length]
  IN  IF s.stop THEN s
      ELSE IF ~s.begin /\ s.current + c.length <= offset
           THEN [s EXCEPT !.current = @ + c.length]
      ELSE took

Segments(chunks, offset, length) ==
  LET Step(s, c) == NextChunk(s, c, offset, length)
  IN  Fold(Step, [segments |-> <<>>, total |-> 0, current |-> 0,
                  begin |-> FALSE, stop |-> FALSE], chunks).segments

-----------------------------------------------------------------------------
(* The state a step works on: the queues, the requests and the commands.   *)

State == [write |-> writeQueue, read |-> readQueue,
          requests |-> requests, cmds |-> cmds]

Update(s, c, x) == [s EXCEPT !.cmds = [@ EXCEPT ![c] = x]]

\* pInterface->dmaRead and dmaWrite
Request(s, dir, req) ==
  LET asked == [s EXCEPT !.requests = Append(@, req)]
      id    == Len(asked.requests)
  IN  IF dir = "read" THEN [asked EXCEPT !.read = dmaRead(@, id, req.size)]
      ELSE [asked EXCEPT !.write = dmaWrite(@, id, req.size)]

FetchList(s, c) ==
  Request(Update(s, c, [s.cmds[c] EXCEPT !.at = "fetching"]), "read",
          [cmd |-> c, what |-> "list", pos |-> 0, size |-> ListSize(s.cmds[c])])

\* A request for the segment g of the data of command c.
AskFor(s, c, g) ==
  Request(s, s.cmds[c].transfer.dir,
          [cmd |-> c, what |-> "data", pos |-> g.pos, size |-> g.size])

\* Mutant of Transfer: nothing is done when there is nothing to move.
TransferWaits(s, c) ==
  LET x    == s.cmds[c]
      segs == Segments(x.chunks, x.transfer.offset, x.transfer.length)
      Ask(t, g) == AskFor(t, c, g)
  IN  Fold(Ask, Update(s, c, [x EXCEPT !.at = "moving",
                                       !.counter = Len(segs)]), segs)

\* The list is known: its user is called back, and reads or writes.
Transfer(s, c) ==
  LET x    == s.cmds[c]
      segs == Segments(x.chunks, x.transfer.offset, x.transfer.length)
      Ask(t, g) == AskFor(t, c, g)
  IN  Fold(Ask, Update(s, c, [x EXCEPT
                   !.at = IF segs = <<>> THEN "done" ELSE "moving",
                   !.counter = Len(segs)]), segs)

\* The callback of the request for a list.
ParseList(s, c) ==
  LET p == IF s.cmds[c].transfer.kind = "sgl" THEN parseSGLSegment(s.cmds[c])
           ELSE getPRPListFromPRP(s.cmds[c])
      t == Update(s, c, [p EXCEPT !.at = "parsed"])
  IN  IF p.lists # <<>> THEN FetchList(t, c)
      ELSE IF cores THEN t
      ELSE Transfer(t, c)

\* commonDMAHandler
DataMoved(s, c) ==
  LET x == s.cmds[c]
  IN  Update(s, c, [x EXCEPT !.counter = @ - 1,
                             !.at = IF x.counter = 1 THEN "done" ELSE @])

\* A piece of a request has been finished; the last one calls back.
Callback(s, p) ==
  LET r == s.requests[p.req]
  IN  IF ~p.last THEN s
      ELSE IF r.what = "data" THEN DataMoved(s, r.cmd)
      ELSE IF cores
      THEN Update(s, r.cmd, [s.cmds[r.cmd] EXCEPT !.at = "fetched"])
      ELSE ParseList(s, r.cmd)

Becomes(s) ==
  /\ writeQueue' = s.write
  /\ readQueue' = s.read
  /\ requests' = s.requests
  /\ cmds' = s.cmds
  /\ moved' = moved \o [i \in 1 .. Len(s.requests) - Len(moved) |-> 0]
  /\ UNCHANGED <<readCompletion, cores>>

-----------------------------------------------------------------------------
Init ==
  /\ FIFOInit
  /\ cmds = <<>>
  /\ requests = <<>>
  /\ cores \in BOOLEAN

Command(t) ==
  LET l == NewList(t)
  IN  [chunks |-> l.chunks, lists |-> l.lists, todo |-> l.todo,
       transfer |-> t, counter |-> 0, at |-> "parsed"]

\* A command asks for its data.
Submit(t) ==
  /\ Len(cmds) < MaxCommands
  /\ LET c == Len(cmds) + 1
         s == [State EXCEPT !.cmds = Append(@, Command(t))]
     IN  Becomes(IF s.cmds[c].lists # <<>> THEN FetchList(s, c) ELSE s)

\* A core gets to what is to be done for command c.
Parse(c) ==
  /\ cmds[c].at = "fetched"
  /\ Becomes(ParseList(State, c))

\* The immediate event of a list that needs no fetching, or a core.
Begin(c) ==
  /\ cmds[c].at = "parsed"
  /\ Becomes(Transfer(State, c))

\* submitCompletion of the FIFO: the callback, and then the piece's end.
FinishWrite ==
  /\ WriteFinishes
  /\ LET q == [writeQueue EXCEPT !.submitCompletion = FALSE]
         s == Callback([State EXCEPT !.write = q], Head(q.transfer))
     IN  Becomes([s EXCEPT !.write = transferWriteDoneNext(@)])

FinishRead ==
  /\ ReadFinishes
  /\ LET q == [readQueue EXCEPT !.submitCompletion = FALSE]
         s == Callback([State EXCEPT !.read = q], Head(q.transfer))
     IN  Becomes([s EXCEPT !.read = insertReadDoneNext(@)])

FIFOEvent ==
  /\ FIFOStep
  /\ UNCHANGED <<cmds, requests, cores>>

Firmware == \E c \in DOMAIN cmds : Parse(c) \/ Begin(c)
Next ==
  \/ \E t \in Transfers : Submit(t)
  \/ Firmware
  \/ FIFOEvent \/ FinishWrite \/ FinishRead

\* Is an event scheduled, or work waiting for a core?
Busy ==
  \/ \E q \in {writeQueue, readQueue} :
       q.insertDone \/ q.beginTransfer \/ q.dma \/ q.submitCompletion
  \/ \E c \in DOMAIN cmds : cmds[c].at \in {"fetched", "parsed"}

\* Weak fairness of every step but Submit, which are enabled when the device
\* is busy: the engine goes on as long as an event is scheduled.
Fairness == []<>~Busy \/ []<><<Len(cmds') = Len(cmds)>>_vars

Spec == Init /\ [][Next]_vars /\ Fairness

-----------------------------------------------------------------------------
(* Properties.                                                             *)

\* The pieces of q that wait and are not in the buffer yet.
Waiting(q, started) == IF started THEN Tail(q.wait) ELSE q.wait

\* The requests whose last piece is among these, in their order.
Answers(pieces) ==
  LET f[i \in 0 .. Len(pieces)] ==
        IF i = 0 THEN <<>>
        ELSE IF pieces[i].last THEN Append(f[i - 1], pieces[i].req)
        ELSE f[i - 1]
  IN  f[Len(pieces)]

\* The requests that were not answered, in the order of the queue.
Unanswered(q, started) == Answers(q.transfer \o Waiting(q, started))

Pending ==
  [d \in {"read", "write"} |->
     IF d = "read" THEN Unanswered(readQueue, readQueue.transferPending)
     ELSE Unanswered(writeQueue, writeQueue.insertPending)]

Channel == INSTANCE DMAChannel WITH pending <- Pending

\* The FIFO implements the DMA interface: in each direction it calls back for
\* every request of at least one byte, once, in the order of the requests.
ImplementsChannel == Channel!Spec

\* The pages of data of the list of t, whatever the firmware makes of it.
Data(t) ==
  LET l == NewList(t)
      Page(i) == IF t.kind \in {"prp", "queue"} /\ i < Len(l.lists)
                 THEN Front(l.lists[i]) ELSE l.lists[i]
  IN  l.chunks \o FlattenSeq([i \in DOMAIN l.lists |-> Page(i)])

\* The bytes of the buffer a transfer of t is about: those that are not in a
\* chunk the host wants ignored.
Wanted(t) ==
  LET chunks == Data(t)
      Start(i) == SumSizes(SubSeq(chunks, 1, i - 1))
  IN  {b \in 0 .. t.length - 1 :
         \E i \in DOMAIN chunks :
           /\ ~chunks[i].ignore
           /\ b + t.offset \in Start(i) .. Start(i) + chunks[i].length - 1}

Chained(t) == t.kind # "sgl" /\ Len(NewList(t).lists) > 1

\* The bytes of command c that were moved.
Arrived(c) ==
  UNION {requests[r].pos .. requests[r].pos + moved[r] - 1 :
           r \in {q \in DOMAIN requests : requests[q].cmd = c /\ requests[q].what = "data"}}

Whole(c) == cmds[c].at = "done" => Arrived(c) = Wanted(cmds[c].transfer)

\* The firmware goes on with a command when exactly the bytes that belong to
\* it have crossed the bus, in order, whatever else shares the FIFO
\* (commonDMAHandler, PRPList and SGL).  PRP lists of several pages are left
\* out: they lose a page of data at every pointer.
TransferComplete ==
  \A c \in DOMAIN cmds : ~Chained(cmds[c].transfer) => Whole(c)

\* Does the first chunk that is used hold all the bytes, with more chunks
\* behind it?  Then a request of no bytes is made, and never answered.
Overlong(t) ==
  LET chunks == Data(t)
      Until(i) == SumSizes(SubSeq(chunks, 1, i))
  IN  \E i \in 1 .. Len(chunks) - 1 :
        /\ Until(i - 1) <= t.offset /\ t.offset + t.length <= Until(i)

Ending == {t \in Transfers : ~Overlong(t)}

\* Every transfer ends, unless its list goes on after a first chunk that
\* holds all of its bytes (PRPList::read, SGL::read and write).
TransfersEnd ==
  \A c \in 1 .. MaxCommands :
    c \in DOMAIN cmds /\ cmds[c].transfer \in Ending
      ~> c \in DOMAIN cmds /\ cmds[c].at = "done"

=============================================================================
