---------------------------- MODULE OpenChannel -----------------------------
(***************************************************************************)
(* The open-channel SSD (hil/nvme/ocssd.cc), in which the host manages the *)
(* flash: version 1.2 with physical reads, writes and erases, version 2.0  *)
(* with chunks whose state and write pointer the device keeps, reads and   *)
(* writes by range, and vector commands.                                   *)
(*                                                                         *)
(* A command fetches its list of addresses, has it converted to pages of   *)
(* the flash, waits for a core, and hands the pages to the flash, which    *)
(* says when they are done; a priority queue of requests and one event     *)
(* carry the commands on at that time.  The flash takes 1 .. MaxNand ticks *)
(* for an operation (external: PAL).  A chunk is a number; the data of a   *)
(* block is the number of the command that wrote it, 0 for none.           *)
(*                                                                         *)
(* datasetManagement of version 2.0 is left out: it passes eraseInternal a *)
(* DMAContext, which is then used as an IOContext.                         *)
(***************************************************************************)
EXTENDS Integers, Sequences, FiniteSets, FiniteSetsExt, SequencesExt

CONSTANTS
  Chunks,       \* how many there are
  Pages,        \* of a chunk
  WriteSize,    \* blocks of a page
  Versions,     \* of the device, "1.2" or "2.0"
  VectorLists,  \* the lists of blocks a host may send
  Ranges,       \* the ranges <<slba, nlb>> a host may read and write
  MaskBits,     \* bits of the mask of refused entries: 64
  MaxNand,      \* bound: ticks of a flash operation
  MaxCommands   \* bound: commands of a behaviour

ASSUME OpenChannelAssumption ==
  /\ Chunks \in Nat \ {0} /\ Pages \in Nat \ {0} /\ WriteSize \in Nat \ {0}
  /\ MaxNand \in Nat \ {0} /\ MaskBits \in Nat

ChunkSize == Pages * WriteSize
Blocks == 0 .. Chunks * ChunkSize - 1
ChunkIds == 0 .. Chunks - 1

\* A host addresses blocks of the device; a range has one at least, as the
\* command gives their number less one.
ASSUME HostAssumption ==
  /\ VectorLists \subseteq Seq(Blocks)
  /\ \A r \in Ranges :
       r[1] \in Nat /\ r[2] \in Nat \ {0} /\ r[1] + r[2] <= Chunks * ChunkSize

VARIABLES
  version,         \* of the device
  chunks,          \* pDescriptor: the state and write pointer of each chunk
  disk,            \* pDisk: the data of each block
  cmds,            \* the commands
  completionQueue, \* requests the flash is working on: [cmd, finishedAt]
  lastScheduled,   \* the tick of the last completion event
  event,           \* the tick the completion event is scheduled for, or 0
  now,             \* the simulated time
  flash,           \* per chunk: the pages programmed since the last erase
  expected,        \* what the host knows of the data: a command, or -1
  unerased         \* history variable, read by DescriptorsTrue only: the chunks
                   \* that a reset set FREE and left out of its erase

vars == <<version, chunks, disk, cmds, completionQueue, lastScheduled,
          event, now, flash, expected, unerased>>

-----------------------------------------------------------------------------
(* Addresses.                                                              *)

parseLBA(lba) == <<lba \div ChunkSize, (lba % ChunkSize) \div WriteSize>>

\* The pages of a list of blocks; a page that repeats the one before it, or
\* for erases another page of the same chunk, is merged with it.
convertUnit(list, block) ==
  LET Same(a, b) == a[1] = b[1] /\ (block \/ a[2] = b[2])
      f[i \in 0 .. Len(list)] ==
        IF i = 0 THEN <<>>
        ELSE LET p == parseLBA(list[i])
             IN  IF f[i - 1] # <<>> /\ Same(Last(f[i - 1]), p)
                 THEN f[i - 1] ELSE Append(f[i - 1], p)
  IN  f[Len(list)]

Run(first, last) == [i \in 1 .. Max({0, last - first + 1}) |-> first + i - 1]

\* A range is handed on as the pair of its start and its length, and the
\* conversion takes the second for its end.
RangeList(c) == Run(c.lbas[1], Len(c.lbas) - 1)

-----------------------------------------------------------------------------
(* Chunks.  After the first entry that is refused every further one is put *)
(* into the mask of refused entries.  A write leaves their descriptors     *)
(* alone; a reset sets the closed ones FREE nevertheless.                  *)

\* A mistaken form of it: the page before the write pointer is let through.
WriteRefusedLate(d, page) ==
  \/ d.state \in {"OFFLINE", "CLOSED"}
  \/ d.state = "OPEN" /\ d.wp \div WriteSize > page + 1

WriteRefused(d, page) ==
  \/ d.state \in {"OFFLINE", "CLOSED"}
  \/ d.state = "OPEN" /\ d.wp \div WriteSize > page

Written(d, page) ==
  [state |-> IF page = Pages - 1 THEN "CLOSED" ELSE "OPEN",
   wp |-> (page + 1) * WriteSize]

\* The descriptors and the mask after a write of these pages.
Update(entries) ==
  LET f[i \in 0 .. Len(entries)] ==
        IF i = 0 THEN [chunks |-> chunks, mask |-> {}]
        ELSE LET c == entries[i][1]
                 page == entries[i][2]
                 r == f[i - 1]
             IN  IF r.mask # {} \/ WriteRefused(r.chunks[c], page)
                 THEN [r EXCEPT !.mask = @ \cup {i}]
                 ELSE [r EXCEPT !.chunks[c] = Written(@, page)]
  IN  f[Len(entries)]

EraseRefused(d) == d.state \in {"OFFLINE", "FREE", "OPEN"}

Erased == [state |-> "FREE", wp |-> 0]

\* The entries of a reset that are refused: also those of a chunk that an
\* earlier entry has set FREE.
RefusedErases(entries) ==
  {k \in DOMAIN entries :
     \/ EraseRefused(chunks[entries[k][1]])
     \/ \E j \in 1 .. k - 1 : entries[j][1] = entries[k][1]}

EraseMask(entries) ==
  {k \in DOMAIN entries : \E j \in RefusedErases(entries) : j <= k}

NamedBy(entries) == {entries[k][1] : k \in DOMAIN entries}

\* The chunks a reset sets FREE, wherever they stand in the list.
Freed(entries) == {c \in NamedBy(entries) : ~EraseRefused(chunks[c])}

\* What is left of the entries: the mask's are removed, as far as it goes.
Accepted(entries, mask) ==
  LET f[i \in 0 .. Len(entries)] ==
        IF i = 0 THEN <<>>
        ELSE IF i \in mask /\ i <= MaskBits THEN f[i - 1]
        ELSE Append(f[i - 1], entries[i])
  IN  f[Len(entries)]

\* The pages of a chunk among the entries.
PagesOf(chunk, entries) ==
  LET f[i \in 0 .. Len(entries)] ==
        IF i = 0 THEN <<>>
        ELSE IF entries[i][1] = chunk THEN Append(f[i - 1], entries[i][2])
        ELSE f[i - 1]
  IN  f[Len(entries)]

\* What a command makes of the pages programmed in a chunk.
Programmed(op, old, pages) ==
  IF op \in {"pageWrite", "vectorWrite", "write"} THEN old \o pages
  ELSE IF op \in {"blockErase", "vectorReset"} /\ pages # <<>> THEN <<>>
  ELSE old

-----------------------------------------------------------------------------
(* The host.  It has at most one command at work on a chunk: two of them   *)
(* may overtake each other between the descriptors and the flash, where a  *)
(* command waits for a core.  It need not look at the descriptors: its     *)
(* commands may be refused, in part or whole.                              *)

Outstanding == {i \in DOMAIN cmds : cmds[i].pc # "answered"}
ChunksOf(lbas) == {parseLBA(lbas[i])[1] : i \in DOMAIN lbas}
BusyChunks == UNION {ChunksOf(cmds[i].lbas) : i \in Outstanding}

Allowed(lbas) == ChunksOf(lbas) \cap BusyChunks = {}

Operations ==
  IF version = "1.2"
  THEN {"pageWrite", "pageRead", "blockErase"}
  ELSE {"vectorWrite", "vectorRead", "vectorReset"}

-----------------------------------------------------------------------------
(* Commands.                                                               *)

Init ==
  /\ version \in Versions
  /\ chunks = [c \in ChunkIds |-> [state |-> "FREE", wp |-> 0]]
  /\ disk = [b \in Blocks |-> 0] /\ expected = [b \in Blocks |-> 0]
  /\ flash = [c \in ChunkIds |-> <<>>]
  /\ cmds = <<>> /\ completionQueue = {} /\ unerased = {}
  /\ lastScheduled = 0 /\ event = 0 /\ now = 1

\* The command's addresses and, for writes by range and physical writes, its
\* data are fetched; nothing else happens until then.
Submit(op, lbas) ==
  /\ Len(cmds) < MaxCommands
  /\ Allowed(lbas)
  /\ cmds' = Append(cmds, [op |-> op, lbas |-> lbas, pc |-> "fetch",
                           entries |-> <<>>, mask |-> {}, data |-> <<>>])
  /\ UNCHANGED <<version, chunks, disk, completionQueue, lastScheduled, event,
                 now, flash, expected, unerased>>

BlocksOf(c) == Range(c.lbas)
Data(c) == [k \in DOMAIN c.lbas |-> disk[c.lbas[k]]]


\* The event is only moved when the first request is not the one it was last
\* scheduled for; pending is the tick it is scheduled for now.
updateCompletion(queue, pending) ==
  LET top == Min({r.finishedAt : r \in queue})
  IN  IF queue = {} \/ lastScheduled = top
      THEN UNCHANGED lastScheduled /\ event' = pending
      ELSE lastScheduled' = Max({top, now}) /\ event' = Max({top, now})

\* The pages go to the flash, which is done after some time, at once if there
\* are none.
ToFlash(i, c, entries) ==
  /\ \E d \in IF entries = <<>> THEN {0} ELSE 1 .. MaxNand :
       LET queue == completionQueue \cup {[cmd |-> i, finishedAt |-> now + d]}
       IN  completionQueue' = queue /\ updateCompletion(queue, event)
  /\ flash' = [k \in ChunkIds |-> Programmed(c.op, flash[k], PagesOf(k, entries))]
  /\ cmds' = [cmds EXCEPT ![i] = [c EXCEPT !.entries = entries, !.pc = "flash"]]

\* The physical commands of version 1.2, when all they need has been fetched;
\* their pages go to the flash at once.
Fetched(i, op) == cmds[i].pc = "fetch" /\ cmds[i].op = op

StoredAll(i, value) ==
  [b \in Blocks |-> IF b \in BlocksOf(cmds[i]) THEN value ELSE disk[b]]

\* Only the data of the named blocks is forgotten.
physicalBlockErase(i) ==
  /\ Fetched(i, "blockErase")
  /\ disk' = StoredAll(i, 0)
  /\ ToFlash(i, cmds[i], convertUnit(cmds[i].lbas, TRUE))
  /\ UNCHANGED <<version, chunks, now, expected, unerased>>

physicalPageWrite(i) ==
  /\ Fetched(i, "pageWrite")
  /\ disk' = StoredAll(i, i)
  /\ ToFlash(i, cmds[i], convertUnit(cmds[i].lbas, FALSE))
  /\ UNCHANGED <<version, chunks, now, expected, unerased>>

physicalPageRead(i) ==
  /\ Fetched(i, "pageRead")
  /\ ToFlash(i, [cmds[i] EXCEPT !.data = Data(cmds[i])],
             convertUnit(cmds[i].lbas, FALSE))
  /\ UNCHANGED <<version, chunks, disk, now, expected, unerased>>

\* The commands of version 2.0 wait for a core with what is accepted of their
\* entries.
WaitForCore(i, entries, mask) ==
  /\ cmds' = [cmds EXCEPT ![i].pc = "core", ![i].mask = mask,
                          ![i].entries = Accepted(entries, mask)]
  /\ UNCHANGED <<version, completionQueue, lastScheduled, event, now, flash,
                 expected>>

\* Nothing is refused.
readInternal(i, list) ==
  /\ WaitForCore(i, convertUnit(list, FALSE), {})
  /\ UNCHANGED <<chunks, disk, unerased>>

writeInternal(i, list) ==
  LET entries == convertUnit(list, FALSE)
      u == Update(entries)
  IN  chunks' = u.chunks /\ WaitForCore(i, entries, u.mask) /\ UNCHANGED unerased

\* The mask's entries are not erased, although a chunk of theirs may have been
\* set FREE.
eraseInternal(i, list) ==
  LET entries == convertUnit(list, TRUE)
      mask == EraseMask(entries)
      freed == Freed(entries)
  IN  /\ chunks' = [c \in ChunkIds |-> IF c \in freed THEN Erased ELSE chunks[c]]
      /\ WaitForCore(i, entries, mask)
      /\ unerased' = (unerased \cup freed) \ NamedBy(Accepted(entries, mask))

read(i) == Fetched(i, "read") /\ readInternal(i, RangeList(cmds[i]))

\* The data is stored before the chunks are asked.
write(i) ==
  /\ Fetched(i, "write")
  /\ disk' = StoredAll(i, i)
  /\ writeInternal(i, RangeList(cmds[i]))

vectorChunkRead(i) ==
  Fetched(i, "vectorRead") /\ readInternal(i, cmds[i].lbas)

\* The data is fetched when the flash is done.
vectorChunkWrite(i) ==
  /\ Fetched(i, "vectorWrite")
  /\ writeInternal(i, cmds[i].lbas)
  /\ UNCHANGED disk

\* The data of the chunk stays.
vectorChunkReset(i) ==
  /\ Fetched(i, "vectorReset")
  /\ eraseInternal(i, cmds[i].lbas)
  /\ UNCHANGED disk

\* A core takes up the command: doRead, doWrite or doErase.
Execute(i) ==
  /\ cmds[i].pc = "core"
  /\ ToFlash(i, cmds[i], cmds[i].entries)
  /\ UNCHANGED <<version, chunks, disk, now, expected, unerased>>

\* What the host knows once these commands are answered: a refused write may
\* have stored anything, and an erased chunk is not to be read.
Learn(answered) ==
  LET Of(ops) == {i \in answered : cmds[i].op \in ops}
      Unknown(b) ==
        \/ \E i \in answered : cmds[i].mask # {} /\ b \in BlocksOf(cmds[i])
        \/ \E i \in Of({"blockErase", "vectorReset"}) :
             parseLBA(b)[1] \in ChunksOf(cmds[i].lbas)
      Writers(b) == {i \in Of({"pageWrite", "write", "vectorWrite"}) :
                       b \in BlocksOf(cmds[i])}
  IN  [b \in Blocks |->
         IF Unknown(b) THEN -1
         ELSE IF Writers(b) # {} THEN Max(Writers(b)) ELSE expected[b]]

\* The completion event: every request whose time has come is carried on.
\* Writes by range, erases and physical writes are answered; reads have their
\* data sent, and a vector write has its data fetched now.
completion ==
  /\ event # 0 /\ now = event
  /\ LET due == {r \in completionQueue : r.finishedAt <= now}
         ended == {r.cmd : r \in due}
         sends == {i \in ended : cmds[i].op \in
                     {"read", "vectorRead", "pageRead", "vectorWrite"}}
     IN  /\ cmds' = [i \in DOMAIN cmds |->
                       IF i \in sends
                       THEN [cmds[i] EXCEPT !.pc = "data",
                               !.data = IF cmds[i].op \in {"read", "vectorRead"}
                                        THEN Data(cmds[i]) ELSE @]
                       ELSE IF i \in ended
                       THEN [cmds[i] EXCEPT !.pc = "answered"]
                       ELSE cmds[i]]
         /\ expected' = Learn(ended \ sends)
         /\ completionQueue' = completionQueue \ due
         /\ updateCompletion(completionQueue \ due, 0)
  /\ UNCHANGED <<version, chunks, disk, now, flash, unerased>>

\* A mistaken form of it: the mask of a write that was accepted, which has all
\* bits set, is not cleared.
StoredByMask(i, c) == IF c.mask = {} THEN disk ELSE
  [b \in Blocks |->
     IF \E k \in DOMAIN c.lbas : c.lbas[k] = b /\ k \notin c.mask
     THEN i ELSE disk[b]]

\* The data was moved.  A vector write stores the blocks its mask leaves; the
\* mask counts pages, the blocks are counted one by one.
Stored(i, c) ==
  [b \in Blocks |->
     IF \E k \in DOMAIN c.lbas : c.lbas[k] = b /\ k \notin c.mask
     THEN i ELSE disk[b]]

DataDone(i) ==
  LET c == cmds[i]
  IN  /\ c.pc = "data"
      /\ disk' = IF c.op = "vectorWrite" THEN Stored(i, c) ELSE disk
      /\ cmds' = [cmds EXCEPT ![i].pc = "answered"]
      /\ expected' = Learn({i})
      /\ UNCHANGED <<version, chunks, completionQueue, lastScheduled, event, now,
                     flash, unerased>>

\* Time goes on to the next event; without one a tick past the last is enough,
\* as now is only compared with it.
Advance ==
  /\ IF event = 0 THEN now = lastScheduled ELSE now < event
  /\ now' = now + 1
  /\ UNCHANGED <<version, chunks, disk, cmds, completionQueue, lastScheduled,
                 event, flash, expected, unerased>>

Next ==
  \/ \E op \in Operations, lbas \in VectorLists : Submit(op, lbas)
  \/ /\ version = "2.0"
     /\ \E op \in {"read", "write"}, r \in Ranges :
          Submit(op, Run(r[1], r[1] + r[2] - 1))
  \/ \E i \in DOMAIN cmds : physicalBlockErase(i)
  \/ \E i \in DOMAIN cmds : physicalPageWrite(i)
  \/ \E i \in DOMAIN cmds : physicalPageRead(i)
  \/ \E i \in DOMAIN cmds : read(i)
  \/ \E i \in DOMAIN cmds : write(i)
  \/ \E i \in DOMAIN cmds : vectorChunkRead(i)
  \/ \E i \in DOMAIN cmds : vectorChunkWrite(i)
  \/ \E i \in DOMAIN cmds : vectorChunkReset(i)
  \/ \E i \in DOMAIN cmds : Execute(i)
  \/ \E i \in DOMAIN cmds : DataDone(i)
  \/ completion
  \/ Advance

Spec == Init /\ [][Next]_vars

\* Weak fairness of everything but new commands: transfers and cores come to
\* an end, and time goes on to the next event.
Busy == event # 0 \/ \E i \in DOMAIN cmds : cmds[i].pc \in {"fetch", "core", "data"}
Fairness == []<>~Busy \/ []<><<Len(cmds') = Len(cmds)>>_vars
FairSpec == Spec /\ Fairness

-----------------------------------------------------------------------------
(* Properties.                                                             *)

Ascending(s) == \A j, k \in DOMAIN s : j < k => s[j] < s[k]

\* The descriptor of a chunk without a command tells what was done to the
\* flash: its pages were programmed in ascending order and once each, a free
\* chunk was erased, a closed one has its last page, and the write pointer is
\* behind the last page programmed.  Writes may be refused, in part or whole.
\* Left out are the chunks that a partly refused reset set FREE without erasing
\* them, until a reset does erase them: of these it is false
\* (FreeChunksHoldNoPage).
DescriptorsTrue ==
  version = "2.0" =>
    \A c \in ChunkIds \ (BusyChunks \cup unerased) :
      LET pages == flash[c]
      IN  /\ Ascending(pages)
          /\ chunks[c].state = "FREE" <=> pages = <<>>
          /\ pages # <<>> =>
               /\ chunks[c].wp = (Last(pages) + 1) * WriteSize
               /\ chunks[c].state = "CLOSED" <=> Last(pages) = Pages - 1

\* A read returns what the host last wrote and was told about.
ReadsNewest ==
  \A i \in DOMAIN cmds :
    LET c == cmds[i]
    IN  c.pc = "data" /\ c.op # "vectorWrite" =>
          \A k \in DOMAIN c.lbas :
            expected[c.lbas[k]] # -1 => c.data[k] = expected[c.lbas[k]]

\* No command comes to the flash without a page: none has all its entries
\* refused, and no range is one that the conversion makes empty, as <<2, 2>> is.
AllReachFlash ==
  \A i \in DOMAIN cmds : cmds[i].pc = "flash" => cmds[i].entries # <<>>

\* Every command is answered, refused in part or not: the one event is always
\* there for the next request (updateCompletion, completion).  This is said of
\* behaviours in which every command brings the flash some page.  One that
\* brings none ends at once, at a tick for which the event may have been
\* scheduled last: then no event is scheduled for it nor for any command after
\* it, and none is answered (CommandsAnswered).
AllAnswered == []AllReachFlash => <>[](Outstanding = {})

\* The same of all commands, which the code does not keep.
CommandsAnswered == <>[](Outstanding = {})

\* ocssd.hh: a chunk that is FREE is "Erased (WP = 0)": nothing was stored in it.
FreeChunksAreErased ==
  version = "2.0" =>
    \A b \in Blocks :
      chunks[parseLBA(b)[1]].state = "FREE" /\ flash[parseLBA(b)[1]] = <<>>
        => expected[b] <= 0

\* The same line of ocssd.hh: the flash of a free chunk without a command was
\* erased.  The code does not keep it for the entries behind a refused one of a
\* reset.
FreeChunksHoldNoPage ==
  version = "2.0" =>
    \A c \in ChunkIds \ BusyChunks : chunks[c].state = "FREE" => flash[c] = <<>>
====
