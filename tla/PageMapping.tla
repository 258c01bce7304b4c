---------------------------- MODULE PageMapping ----------------------------
(***************************************************************************)
(* The page-level flash translation layer (simplessd/ftl/page_mapping.cc   *)
(* with the block bookkeeping of simplessd/ftl/common/block.cc).           *)
(*                                                                         *)
(* One call of FTL::read, write, trim, format or DecachePage runs to its   *)
(* end before the next one starts.  A write that triggers garbage          *)
(* collection is a long computation, so it is split into steps: pc says    *)
(* which step the call in progress takes next, and a new call starts only  *)
(* when pc = "idle".  The steps are never optional.                        *)
(*                                                                         *)
(* The model is the shipped geometry with one I/O unit per page, for which *)
(* every mapping list has one element.  A panic() ends the process: it is  *)
(* recorded in the variable panic and nothing happens afterwards.          *)
(***************************************************************************)
EXTENDS Integers, FiniteSets, SequencesExt

CONSTANTS
  TotalPhysicalBlocks,  \* param.totalPhysicalBlocks
  TotalLogicalBlocks,   \* param.totalLogicalBlocks
  PagesInBlock,         \* param.pagesInBlock
  PageCountToMaxPerf,   \* param.pageCountToMaxPerf, the number of open blocks
  GCFreeBlocks,         \* GC starts below this many free blocks (GCThreshold)
  ReclaimBlocks,        \* GCReclaimBlocks, n of GC mode 0
  PageAwareOfCache,     \* pageAwareofCache of global_point.cc
  EraseThreshold,       \* erase count at which a block is retired
  RandomTweak,          \* EnableRandomIOTweak
  EnableCMT,            \* enableCMT: the cached mapping table is in use
  CmtSize,              \* cmtSize
  FillingMode,          \* 0, 1 or 2
  PagesToWarmup,        \* nPagesToWarmup, from FillRatio
  PagesToInvalidate,    \* nPagesToInvalidate, from InvalidPageRatio
  WordSize,             \* stands for 2^64, the modulus of uint64_t
  HostReads,            \* the LPNs the cache layer reads   (bounds a run)
  HostTrims,            \* the LPNs the cache layer trims   (bounds a run)
  FormatRanges          \* the LPN ranges NVMe may format   (bounds a run)

ASSUME GeometryAssumption ==
  /\ TotalPhysicalBlocks \in Nat /\ TotalLogicalBlocks \in Nat \ {0}
  /\ PagesInBlock \in Nat \ {0}
  /\ PageCountToMaxPerf \in Nat \ {0}
  /\ TotalPhysicalBlocks > TotalLogicalBlocks + PageCountToMaxPerf

Block == 0 .. TotalPhysicalBlocks - 1
Page  == 0 .. PagesInBlock - 1
Chan  == 0 .. PageCountToMaxPerf - 1
LPN   == 0 .. TotalLogicalBlocks * PagesInBlock - 1

ASSUME OptionAssumption ==
  /\ GCFreeBlocks \in Nat /\ ReclaimBlocks \in Nat \ {0}
  /\ EraseThreshold \in Nat \ {0}
  /\ CmtSize \in Nat
  /\ PageAwareOfCache \in BOOLEAN /\ RandomTweak \in BOOLEAN
  /\ EnableCMT \in BOOLEAN
  /\ FillingMode \in 0 .. 2
  /\ PagesToWarmup \in Nat /\ PagesToInvalidate \in Nat
  /\ WordSize \in Nat \ {0}
  /\ HostReads \subseteq LPN /\ HostTrims \subseteq LPN
  /\ FormatRanges \subseteq SUBSET LPN

-----------------------------------------------------------------------------
(***************************************************************************)
(* What a page holds: nothing (its erased bit is set), dead data (neither  *)
(* bit is set) or, when its valid bit is set, the page of an LPN.          *)
(***************************************************************************)
ErasedPage == -2
DeadPage   == -1
Content == LPN \cup {ErasedPage, DeadPage}

(***************************************************************************)
(* A mapping is a block and a page.  The pair writeInternal() puts in a    *)
(* fresh entry is out of range on purpose; an LPN without entry is NoEntry. *)
(***************************************************************************)
Loc(b, p) == [block |-> b, page |-> p]
NoEntry == Loc(-1, -1)
FreshEntry == Loc(TotalPhysicalBlocks, PagesInBlock)
Mapping == [block : Block, page : Page] \cup {NoEntry, FreshEntry}

InRange(m) == m.block \in Block /\ m.page \in Page

(***************************************************************************)
(* The calls that may abort the process.                                   *)
(***************************************************************************)
Panics == {"none", "Corrupted", "No free block left", "Block is not in use",
           "Invalid block", "Invalid mapping table entry", "No such block",
           "GC triggered while in initialization",
           "Write to non erased page", "table.begin() of an empty table"}

VARIABLES
  freeBlocks,         \* the list of free blocks, sorted by erase count
  nFreeBlocks,        \* its length, kept separately
  blocks,             \* the keys of the map of blocks in use
  content,            \* valid and erased bits and pLPNs of every block
  nextWrite,          \* pNextWritePageIndex of every block
  eraseCount,         \* eraseCount of every block
  cached,             \* pCachedBits of every block
  lastFreeBlock,      \* the open block of every channel
  lastFreeBlockIndex, \* the channel used last
  ioMapSet,           \* lastFreeBlockIOMap.any()
  erasedIds,          \* the set of erased_block_id
  table,              \* the mapping table
  cmt,                \* the cached mapping table
  cmtOrder,           \* its keys, least recently accessed first ...
  cmtWild,            \* ... but for those whose access time is uninitialized
  filled,             \* writes done by initialize()
  gcStopped,          \* iclCount > SimlationIORequests
  pc,                 \* the step of the call in progress
  req,                \* the write in progress: LPN, table entry, sendToPAL
  gc,                 \* the collection: victims, the current one, its page
  dest,               \* the block getLastFreeBlock() returned
  panic               \* the panic that ended the process, or "none"

blockVars == <<content, nextWrite, eraseCount, cached>>
poolVars  == <<freeBlocks, nFreeBlocks, blocks>>
openVars  == <<lastFreeBlock, lastFreeBlockIndex, ioMapSet, erasedIds>>
cmtVars   == <<cmt, cmtOrder, cmtWild>>
vars == <<blockVars, poolVars, openVars, cmtVars, table, filled, gcStopped,
          pc, req, gc, dest, panic>>

NoReq == [lpn |-> -1, entry |-> -1, toPAL |-> TRUE]
NoGC  == [victims |-> <<>>, at |-> 1, page |-> 0]

\* Mutant: the block is taken to be full one page too late.
FullLate(b) == nextWrite[b] > PagesInBlock

(***************************************************************************)
(* The block contains no more erased page (getNextWritePageIndex()).       *)
(***************************************************************************)
Full(b) == nextWrite[b] = PagesInBlock

ValidPages(b) == {p \in Page : content[b][p] \in LPN}

Fail(why) == pc' = "panic" /\ panic' = why

-----------------------------------------------------------------------------
(***************************************************************************)
(* PageMapping::PageMapping: every block is free and erased; one block per *)
(* channel is opened, block i for channel i.                               *)
(***************************************************************************)
Init ==
  /\ freeBlocks = [i \in 1 .. TotalPhysicalBlocks - PageCountToMaxPerf |->
                     PageCountToMaxPerf + i - 1]
  /\ nFreeBlocks = TotalPhysicalBlocks - PageCountToMaxPerf
  /\ blocks = Chan
  /\ content = [b \in Block |-> [p \in Page |-> ErasedPage]]
  /\ nextWrite = [b \in Block |-> 0]
  /\ eraseCount = [b \in Block |-> 0]
  /\ cached = [b \in Block |-> {}]
  /\ lastFreeBlock = [i \in Chan |-> i]
  /\ lastFreeBlockIndex = 0
  /\ ioMapSet = FALSE
  /\ erasedIds = {}
  /\ table = [l \in LPN |-> NoEntry]
  /\ cmt = [l \in LPN |-> NoEntry]
  /\ cmtOrder = <<>>
  /\ cmtWild = {}
  /\ filled = 0
  /\ gcStopped = FALSE
  /\ pc = "fill"
  /\ req = NoReq
  /\ gc = NoGC
  /\ dest = 0
  /\ panic = "none"

-----------------------------------------------------------------------------
\* Mutant: the erased bit is set instead of the valid bit being reset.
InvalidatedWrongBit(c, m) ==
  IF c[m.block][m.page] \in LPN THEN [c EXCEPT ![m.block][m.page] = ErasedPage]
                                ELSE c

(***************************************************************************)
(* Block::invalidate resets the valid bit: an erased page stays erased.    *)
(***************************************************************************)
Invalidated(c, m) ==
  IF c[m.block][m.page] \in LPN THEN [c EXCEPT ![m.block][m.page] = DeadPage]
                                ELSE c

(***************************************************************************)
(* The cached mapping table: its keys, an access that makes key l the most *)
(* recently used one, and the keys evictEntryFromCMT() may find to be the  *)
(* oldest.  An entry loaded by a read miss gets an uninitialized access    *)
(* time, so it may compare below or above any other.                       *)
(***************************************************************************)
CmtKeys == {l \in LPN : cmt[l] # NoEntry}

Oldest == cmtWild \cup IF cmtOrder = <<>> THEN {} ELSE {Head(cmtOrder)}

(***************************************************************************)
(* evictEntryFromCMT: nothing below the size; else the oldest key goes,    *)
(* unless that key is 0, the value that also means "none found".           *)
(***************************************************************************)
NoKey == -1

Evicted ==
  IF Cardinality(CmtKeys) < CmtSize \/ Oldest = {} THEN {NoKey}
  ELSE {IF k = 0 THEN NoKey ELSE k : k \in Oldest}

(***************************************************************************)
(* Entry m for key l is loaded into the CMT after the eviction of key out. *)
(***************************************************************************)
CmtLoad(l, m, out, wild) ==
  LET left == RemoveFirst(RemoveFirst(cmtOrder, out), l)
  IN  /\ cmt' = [k \in LPN |-> IF k = l THEN m
                               ELSE IF k = out THEN NoEntry ELSE cmt[k]]
      /\ cmtOrder' = IF wild THEN left ELSE Append(left, l)
      /\ cmtWild' = IF wild THEN (cmtWild \ {out}) \cup {l}
                            ELSE cmtWild \ {out, l}

CmtTouch(l) ==
  /\ cmt' = cmt
  /\ cmtOrder' = Append(RemoveFirst(cmtOrder, l), l)
  /\ cmtWild' = cmtWild \ {l}

-----------------------------------------------------------------------------
(***************************************************************************)
(* readInternal, once the mapping m is found: a block whose id is in       *)
(* erased_block_id is silently skipped, a block that is not in use is a    *)
(* panic, and Block::read sets the cached bit of the page.                 *)
(***************************************************************************)
ReadPage(m) ==
  IF ~InRange(m) \/ m.block \in erasedIds
  THEN UNCHANGED <<cached, pc, panic>>
  ELSE IF m.block \notin blocks
  THEN Fail("Block is not in use") /\ UNCHANGED cached
  ELSE /\ cached' = [cached EXCEPT ![m.block] = @ \cup {m.page}]
       /\ UNCHANGED <<pc, panic>>

(***************************************************************************)
(* PageMapping::read.                                                      *)
(***************************************************************************)
ReadCmtHit(l) ==
  /\ pc = "idle" /\ EnableCMT /\ cmt[l] # NoEntry
  /\ CmtTouch(l)
  /\ ReadPage(cmt[l])
  /\ UNCHANGED <<poolVars, openVars, content, nextWrite, eraseCount, table,
                 filled, gcStopped, req, gc, dest>>

ReadTable(l) ==
  /\ pc = "idle" /\ ~(EnableCMT /\ cmt[l] # NoEntry)
  /\ table[l] # NoEntry
  /\ IF EnableCMT /\ InRange(table[l])
     THEN \E out \in Evicted : CmtLoad(l, table[l], out, TRUE)
     ELSE UNCHANGED cmtVars
  /\ ReadPage(table[l])
  /\ UNCHANGED <<poolVars, openVars, content, nextWrite, eraseCount, table,
                 filled, gcStopped, req, gc, dest>>

-----------------------------------------------------------------------------
(***************************************************************************)
(* PageMapping::undoCached, called when the cache layer evicts a line.     *)
(***************************************************************************)
UndoCached(l) ==
  /\ pc = "idle"
  /\ InRange(table[l]) /\ table[l].block \in blocks
  /\ cached' = [cached EXCEPT ![table[l].block] = @ \ {table[l].page}]
  /\ UNCHANGED <<poolVars, openVars, cmtVars, content, nextWrite, eraseCount,
                 table, filled, gcStopped, pc, req, gc, dest, panic>>

(***************************************************************************)
(* PageMapping::trim: the page is invalidated and the entry removed from   *)
(* the table; the CMT is left as it is.                                    *)
(***************************************************************************)
Trim(l) ==
  /\ pc = "idle"
  /\ table[l] # NoEntry
  /\ IF table[l].block \in blocks
     THEN /\ content' = Invalidated(content, table[l])
          /\ table' = [table EXCEPT ![l] = NoEntry]
          /\ UNCHANGED <<pc, panic>>
     ELSE Fail("Block is not in use") /\ UNCHANGED <<content, table>>
  /\ UNCHANGED <<poolVars, openVars, cmtVars, nextWrite, eraseCount, cached,
                 filled, gcStopped, req, gc, dest>>

-----------------------------------------------------------------------------
\* Mutant: the overwritten page stays valid.
KeepOld(m) == content' = content

(***************************************************************************)
(* writeInternal, first part: find the old page and invalidate it if its   *)
(* block is in use, and find the table entry that will be updated.         *)
(*   - CMT hit: the old page is the one of the CMT, and the entry is       *)
(*     table.begin(), the entry of some key of the table;                  *)
(*   - otherwise the entry of l, created if there is none.                 *)
(***************************************************************************)
InvalidateOld(m) ==
  content' = IF InRange(m) /\ m.block \in blocks THEN Invalidated(content, m)
                                                 ELSE content

WriteCmtHit(l) ==
  /\ pc = "idle" /\ EnableCMT /\ cmt[l] # NoEntry
  /\ CmtTouch(l)
  /\ InvalidateOld(cmt[l])
  /\ IF \A k \in LPN : table[k] = NoEntry
     THEN Fail("table.begin() of an empty table") /\ UNCHANGED req
     ELSE /\ \E k \in LPN : /\ table[k] # NoEntry
                            /\ req' = [lpn |-> l, entry |-> k, toPAL |-> TRUE]
          /\ pc' = "alloc"
          /\ UNCHANGED panic
  /\ UNCHANGED <<poolVars, openVars, nextWrite, eraseCount, cached, table,
                 filled, gcStopped, gc, dest>>

WriteLookup(l, toPAL) ==
  /\ InvalidateOld(table[l])
  /\ table' = [table EXCEPT ![l] = IF @ = NoEntry THEN FreshEntry ELSE @]
  /\ req' = [lpn |-> l, entry |-> l, toPAL |-> toPAL]
  /\ pc' = "alloc"
  /\ UNCHANGED <<poolVars, openVars, cmtVars, nextWrite, eraseCount, cached,
                 gcStopped, gc, dest, panic>>

Write(l) ==
  /\ pc = "idle" /\ ~(EnableCMT /\ cmt[l] # NoEntry)
  /\ WriteLookup(l, TRUE)
  /\ UNCHANGED filled

(***************************************************************************)
(* PageMapping::initialize fills nPagesToWarmup pages, then overwrites     *)
(* nPagesToInvalidate.  When the two would need more pages than there are  *)
(* before GC starts, the second number is reduced, in uint64_t arithmetic. *)
(***************************************************************************)
MaxPagesBeforeGC ==
  PagesInBlock * (TotalPhysicalBlocks - GCFreeBlocks - PageCountToMaxPerf)

FillTarget ==
  PagesToWarmup +
    IF PagesToWarmup + PagesToInvalidate > MaxPagesBeforeGC
    THEN (MaxPagesBeforeGC - PagesToWarmup) % WordSize
    ELSE PagesToInvalidate

(***************************************************************************)
(* The LPN of the n-th write of initialize(), by FillingMode.              *)
(***************************************************************************)
FillLPNs(n) ==
  IF n < PagesToWarmup THEN IF FillingMode = 2 THEN LPN ELSE {n}
  ELSE IF FillingMode = 0 THEN {n - PagesToWarmup}
  ELSE IF FillingMode = 1 THEN 0 .. PagesToWarmup - 1
  ELSE LPN

FillWrite(l) ==
  /\ pc = "fill" /\ filled < FillTarget
  /\ l \in FillLPNs(filled)
  /\ filled' = filled + 1
  /\ WriteLookup(l, FALSE)

FillDone ==
  /\ pc = "fill" /\ filled = FillTarget
  /\ pc' = "idle"
  /\ UNCHANGED <<poolVars, openVars, cmtVars, blockVars, table, filled,
                 gcStopped, req, gc, dest, panic>>

-----------------------------------------------------------------------------
(***************************************************************************)
(* getFreeBlock(c): the first free block of channel c, else the first one. *)
(***************************************************************************)
FreePosition(c) ==
  LET own == {i \in 1 .. Len(freeBlocks) :
                freeBlocks[i] % PageCountToMaxPerf = c}
  IN  IF own = {} THEN 1 ELSE Min(own)

\* Mutant: the block found is not taken out of the list.
GetFreeBlockKeepsIt(c) ==
  LET b == freeBlocks[FreePosition(c)]
  IN  IF nFreeBlocks = 0
      THEN Fail("No free block left")
           /\ UNCHANGED <<poolVars, lastFreeBlock, dest>>
      ELSE /\ blocks' = blocks \cup {b}
           /\ freeBlocks' = freeBlocks
           /\ nFreeBlocks' = nFreeBlocks
           /\ lastFreeBlock' = [lastFreeBlock EXCEPT ![c] = b]
           /\ dest' = b
           /\ pc' = "program"
           /\ UNCHANGED panic

(***************************************************************************)
(* The open block of channel c is replaced by a free block.                *)
(***************************************************************************)
GetFreeBlock(c) ==
  LET i == FreePosition(c)
      b == freeBlocks[i]
  IN  IF nFreeBlocks = 0
      THEN Fail("No free block left")
           /\ UNCHANGED <<poolVars, lastFreeBlock, dest>>
      ELSE IF b \in blocks
      THEN Fail("Corrupted") /\ UNCHANGED <<poolVars, lastFreeBlock, dest>>
      ELSE /\ blocks' = blocks \cup {b}
           /\ freeBlocks' = RemoveAt(freeBlocks, i)
           /\ nFreeBlocks' = nFreeBlocks - 1
           /\ lastFreeBlock' = [lastFreeBlock EXCEPT ![c] = b]
           /\ dest' = b
           /\ pc' = "program"
           /\ UNCHANGED panic

(***************************************************************************)
(* The channel getLastFreeBlock() turns to: the next one, round robin, but *)
(* for the very first call when the random I/O tweak is on.                *)
(***************************************************************************)
NextChannel ==
  IF ~RandomTweak \/ ioMapSet
  THEN IF lastFreeBlockIndex + 1 = PageCountToMaxPerf
       THEN 0 ELSE lastFreeBlockIndex + 1
  ELSE lastFreeBlockIndex

\* Mutant: the index does not wrap to the first channel.
TurnChannelNoWrap ==
  /\ lastFreeBlockIndex' = lastFreeBlockIndex + 1
  /\ ioMapSet' = TRUE
  /\ UNCHANGED <<blockVars, cmtVars, table, filled, gcStopped, req, gc>>

(***************************************************************************)
(* getLastFreeBlock, for the write (or the page copy) in progress.  The    *)
(* open block of the channel is kept, or replaced because its id is in     *)
(* erased_block_id, or because it is full.                                 *)
(***************************************************************************)
TurnChannel ==
  /\ lastFreeBlockIndex' = NextChannel
  /\ ioMapSet' = TRUE
  /\ UNCHANGED <<blockVars, cmtVars, table, filled, gcStopped, req, gc>>

UseOpenBlock ==
  LET b == lastFreeBlock[NextChannel]
  IN  /\ pc = "alloc"
      /\ b \notin erasedIds /\ ~(b \in blocks /\ Full(b))
      /\ TurnChannel
      /\ IF b \in blocks
         THEN dest' = b /\ pc' = "program" /\ UNCHANGED panic
         ELSE Fail("Corrupted") /\ UNCHANGED dest
      /\ UNCHANGED <<poolVars, lastFreeBlock, erasedIds>>

ReplaceErasedBlock ==
  LET b == lastFreeBlock[NextChannel]
  IN  /\ pc = "alloc"
      /\ b \in erasedIds
      /\ TurnChannel
      /\ GetFreeBlock(NextChannel)
      /\ erasedIds' = IF nFreeBlocks = 0 THEN erasedIds ELSE erasedIds \ {b}

ReplaceFullBlock ==
  LET b == lastFreeBlock[NextChannel]
  IN  /\ pc = "alloc"
      /\ b \notin erasedIds /\ b \in blocks /\ Full(b)
      /\ TurnChannel
      /\ GetFreeBlock(NextChannel)
      /\ UNCHANGED erasedIds

-----------------------------------------------------------------------------
(***************************************************************************)
(* Block::write of LPN l into the next page of dest, over the content c.   *)
(***************************************************************************)
NextPage == nextWrite[dest]

Writable == NextPage \in Page /\ content[dest][NextPage] = ErasedPage

Programmed(c, l) == [c EXCEPT ![dest][NextPage] = l]

(***************************************************************************)
(* freeBlockRatio() < gcThreshold.                                         *)
(***************************************************************************)
NeedsGC == nFreeBlocks < GCFreeBlocks

(***************************************************************************)
(* writeInternal, last part: the page is written, the entry updated and,   *)
(* for a host write, the CMT loaded.  GC follows when free blocks are few. *)
(***************************************************************************)
AfterWrite ==
  IF NeedsGC /\ ~req.toPAL
  THEN Fail("GC triggered while in initialization")
  ELSE /\ pc' = IF NeedsGC THEN "select"
                ELSE IF req.toPAL THEN "idle" ELSE "fill"
       /\ UNCHANGED panic

WritePage ==
  LET m == Loc(dest, NextPage)
  IN  /\ pc = "program" /\ req # NoReq
      /\ IF Writable
         THEN /\ content' = Programmed(content, req.lpn)
              /\ nextWrite' = [nextWrite EXCEPT ![dest] = @ + 1]
              /\ table' = [table EXCEPT ![req.entry] = m]
              /\ IF EnableCMT /\ req.toPAL
                 THEN \E out \in Evicted : CmtLoad(req.lpn, m, out, FALSE)
                 ELSE UNCHANGED cmtVars
              /\ AfterWrite
         ELSE /\ Fail("Write to non erased page")
              /\ UNCHANGED <<content, nextWrite, table, cmtVars>>
      /\ req' = NoReq
      /\ dest' = 0
      /\ UNCHANGED <<poolVars, openVars, eraseCount, cached, filled,
                     gcStopped, gc>>

-----------------------------------------------------------------------------
(***************************************************************************)
(* selectVictimBlock, greedy policy: only full blocks are candidates, the  *)
(* fewest valid pages first; cache aware, the most cached pages next.      *)
(***************************************************************************)
Candidates == {b \in blocks : Full(b)}

NValid(b) == Cardinality(ValidPages(b))

Better(a, b) ==
  \/ NValid(a) < NValid(b)
  \/ /\ PageAwareOfCache
     /\ NValid(a) = NValid(b)
     /\ Cardinality(cached[a]) > Cardinality(cached[b])

(***************************************************************************)
(* The victim list.  Cache aware, findVictimBlock() returns the head of    *)
(* the sorted weights every time it is called, so the list repeats it.     *)
(***************************************************************************)
Reclaimed == IF ReclaimBlocks < Cardinality(Candidates)
             THEN ReclaimBlocks ELSE Cardinality(Candidates)

VictimLists ==
  IF PageAwareOfCache
  THEN IF Candidates = {} THEN {<<>>}
       ELSE {[i \in 1 .. Reclaimed |-> v] :
               v \in {a \in Candidates : \A b \in Candidates : ~Better(b, a)}}
  ELSE {s \in [1 .. Reclaimed -> Candidates] :
          /\ IsInjective(s)
          /\ \A i \in 1 .. Reclaimed :
               \A b \in Candidates :
                 Better(b, s[i]) => \E j \in 1 .. i - 1 : s[j] = b}

(***************************************************************************)
(* doGarbageCollection returns at once past the request limit of the       *)
(* simulation, or when there is no victim.                                 *)
(***************************************************************************)
StartGC(list) ==
  IF gcStopped \/ list = <<>>
  THEN pc' = "idle" /\ gc' = NoGC
  ELSE pc' = "scan" /\ gc' = [victims |-> list, at |-> 1, page |-> 0]

SelectVictimBlock ==
  /\ pc = "select"
  /\ \E list \in VictimLists : StartGC(list)
  /\ UNCHANGED <<blockVars, poolVars, openVars, cmtVars, table, filled,
                 gcStopped, req, dest, panic>>

\* Mutant: the first page of a victim is skipped.
PagesLeftSkipsFirst == {p \in ValidPages(gc.victims[gc.at]) : p > gc.page}

(***************************************************************************)
(* doGarbageCollection looks for the next valid page of the current        *)
(* victim, and goes on to the next victim when there is none.              *)
(***************************************************************************)
Victim == gc.victims[gc.at]

\* Mutant: the same victim again.
SameVictim == [gc EXCEPT !.page = 0]

PagesLeft == {p \in ValidPages(Victim) : p >= gc.page}

NextVictim == [gc EXCEPT !.at = @ + 1, !.page = 0]

ScanVictim ==
  /\ pc = "scan"
  /\ IF Victim \notin blocks
     THEN Fail("Invalid block") /\ UNCHANGED gc
     ELSE IF PagesLeft # {}
     THEN /\ gc' = [gc EXCEPT !.page = Min(PagesLeft)]
          /\ pc' = "alloc"
          /\ UNCHANGED panic
     ELSE /\ IF gc.at < Len(gc.victims)
             THEN gc' = NextVictim /\ pc' = "scan"
             ELSE /\ gc' = [gc EXCEPT !.at = 1, !.page = 0]
                  /\ pc' = "erase"
          /\ UNCHANGED panic
  /\ UNCHANGED <<blockVars, poolVars, openVars, cmtVars, table, filled,
                 gcStopped, req, dest>>

(***************************************************************************)
(* The copy of one valid page: the source is invalidated, the table and    *)
(* the CMT follow the page, and the page is written to the open block.     *)
(***************************************************************************)
CopyPage ==
  LET l == content[Victim][gc.page]
      m == Loc(dest, NextPage)
      invalidated == Invalidated(content, Loc(Victim, gc.page))
  IN  /\ pc = "program" /\ req = NoReq
      /\ IF table[l] = NoEntry
         THEN /\ Fail("Invalid mapping table entry")
              /\ content' = invalidated
              /\ UNCHANGED <<nextWrite, table, cmt, gc>>
         ELSE IF Writable
         THEN /\ content' = Programmed(invalidated, l)
              /\ nextWrite' = [nextWrite EXCEPT ![dest] = @ + 1]
              /\ table' = [table EXCEPT ![l] = m]
              /\ cmt' = [cmt EXCEPT ![l] = IF @ = NoEntry THEN @ ELSE m]
              /\ gc' = [gc EXCEPT !.page = @ + 1]
              /\ pc' = "scan"
              /\ UNCHANGED panic
         ELSE /\ Fail("Write to non erased page")
              /\ content' = invalidated
              /\ UNCHANGED <<nextWrite, table, cmt, gc>>
      /\ dest' = 0
      /\ UNCHANGED <<poolVars, openVars, cmtOrder, cmtWild, eraseCount, cached,
                     filled, gcStopped, req>>

\* Mutant: the reverse search stops one entry early, without the iter++.
InsertBefore(n) ==
  LET before == {i \in 1 .. Len(freeBlocks) : eraseCount[freeBlocks[i]] <= n}
  IN  IF before = {} THEN 1 ELSE Max(before)

\* Mutant: the id is not recorded.
ForgetErased(b) == erasedIds' = erasedIds

(***************************************************************************)
(* eraseInternal puts a block below the erase threshold behind every free  *)
(* block that was erased at most as often, and drops any other block.      *)
(***************************************************************************)
InsertPosition(n) ==
  LET before == {i \in 1 .. Len(freeBlocks) : eraseCount[freeBlocks[i]] <= n}
  IN  IF before = {} THEN 1 ELSE 1 + Max(before)

LifeLeft(n) == n < EraseThreshold

MarkErased(b) == erasedIds' = erasedIds \cup {b}

EraseVictim ==
  LET n == eraseCount[Victim] + 1
  IN  /\ pc = "erase"
      /\ MarkErased(Victim)
      /\ IF Victim \notin blocks
         THEN /\ Fail("No such block")
              /\ UNCHANGED <<blockVars, poolVars, gc>>
         ELSE /\ content' = [content EXCEPT ![Victim] =
                               [p \in Page |-> ErasedPage]]
              /\ nextWrite' = [nextWrite EXCEPT ![Victim] = 0]
              /\ eraseCount' = [eraseCount EXCEPT ![Victim] = n]
              /\ IF LifeLeft(n)
                 THEN /\ freeBlocks' = InsertAt(freeBlocks, InsertPosition(n),
                                                Victim)
                      /\ nFreeBlocks' = nFreeBlocks + 1
                 ELSE UNCHANGED <<freeBlocks, nFreeBlocks>>
              /\ blocks' = blocks \ {Victim}
              /\ IF gc.at < Len(gc.victims)
                 THEN gc' = [gc EXCEPT !.at = @ + 1] /\ pc' = "erase"
                 ELSE gc' = NoGC /\ pc' = "idle"
              /\ UNCHANGED <<cached, panic>>
      /\ UNCHANGED <<lastFreeBlock, lastFreeBlockIndex, ioMapSet, cmtVars,
                     table, filled, gcStopped, req, dest>>

-----------------------------------------------------------------------------
(***************************************************************************)
(* A set of block ids as the list std::sort makes of it.                   *)
(***************************************************************************)
SortedLists(S) ==
  {s \in [1 .. Cardinality(S) -> S] :
     \A i, j \in 1 .. Cardinality(S) : i < j => s[i] < s[j]}

(***************************************************************************)
(* PageMapping::format removes the entries of a range of LPNs, invalidates *)
(* their pages and collects the blocks they were in, full or not.          *)
(***************************************************************************)
Format(range) ==
  LET keys == {l \in range : table[l] # NoEntry}
      hit  == {table[l].block : l \in keys}
  IN  /\ pc = "idle"
      /\ IF hit \subseteq blocks
         THEN /\ content' = [b \in Block |-> [p \in Page |->
                   IF content[b][p] \in LPN /\ (\E l \in keys : table[l] = Loc(b, p))
                   THEN DeadPage ELSE content[b][p]]]
              /\ table' = [l \in LPN |-> IF l \in range THEN NoEntry
                                                        ELSE table[l]]
              /\ \E list \in SortedLists(hit) : StartGC(list)
              /\ UNCHANGED panic
         ELSE Fail("Block is not in use") /\ UNCHANGED <<content, table, gc>>
      /\ UNCHANGED <<poolVars, openVars, cmtVars, nextWrite, eraseCount,
                     cached, filled, gcStopped, req, dest>>

(***************************************************************************)
(* The request counter of the cache layer passes SimlationIORequests.      *)
(***************************************************************************)
PassRequestLimit ==
  /\ pc = "idle" /\ ~gcStopped
  /\ gcStopped' = TRUE
  /\ UNCHANGED <<blockVars, poolVars, openVars, cmtVars, table, filled, pc,
                 req, gc, dest, panic>>

-----------------------------------------------------------------------------
(***************************************************************************)
(* The steps of a call in progress, and the calls of the cache layer.      *)
(***************************************************************************)
Internal ==
  \/ FillDone
  \/ \E l \in LPN : FillWrite(l)
  \/ UseOpenBlock \/ ReplaceErasedBlock \/ ReplaceFullBlock
  \/ WritePage
  \/ SelectVictimBlock \/ ScanVictim \/ CopyPage \/ EraseVictim

Call ==
  \/ \E l \in LPN : Write(l) \/ WriteCmtHit(l)
  \/ \E l \in HostReads : ReadCmtHit(l) \/ ReadTable(l) \/ UndoCached(l)
  \/ \E l \in HostTrims : Trim(l)
  \/ \E r \in FormatRanges : Format(r)
  \/ PassRequestLimit

Next == Internal \/ Call

Spec == Init /\ [][Next]_vars

(***************************************************************************)
(* The code of a call runs to its end: it never stops half-way.            *)
(***************************************************************************)
FairSpec == Spec /\ WF_vars(Internal)
-----------------------------------------------------------------------------
(***************************************************************************)
(* Properties                                                              *)
(***************************************************************************)
Steps == {"fill", "idle", "alloc", "program", "select", "scan", "erase",
          "panic"}

(***************************************************************************)
(* The types of the state of page_mapping.hh and block.hh.                 *)
(***************************************************************************)
TypeOK ==
  /\ freeBlocks \in Seq(Block)
  /\ nFreeBlocks \in Nat
  /\ blocks \in SUBSET Block
  /\ content \in [Block -> [Page -> Content]]
  /\ nextWrite \in [Block -> 0 .. PagesInBlock]
  /\ eraseCount \in [Block -> Nat]
  /\ cached \in [Block -> SUBSET Page]
  /\ lastFreeBlock \in [Chan -> Block]
  /\ lastFreeBlockIndex \in Chan
  /\ ioMapSet \in BOOLEAN
  /\ erasedIds \in SUBSET Block
  /\ table \in [LPN -> Mapping]
  /\ cmt \in [LPN -> Mapping]
  /\ cmtOrder \in Seq(LPN)
  /\ cmtWild \in SUBSET LPN
  /\ filled \in Nat
  /\ gcStopped \in BOOLEAN
  /\ pc \in Steps
  /\ req \in [lpn : LPN, entry : LPN, toPAL : BOOLEAN] \cup {NoReq}
  /\ gc \in [victims : Seq(Block), at : Nat, page : 0 .. PagesInBlock]
  /\ dest \in Block
  /\ panic \in Panics

(***************************************************************************)
(* Every block is in exactly one place: in the free list (once), in use,   *)
(* or retired after EraseThreshold erases; nFreeBlocks is the length of    *)
(* the list (getFreeBlock and eraseInternal move blocks between the two).  *)
(***************************************************************************)
PoolPartition ==
  /\ nFreeBlocks = Len(freeBlocks)
  /\ \A i, j \in 1 .. Len(freeBlocks) :
       freeBlocks[i] = freeBlocks[j] => i = j
  /\ \A i \in 1 .. Len(freeBlocks) : freeBlocks[i] \notin blocks
  /\ \A b \in Block :
       \/ b \in blocks
       \/ \E i \in 1 .. Len(freeBlocks) : freeBlocks[i] = b
       \/ eraseCount[b] >= EraseThreshold

(***************************************************************************)
(* The free list is sorted by erase count, as the reverse search of        *)
(* eraseInternal assumes, and it only holds erased blocks with life left.  *)
(***************************************************************************)
FreeListSorted ==
  /\ \A i, j \in 1 .. Len(freeBlocks) :
       i <= j => eraseCount[freeBlocks[i]] <= eraseCount[freeBlocks[j]]
  /\ \A i \in 1 .. Len(freeBlocks) :
       /\ nextWrite[freeBlocks[i]] = 0
       /\ eraseCount[freeBlocks[i]] < EraseThreshold

(***************************************************************************)
(* Pages are written in order and once per erase: the erased pages of a    *)
(* block are those from its next write index on (Block::write).            *)
(***************************************************************************)
SequentialWrites ==
  \A b \in Block, p \in Page :
    content[b][p] = ErasedPage <=> p >= nextWrite[b]

(***************************************************************************)
(* The LPN whose page is being replaced by the write in progress.          *)
(***************************************************************************)
InFlight == IF req = NoReq THEN {} ELSE {req.lpn}

(***************************************************************************)
(* Table and flash agree, even in the middle of a collection: every entry  *)
(* leads to a page in use that holds its LPN, and every valid page is the  *)
(* one its LPN's entry leads to, so no LPN has two live copies.  (Without  *)
(* the CMT; the entry of a write in progress is the one exception.)        *)
(***************************************************************************)
MappingConsistent ==
  \A l \in LPN :
    /\ l \notin InFlight /\ table[l] # NoEntry
         => /\ table[l].block \in blocks
            /\ content[table[l].block][table[l].page] = l
    /\ \A b \in Block, p \in Page :
         content[b][p] = l => l \notin InFlight /\ table[l] = Loc(b, p)

(***************************************************************************)
(* The only way a call can abort is that the device is out of free blocks. *)
(***************************************************************************)
OnlyOutOfSpacePanics == panic \in {"none", "No free block left"}

(***************************************************************************)
(* With or without the CMT, the panics about the pool and about writing    *)
(* pages never happen when one block is reclaimed at a time.               *)
(***************************************************************************)
PoolNeverCorrupted ==
  panic \notin {"Corrupted", "Invalid block", "No such block",
                "Write to non erased page"}

(***************************************************************************)
(* Nothing but the last copy of a page out of it lets a block be erased:   *)
(* eraseInternal only meets blocks without valid pages.                    *)
(***************************************************************************)
NoValidPageErased == pc = "erase" => ValidPages(Victim) = {}

(***************************************************************************)
(* A call of the FTL ends: it returns, or the process aborts.              *)
(***************************************************************************)
CallsEnd == pc \notin {"idle", "panic"} ~> pc \in {"idle", "panic"}

(***************************************************************************)
(* The logical pages the flash holds: those with a valid page in a block   *)
(* in use, and the one whose page is being replaced.                       *)
(***************************************************************************)
LivePages ==
  {l \in LPN : \E b \in blocks, p \in Page : content[b][p] = l} \cup InFlight

Ready == pc \in {"idle", "fill"}

Store == INSTANCE FlashStore WITH Pages <- LPN, Ranges <- FormatRanges,
                                  live <- LivePages, ready <- Ready

(***************************************************************************)
(* The FTL implements the store: a page written stays in flash through any *)
(* number of collections and erases, until a call trims it.                *)
(***************************************************************************)
ImplementsStore == Store!StoreSpec

-----------------------------------------------------------------------------
(***************************************************************************)
(* What comments and assertions of the code say and the code does not do.  *)
(***************************************************************************)

(***************************************************************************)
(* readInternal drops a read because its block is a "deletedblock": then   *)
(* that block is not in use.                                               *)
(***************************************************************************)
DroppedReadsAreOfErasedBlocks ==
  \A l \in LPN : InRange(table[l]) /\ table[l].block \in erasedIds
                   => table[l].block \notin blocks

(***************************************************************************)
(* A valid page always has an entry in the mapping table: the assertion of *)
(* doGarbageCollection.                                                    *)
(***************************************************************************)
ValidPagesHaveEntries == panic # "Invalid mapping table entry"
=============================================================================
