---------------------------- MODULE GenericCache ---------------------------
(***************************************************************************)
(* The write-back cache between host interface and FTL                     *)
(* (simplessd/icl/generic_cache.cc, called page by page by icl/icl.cc).    *)
(*                                                                         *)
(* A line has a tag, a valid and a dirty bit.  The simulator moves no      *)
(* data; the model adds to each line and each page of the flash whether it *)
(* stands for the newest data the host wrote, so that it can say what a    *)
(* read would return.  Which line a policy evicts (RANDOM, FIFO, LRU,      *)
(* Clean_LRU, LFU) and which empty way is taken depend on access times and *)
(* random numbers: any line that the policy may look at may be chosen.     *)
(*                                                                         *)
(* The FTL is the store of FlashStore: it keeps a page until it is trimmed *)
(* or formatted.  Lines are pages (one I/O unit per page), so a request of *)
(* ICL::write never exceeds a line and always makes it dirty.              *)
(***************************************************************************)
EXTENDS Integers

CONSTANTS
  WaySize,            \* the ways of a set
  ParallelIO,         \* pageCountToMaxPerf, the columns of evictData
  Settings,           \* the settings to look at
  FlushRanges,        \* the ranges of pages the host flushes,     (bound a
  TrimRanges,         \* trims                                      run)
  FormatRanges        \* and formats

ASSUME CacheAssumption ==
  /\ {WaySize, ParallelIO} \subseteq Nat \ {0}
  /\ \A s \in Settings : {s.sets, s.pages} \subseteq Nat \ {0}

Col ==  0 .. ParallelIO - 1
Data == {"none", "old", "new"}

NoTag == -1
EmptyLine == [tag |-> 0, valid |-> FALSE, dirty |-> FALSE, data |-> "none"]

VARIABLES
  setting,  \* the settings, read once from the configuration
  lines,    \* cacheData
  flash,    \* what the FTL holds of every page
  written,  \* the pages whose last host command is a write
  trigger,  \* prefetchTrigger
  last,     \* lastPrefetched
  pc,       \* "idle", or the loop a read is in: "claim"
  next,     \* the next page of that loop ...
  end,      \* ... and its end
  claims,   \* readList: the page each line is about to receive
  panic     \* "Cache corrupted!"

vars == <<setting, lines, flash, written, trigger, last, pc, next, end,
          claims, panic>>
jobVars == <<trigger, last, pc, next, end, claims>>

SetSize  == setting.sets
NumPages == setting.pages              \* the logical pages of the device
UseReadCaching  == setting.readCache   \* EnableReadCache
UseWriteCaching == setting.writeCache  \* EnableWriteCache
UseReadPrefetch == setting.prefetch    \* EnableReadPrefetch
SuperpageEvict  == setting.superpage   \* EvictMode = 0: evict one line
                                       \* instead of one a column

LCA  == 0 .. NumPages - 1
Slot == (0 .. SetSize - 1) \X (1 .. WaySize)

(***************************************************************************)
(* Prefetching runs past the last page of the device, at most twice.       *)
(***************************************************************************)
Tag  == 0 .. NumPages - 1 + 2 * ParallelIO
Line == [tag : Tag, valid : BOOLEAN, dirty : BOOLEAN, data : Data]

calcSetIndex(l) == l % SetSize
calcCol(l) == l % ParallelIO

\* Mutant: a line of the last way is overlooked.
ValidButLastWay(l) ==
  {x \in Slot : /\ x[1] = calcSetIndex(l) /\ x[2] < WaySize
                /\ lines[x].valid /\ lines[x].tag = l}

SlotsOf(l)    == {x \in Slot : x[1] = calcSetIndex(l)}
ValidSlots(l) == {x \in SlotsOf(l) : lines[x].valid /\ lines[x].tag = l}
EmptySlots(l) == {x \in SlotsOf(l) : ~lines[x].valid}

Init ==
  /\ setting \in Settings
  /\ lines = [x \in Slot |-> EmptyLine]
  /\ flash = [l \in Tag |-> "none"]
  /\ written = {}
  /\ trigger = NoTag
  /\ last = 0
  /\ pc = "idle"
  /\ next = 0 /\ end = 0
  /\ claims = [x \in Slot |-> NoTag]
  /\ panic = FALSE

-----------------------------------------------------------------------------
\* Mutant: nothing is written.
DroppedAll(E) == flash

(***************************************************************************)
(* evictCache writes the lines of the set E that are valid and dirty.      *)
(***************************************************************************)
WrittenBack(E) ==
  LET dirty(l) == {x \in E : /\ lines[x].valid /\ lines[x].dirty
                             /\ lines[x].tag = l}
  IN  [l \in Tag |-> IF dirty(l) = {} THEN flash[l]
                     ELSE lines[CHOOSE x \in dirty(l) : TRUE].data]

-----------------------------------------------------------------------------
(***************************************************************************)
(* Whether checkSequential finds the requests sequential depends on their  *)
(* lengths: with prefetching enabled it may or may not.                    *)
(***************************************************************************)
checkSequential == IF UseReadPrefetch THEN BOOLEAN ELSE {FALSE}

(***************************************************************************)
(* read.  A miss reads the page, and the following ones when the requests  *)
(* are sequential.                                                         *)
(* A hit changes nothing, unless it is on the trigger page: then the loop  *)
(* runs from the page after the last one prefetched.                       *)
(***************************************************************************)
StartRead(begin) ==
  \E ahead \in checkSequential :
    /\ next' = begin
    /\ end' = begin + IF ahead THEN ParallelIO ELSE 1
    /\ trigger' = IF ahead THEN begin + ParallelIO \div 2 ELSE trigger
    /\ last' = IF ahead THEN begin + ParallelIO ELSE last
    /\ pc' = "claim"
    /\ UNCHANGED <<setting, lines, flash, written, claims, panic>>

ReadMiss(l) ==
  /\ pc = "idle" /\ UseReadCaching /\ ~panic
  /\ ValidSlots(l) = {}
  /\ StartRead(l)

ReadPrefetch(l) ==
  /\ pc = "idle" /\ UseReadCaching /\ ~panic
  /\ ValidSlots(l) # {} /\ UseReadPrefetch /\ l = trigger
  /\ StartRead(last)

(***************************************************************************)
(* The first loop finds a line for every page that is not cached: an empty *)
(* way, or a line that is evicted.  The line is valid and clean from now   *)
(* on, but keeps its old tag until the page has been read.                 *)
(***************************************************************************)
SkipCached ==
  /\ pc = "claim" /\ next < end /\ ValidSlots(next) # {}
  /\ next' = next + 1
  /\ UNCHANGED <<setting, lines, flash, written, trigger, last, pc, end,
                 claims, panic>>

ClaimLine(x) ==
  /\ lines' = [lines EXCEPT ![x].valid = TRUE, ![x].dirty = FALSE]
  /\ claims' = [claims EXCEPT ![x] = next]
  /\ next' = next + 1
  /\ UNCHANGED <<setting, written, trigger, last, pc, end, panic>>

ClaimEmpty ==
  /\ pc = "claim" /\ next < end /\ ValidSlots(next) = {}
  /\ \E x \in EmptySlots(next) : ClaimLine(x)
  /\ UNCHANGED flash

ClaimEvicted ==
  /\ pc = "claim" /\ next < end /\ ValidSlots(next) = {}
  /\ EmptySlots(next) = {}
  /\ \E x \in SlotsOf(next) : ClaimLine(x) /\ flash' = WrittenBack({x})

\* Mutant: the line is taken to be dirty.
ReadIntoDirty(x) ==
  [tag |-> claims[x], valid |-> TRUE, dirty |-> TRUE, data |-> flash[claims[x]]]

(***************************************************************************)
(* The second loop reads the pages; when two of them were given the same   *)
(* line the later one wins.                                                *)
(***************************************************************************)
ReadInto(x) ==
  [tag |-> claims[x], valid |-> TRUE, dirty |-> lines[x].dirty,
   data |-> flash[claims[x]]]

LoadLines ==
  /\ pc = "claim" /\ next = end
  /\ lines' = [x \in Slot |-> IF claims[x] = NoTag THEN lines[x]
                                                   ELSE ReadInto(x)]
  /\ claims' = [x \in Slot |-> NoTag]
  /\ next' = 0 /\ end' = 0
  /\ pc' = "idle"
  /\ UNCHANGED <<setting, flash, written, trigger, last, panic>>

-----------------------------------------------------------------------------
(***************************************************************************)
(* write.  What is already there of page l is old from now on.             *)
(***************************************************************************)
Aged(d) == IF d = "new" THEN "old" ELSE d

AgedLines(l) ==
  [x \in Slot |-> IF lines[x].tag = l THEN [lines[x] EXCEPT !.data = Aged(@)]
                                      ELSE lines[x]]
AgedFlash(f, l) == [f EXCEPT ![l] = Aged(@)]

DirtyLine(l) == [tag |-> l, valid |-> TRUE, dirty |-> TRUE, data |-> "new"]

WriteHit(l) ==
  /\ pc = "idle" /\ UseWriteCaching /\ ~panic
  /\ \E x \in ValidSlots(l) : lines' = [AgedLines(l) EXCEPT ![x] = DirtyLine(l)]
  /\ flash' = AgedFlash(flash, l)
  /\ written' = written \cup {l}
  /\ UNCHANGED <<setting, jobVars, panic>>

WriteEmpty(l) ==
  /\ pc = "idle" /\ UseWriteCaching /\ ~panic
  /\ ValidSlots(l) = {}
  /\ \E x \in EmptySlots(l) : lines' = [AgedLines(l) EXCEPT ![x] = DirtyLine(l)]
  /\ flash' = AgedFlash(flash, l)
  /\ written' = written \cup {l}
  /\ UNCHANGED <<setting, jobVars, panic>>

\* Mutant: nothing is added for the set of the request.
PickedOnly(l, E) == {E}

(***************************************************************************)
(* A set is full: one valid line of every column is evicted, or one of all *)
(* when SuperpageEvict; if none of them is in the set of the request, one  *)
(* line of that set takes the place of the line picked for its column.     *)
(***************************************************************************)
Valid == {x \in Slot : lines[x].valid}
InCol(c) == {x \in Valid : calcCol(lines[x].tag) = c}

Picked ==
  IF SuperpageEvict THEN {{x} : x \in Valid}
  ELSE {E \in SUBSET Valid :
          \A c \in Col : /\ InCol(c) # {} => E \cap InCol(c) # {}
                         /\ \A x, y \in E \cap InCol(c) : x = y}

(***************************************************************************)
(* With SuperpageEvict the line picked is kept in the last column.         *)
(***************************************************************************)
Replaced(E, y) ==
  IF SuperpageEvict
  THEN IF calcCol(lines[y].tag) = ParallelIO - 1 THEN {y} ELSE E \cup {y}
  ELSE (E \ InCol(calcCol(lines[y].tag))) \cup {y}

WithSet(l, E) ==
  IF \E x \in E : calcSetIndex(lines[x].tag) = calcSetIndex(l)
  THEN {E}
  ELSE {Replaced(E, y) : y \in SlotsOf(l) \cap Valid}

WriteFull(l) ==
  /\ pc = "idle" /\ UseWriteCaching /\ ~panic
  /\ ValidSlots(l) = {} /\ EmptySlots(l) = {}
  /\ \E P \in Picked : \E E \in WithSet(l, P) :
       LET free == E \cap SlotsOf(l)
           evicted == [x \in Slot |-> IF x \in E THEN EmptyLine
                                                 ELSE AgedLines(l)[x]]
       IN  /\ flash' = AgedFlash(WrittenBack(E), l)
           /\ IF free = {}
              THEN lines' = evicted /\ panic' = TRUE
              ELSE /\ \E x \in free :
                        lines' = [evicted EXCEPT ![x] = DirtyLine(l)]
                   /\ UNCHANGED panic
  /\ written' = written \cup {l}
  /\ UNCHANGED <<setting, jobVars>>

(***************************************************************************)
(* Without write caching the page goes to the FTL; lines are not touched.  *)
(***************************************************************************)
WriteThrough(l) ==
  /\ pc = "idle" /\ ~UseWriteCaching
  /\ lines' = AgedLines(l)
  /\ flash' = [flash EXCEPT ![l] = "new"]
  /\ written' = written \cup {l}
  /\ UNCHANGED <<setting, jobVars, panic>>

-----------------------------------------------------------------------------
(***************************************************************************)
(* flush visits the lines in order, set by set: every line with a tag in   *)
(* the range is written if it is dirty, valid or not, and becomes invalid; *)
(* its dirty bit stays.                                                    *)
(***************************************************************************)
Invalidated(range) ==
  [x \in Slot |-> IF lines[x].tag \in range THEN [lines[x] EXCEPT !.valid = FALSE]
                                            ELSE lines[x]]

DirtySlots(l) == {x \in Slot : lines[x].tag = l /\ lines[x].dirty}
Later(x, y) == x[1] > y[1] \/ (x[1] = y[1] /\ x[2] >= y[2])

Flush(range) ==
  /\ pc = "idle" /\ ~panic /\ (UseReadCaching \/ UseWriteCaching)
  /\ setting.flush
  /\ flash' = [l \in Tag |->
       IF l \notin range \/ DirtySlots(l) = {} THEN flash[l]
       ELSE lines[CHOOSE x \in DirtySlots(l) :
                    \A y \in DirtySlots(l) : Later(x, y)].data]
  /\ lines' = Invalidated(range)
  /\ UNCHANGED <<setting, written, jobVars, panic>>

(***************************************************************************)
(* trim tells the FTL only of pages that are the tag of some line.         *)
(***************************************************************************)
AllAged(range) ==
  [x \in Slot |-> IF lines[x].tag \in range
                  THEN [lines[x] EXCEPT !.valid = FALSE, !.data = Aged(@)]
                  ELSE lines[x]]

Trim(range) ==
  /\ pc = "idle" /\ ~panic /\ (UseReadCaching \/ UseWriteCaching)
  /\ flash' = [l \in Tag |->
       IF l \notin range THEN flash[l]
       ELSE IF \E x \in Slot : lines[x].tag = l THEN "none" ELSE Aged(flash[l])]
  /\ lines' = AllAged(range)
  /\ written' = written \ range
  /\ UNCHANGED <<setting, jobVars, panic>>

(***************************************************************************)
(* format invalidates the valid lines of the range and formats the FTL.    *)
(***************************************************************************)
Format(range) ==
  /\ pc = "idle" /\ ~panic
  /\ flash' = [l \in Tag |-> IF l \in range THEN "none" ELSE flash[l]]
  /\ lines' = IF UseReadCaching \/ UseWriteCaching THEN AllAged(range) ELSE lines
  /\ written' = written \ range
  /\ UNCHANGED <<setting, jobVars, panic>>

-----------------------------------------------------------------------------
Next ==
  \/ \E l \in LCA : ReadMiss(l) \/ ReadPrefetch(l)
  \/ SkipCached \/ ClaimEmpty \/ ClaimEvicted \/ LoadLines
  \/ \E l \in LCA : WriteHit(l) \/ WriteEmpty(l) \/ WriteFull(l)
                    \/ WriteThrough(l)
  \/ \E r \in FlushRanges : Flush(r)
  \/ \E r \in TrimRanges : Trim(r)
  \/ \E r \in FormatRanges : Format(r)

Spec == Init /\ [][Next]_vars

-----------------------------------------------------------------------------
(***************************************************************************)
(* Between two calls a page is in at most one valid line, and in the set   *)
(* calcSetIndex finds it in: a hit is never on one of two copies.          *)
(***************************************************************************)
NoDuplicates ==
  pc = "idle" =>
    \A x \in Valid :
      /\ x \in SlotsOf(lines[x].tag)
      /\ \A y \in Valid : lines[x].tag = lines[y].tag => x = y

(***************************************************************************)
(* What a read of page l returns: the line that holds it, else the flash.  *)
(***************************************************************************)
Readable(l) ==
  IF ValidSlots(l) = {} THEN {flash[l]} ELSE {lines[x].data : x \in ValidSlots(l)}

(***************************************************************************)
(* A read returns what the host wrote last, whatever was evicted, read or  *)
(* prefetched since (read and write caching enabled, no flush).            *)
(***************************************************************************)
NewestReadable ==
  pc = "idle" /\ UseReadCaching /\ UseWriteCaching /\ ~setting.flush =>
    \A l \in written : Readable(l) = {"new"}

(***************************************************************************)
(* The line freed for a write is in its set: "Cache corrupted!" of write.  *)
(***************************************************************************)
NeverCorrupted == ~panic

(***************************************************************************)
(* With write caching disabled the flash alone always has the newest data: *)
(* evicting and flushing the lines that reads filled never overwrites it.  *)
(***************************************************************************)
DurableWrites ==
  ~UseWriteCaching => \A l \in written : flash[l] = "new"

(***************************************************************************)
(* "Trim supported": a page the host trimmed is gone from the flash.       *)
(***************************************************************************)
TrimmedPagesAreGone == \A l \in LCA \ written : flash[l] = "none"
=============================================================================
