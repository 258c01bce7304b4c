---------------------------- MODULE CacheProofs -----------------------------
(***************************************************************************)
(* The safety of the cache for every number of sets, ways, columns and     *)
(* pages and every setting.  One inductive invariant, CacheInv, carries    *)
(* the four properties; what makes it inductive is what holds in the       *)
(* middle of a read, between the loop that claims lines and the loop that  *)
(* fills them.                                                             *)
(***************************************************************************)
EXTENDS GenericCache, SequenceLemmas

(***************************************************************************)
(* The lines a read in progress has not claimed: only these hold the page  *)
(* their tag names.                                                        *)
(***************************************************************************)
Settled == {x \in Slot : lines[x].valid /\ claims[x] = NoTag}

CacheTypes ==
  /\ setting \in Settings
  /\ lines \in [Slot -> Line]
  /\ flash \in [Tag -> Data]
  /\ written \subseteq LCA
  /\ claims \in [Slot -> Tag \cup {NoTag}]
  /\ pc \in {"idle", "claim"}
  /\ next \in Nat /\ end \in Nat /\ last \in Nat

(***************************************************************************)
(* A read never runs further than two times ParallelIO past the last page, *)
(* as the page after the last prefetched one is at most ParallelIO behind  *)
(* the trigger, which the host has hit.                                    *)
(***************************************************************************)
ReadInBounds ==
  /\ trigger # NoTag => trigger \in Nat /\ last <= trigger + ParallelIO
  /\ pc = "claim" => next <= end /\ end <= NumPages - 1 + 2 * ParallelIO
  /\ pc = "idle" => \A x \in Slot : claims[x] = NoTag

(***************************************************************************)
(* Settled lines are in their set and hold different pages; claimed lines  *)
(* are clean and will hold pages of their set that are different from each *)
(* other and from those of the settled lines.                              *)
(***************************************************************************)
PagesApart ==
  /\ \A x \in Settled : x[1] = calcSetIndex(lines[x].tag)
  /\ \A x, y \in Settled : lines[x].tag = lines[y].tag => x = y
  /\ \A x \in Slot : claims[x] # NoTag =>
       /\ lines[x].valid /\ ~lines[x].dirty
       /\ claims[x] < next
       /\ x[1] = calcSetIndex(claims[x])
       /\ \A y \in Slot : claims[y] = claims[x] => x = y
       /\ \A y \in Settled : lines[y].tag # claims[x]

(***************************************************************************)
(* The newest data of a page is in its settled line, and in the flash when *)
(* that line is clean or there is none.                                    *)
(***************************************************************************)
NewestKept ==
  UseReadCaching /\ UseWriteCaching /\ ~setting.flush =>
    \A l \in written :
      /\ \A x \in Settled : lines[x].tag = l =>
           lines[x].data = "new" /\ (lines[x].dirty \/ flash[l] = "new")
      /\ (\E x \in Settled : lines[x].tag = l) \/ flash[l] = "new"

CleanWithoutWriteCache ==
  ~UseWriteCaching =>
    /\ \A x \in Slot : ~lines[x].dirty
    /\ \A l \in written : flash[l] = "new"

CacheInv ==
  /\ CacheTypes /\ ReadInBounds /\ PagesApart
  /\ NewestKept /\ CleanWithoutWriteCache
  /\ ~panic

-----------------------------------------------------------------------------
(***************************************************************************)
(* What the assumption says of the setting chosen.                         *)
(***************************************************************************)
LEMMA SettingTypes ==
  ASSUME setting \in Settings
  PROVE  /\ NumPages \in Nat \ {0} /\ SetSize \in Nat \ {0}
         /\ ParallelIO \in Nat \ {0} /\ WaySize \in Nat \ {0}
         /\ LCA \subseteq Tag /\ Tag \subseteq Nat /\ 0 \in Tag
         /\ NoTag \notin Tag /\ EmptyLine \in Line
<1>1. /\ NumPages \in Nat \ {0} /\ SetSize \in Nat \ {0}
      /\ ParallelIO \in Nat \ {0} /\ WaySize \in Nat \ {0}
  BY CacheAssumption DEF NumPages, SetSize
<1>2. LCA \subseteq Tag /\ Tag \subseteq Nat /\ 0 \in Tag /\ NoTag \notin Tag
  BY <1>1 DEF LCA, Tag, NoTag
<1>3. EmptyLine \in Line
  BY <1>2 DEF EmptyLine, Line, Data
<1> QED BY <1>1, <1>2, <1>3

(***************************************************************************)
(* The setting never changes, and so does nothing that is made of it.      *)
(***************************************************************************)
LEMMA SettingFixed ==
  ASSUME UNCHANGED setting
  PROVE  UNCHANGED <<NumPages, SetSize, Slot, Tag, LCA, Line>>
BY DEF NumPages, SetSize, Slot, Tag, LCA, Line

(***************************************************************************)
(* The cache starts empty.                                                 *)
(***************************************************************************)
LEMMA InitCacheInv == Init => CacheInv
<1> SUFFICES ASSUME Init PROVE CacheInv
  OBVIOUS
<1>1. /\ NumPages \in Nat \ {0} /\ 0 \in Tag /\ EmptyLine \in Line
      /\ NoTag \notin Tag
  BY SettingTypes DEF Init
<1>2. CacheTypes
  BY <1>1 DEF Init, CacheTypes, Data
<1>3. ReadInBounds
  BY DEF Init, ReadInBounds
<1>4. \A x \in Slot : ~lines[x].valid /\ ~lines[x].dirty /\ claims[x] = NoTag
  BY DEF Init, EmptyLine
<1>5. PagesApart
  BY <1>4 DEF PagesApart, Settled
<1>6. NewestKept /\ CleanWithoutWriteCache
  BY <1>4 DEF Init, NewestKept, CleanWithoutWriteCache
<1> QED BY <1>2, <1>3, <1>5, <1>6 DEF CacheInv, Init

-----------------------------------------------------------------------------
(* The steps of a read.                                                    *)

(***************************************************************************)
(* A read, of what the host asked for and of what is prefetched, starts    *)
(* with its two loops empty.                                               *)
(***************************************************************************)
LEMMA StartReadKeeps ==
  ASSUME CacheInv, pc = "idle", NEW begin \in Nat, StartRead(begin),
         begin <= NumPages - 1 + ParallelIO
  PROVE  CacheInv'
<1>1. /\ NumPages \in Nat \ {0} /\ ParallelIO \in Nat \ {0}
  BY SettingTypes DEF CacheInv, CacheTypes
<1>2. PICK ahead \in checkSequential :
        /\ next' = begin
        /\ end' = begin + IF ahead THEN ParallelIO ELSE 1
        /\ trigger' = IF ahead THEN begin + ParallelIO \div 2 ELSE trigger
        /\ last' = IF ahead THEN begin + ParallelIO ELSE last
        /\ pc' = "claim"
        /\ UNCHANGED <<setting, lines, flash, written, claims, panic>>
  BY DEF StartRead
<1>3. ahead \in BOOLEAN
  BY DEF checkSequential
<1>4. ParallelIO \div 2 \in Nat
  BY <1>1
<1>5. UNCHANGED <<NumPages, SetSize, Slot, Tag, LCA, Line, Settled>>
  BY <1>2, SettingFixed DEF Settled
<1>6. CacheTypes'
  <2>1. next' \in Nat /\ end' \in Nat /\ last' \in Nat
    BY <1>1, <1>2, <1>3 DEF CacheInv, CacheTypes
  <2> QED BY <2>1, <1>2, <1>5 DEF CacheInv, CacheTypes
<1>7. ReadInBounds'
  <2>1. CASE ahead
    <3>1. trigger' \in Nat /\ last' <= trigger' + ParallelIO
      BY <1>1, <1>2, <1>4, <2>1
    <3>2. next' <= end' /\ end' <= NumPages - 1 + 2 * ParallelIO
      BY <1>1, <1>2, <2>1
    <3> QED BY <3>1, <3>2, <1>2, <1>5 DEF ReadInBounds
  <2>2. CASE ~ahead
    <3>1. next' <= end' /\ end' <= NumPages - 1 + 2 * ParallelIO
      BY <1>1, <1>2, <2>2
    <3> QED BY <3>1, <1>2, <1>5, <2>2 DEF ReadInBounds, CacheInv
  <2> QED BY <1>3, <2>1, <2>2
<1>8. \A x \in Slot : claims[x] = NoTag
  BY DEF CacheInv, ReadInBounds
<1>9. PagesApart'
  BY <1>2, <1>5, <1>8 DEF PagesApart, CacheInv, calcSetIndex, SetSize
<1>10. NewestKept' /\ CleanWithoutWriteCache'
  BY <1>2, <1>5 DEF NewestKept, CleanWithoutWriteCache, CacheInv,
     UseReadCaching, UseWriteCaching
<1> QED BY <1>2, <1>6, <1>7, <1>9, <1>10 DEF CacheInv

(***************************************************************************)
(* A read of a page that is not cached, without and with prefetch.         *)
(***************************************************************************)
LEMMA ReadMissKeeps ==
  ASSUME CacheInv, NEW l \in LCA, ReadMiss(l)
  PROVE  CacheInv'
<1>1. /\ NumPages \in Nat \ {0} /\ ParallelIO \in Nat \ {0}
  BY SettingTypes DEF CacheInv, CacheTypes
<1>2. l \in Nat /\ l <= NumPages - 1 + ParallelIO
  BY <1>1 DEF LCA
<1> QED BY <1>2, StartReadKeeps DEF ReadMiss

LEMMA ReadPrefetchKeeps ==
  ASSUME CacheInv, NEW l \in LCA, ReadPrefetch(l)
  PROVE  CacheInv'
<1>1. /\ NumPages \in Nat \ {0} /\ ParallelIO \in Nat \ {0}
  BY SettingTypes DEF CacheInv, CacheTypes
<1>2. l \in Nat /\ l <= NumPages - 1 /\ l = trigger /\ l # NoTag
  BY <1>1 DEF LCA, NoTag, ReadPrefetch
<1>3. last \in Nat /\ last <= NumPages - 1 + ParallelIO
  BY <1>1, <1>2 DEF CacheInv, CacheTypes, ReadInBounds
<1> QED BY <1>3, StartReadKeeps DEF ReadPrefetch

(***************************************************************************)
(* First loop of a read: a page that is cached, an empty line that is      *)
(* claimed, and a line that is evicted for it.                             *)
(***************************************************************************)
LEMMA SkipCachedKeeps ==
  ASSUME CacheInv, SkipCached
  PROVE  CacheInv'
<1>1. UNCHANGED <<NumPages, SetSize, Slot, Tag, LCA, Line, Settled>>
  BY SettingFixed DEF SkipCached, Settled
<1>2. CacheTypes' /\ next' = next + 1
  BY <1>1 DEF CacheInv, CacheTypes, SkipCached
<1>3. ReadInBounds'
  BY <1>1 DEF CacheInv, CacheTypes, ReadInBounds, SkipCached
<1>4. PagesApart'
  <2>1. \A x \in Slot : claims[x] # NoTag => claims[x] \in Nat
    BY SettingTypes DEF CacheInv, CacheTypes
  <2>2. \A x \in Slot : claims[x] # NoTag => claims[x] < next'
    BY <2>1, <1>2 DEF CacheInv, CacheTypes, PagesApart
  <2> QED BY <2>2, <1>1 DEF CacheInv, PagesApart, SkipCached, calcSetIndex, SetSize
<1>5. NewestKept' /\ CleanWithoutWriteCache'
  BY <1>1 DEF NewestKept, CleanWithoutWriteCache, CacheInv, SkipCached,
     UseReadCaching, UseWriteCaching
<1> QED BY <1>2, <1>3, <1>4, <1>5 DEF CacheInv, SkipCached

(***************************************************************************)
(* A line is claimed for the page next: an empty one, or one whose dirty   *)
(* page has been written back.                                             *)
(***************************************************************************)
LEMMA ClaimKeeps ==
  ASSUME CacheInv, pc = "claim", next < end, ValidSlots(next) = {},
         NEW x \in SlotsOf(next), ClaimLine(x),
         flash' \in [Tag -> Data],
         \A l \in Tag :
           flash'[l] = IF lines[x].valid /\ lines[x].dirty /\ lines[x].tag = l
                       THEN lines[x].data ELSE flash[l]
  PROVE  CacheInv'
<1>1. UNCHANGED <<NumPages, SetSize, Slot, Tag, LCA, Line>>
  BY SettingFixed DEF ClaimLine
<1>2. /\ NumPages \in Nat \ {0} /\ ParallelIO \in Nat \ {0}
      /\ Tag \subseteq Nat /\ NoTag \notin Tag /\ LCA \subseteq Tag
  BY SettingTypes DEF CacheInv, CacheTypes
<1>3. next \in Tag /\ next # NoTag /\ next' = next + 1
  BY <1>2 DEF CacheInv, CacheTypes, ReadInBounds, Tag, ClaimLine
<1>4. x \in Slot /\ x[1] = calcSetIndex(next)
  BY DEF SlotsOf
<1>5. /\ lines \in [Slot -> Line]
      /\ claims \in [Slot -> Tag \cup {NoTag}]
  BY DEF CacheInv, CacheTypes
<1>6. /\ lines' \in [Slot -> Line]
      /\ lines'[x].valid /\ ~lines'[x].dirty
      /\ \A y \in Slot : y # x => lines'[y] = lines[y]
  <2> DEFINE claimed == [lines[x] EXCEPT !.valid = TRUE, !.dirty = FALSE]
  <2>1. claimed \in Line /\ claimed.valid /\ ~claimed.dirty
    BY <1>4, <1>5 DEF Line
  <2>2. lines' = [lines EXCEPT ![x] = claimed]
    BY <1>4, <1>5 DEF ClaimLine
  <2> HIDE DEF claimed
  <2> QED BY <1>4, <1>5, <2>1, <2>2
<1>7. /\ claims' \in [Slot -> Tag \cup {NoTag}] /\ claims'[x] = next
      /\ \A y \in Slot : y # x => claims'[y] = claims[y]
  BY <1>3, <1>4, <1>5 DEF ClaimLine
<1>8. Settled' = Settled \ {x}
  <2>1. Slot' = Slot
    BY <1>1
  <2>2. ASSUME NEW y \in Slot
        PROVE  y \in Settled' <=> y \in Settled \ {x}
    <3>1. CASE y = x
      BY <3>1, <1>3, <1>7 DEF Settled
    <3>2. CASE y # x
      BY <3>2, <2>1, <1>6, <1>7 DEF Settled
    <3> QED BY <3>1, <3>2
  <2>3. Settled' \subseteq Slot /\ Settled \subseteq Slot
    BY <2>1 DEF Settled
  <2> QED BY <2>2, <2>3
<1>9. CacheTypes'
  BY <1>1, <1>3, <1>6, <1>7 DEF CacheInv, CacheTypes, ClaimLine
<1>10. ReadInBounds'
  BY <1>1, <1>3 DEF CacheInv, CacheTypes, ReadInBounds, ClaimLine
<1>11. PagesApart'
  <2>1. \A y \in Settled : lines[y].tag # next
    BY DEF Settled, ValidSlots, SlotsOf, CacheInv, PagesApart
  <2>2. \A y \in Settled' : y \in Slot /\ y \in Settled /\ lines'[y] = lines[y]
    BY <1>6, <1>8 DEF Settled
  <2>3. \A y \in Slot : claims[y] # NoTag =>
          claims[y] \in Nat /\ claims[y] < next
    <3>1. \A y \in Slot : claims[y] # NoTag => claims[y] \in Tag
      BY <1>5
    <3> QED BY <3>1, <1>2 DEF CacheInv, PagesApart
  <2>4. next \in Nat
    BY <1>2, <1>3
  <2>5. \A y \in Settled' : y[1] = lines'[y].tag % SetSize
    BY <2>2, <1>1 DEF CacheInv, PagesApart, calcSetIndex
  <2>6. \A y, z \in Settled' : lines'[y].tag = lines'[z].tag => y = z
    BY <2>2 DEF CacheInv, PagesApart
  <2>7. ASSUME NEW y \in Slot, claims'[y] # NoTag
        PROVE  /\ lines'[y].valid /\ ~lines'[y].dirty
               /\ claims'[y] < next'
               /\ y[1] = claims'[y] % SetSize
               /\ \A z \in Slot : claims'[z] = claims'[y] => y = z
               /\ \A z \in Settled' : lines'[z].tag # claims'[y]
    <3>1. CASE y = x
      <4>1. claims'[y] < next' /\ y[1] = claims'[y] % SetSize
        BY <3>1, <1>1, <1>3, <1>4, <1>7, <2>4 DEF calcSetIndex
      <4>2. \A z \in Slot : claims'[z] = claims'[y] => y = z
        BY <3>1, <1>3, <1>7, <2>3, <2>4
      <4> QED BY <3>1, <4>1, <4>2, <1>6, <1>7, <2>1, <2>2
    <3>2. CASE y # x
      <4>1. claims'[y] = claims[y] /\ lines'[y] = lines[y]
        BY <3>2, <1>6, <1>7
      <4>2. claims[y] < next' /\ claims[y] # next
        BY <4>1, <2>3, <2>4, <2>7, <1>3
      <4>3. y[1] = claims'[y] % SetSize
        BY <4>1, <2>7, <1>1 DEF CacheInv, PagesApart, calcSetIndex
      <4>4. \A z \in Slot : claims'[z] = claims'[y] => y = z
        BY <4>1, <4>2, <2>7, <1>7 DEF CacheInv, PagesApart
      <4>5. \A z \in Settled' : lines'[z].tag # claims'[y]
        BY <4>1, <2>2, <2>7 DEF CacheInv, PagesApart
      <4> QED BY <4>1, <4>2, <4>3, <4>4, <4>5, <2>7 DEF CacheInv, PagesApart
    <3> QED BY <3>1, <3>2
  <2> QED BY <2>5, <2>6, <2>7, <1>1 DEF PagesApart, calcSetIndex
<1>12. NewestKept'
  <2> SUFFICES ASSUME UseReadCaching /\ UseWriteCaching /\ ~setting.flush,
                      NEW l \in written
               PROVE  /\ \A y \in Settled' : lines'[y].tag = l =>
                           /\ lines'[y].data = "new"
                           /\ lines'[y].dirty \/ flash'[l] = "new"
                      /\ \/ \E y \in Settled' : lines'[y].tag = l
                         \/ flash'[l] = "new"
    BY DEF NewestKept, ClaimLine, UseReadCaching, UseWriteCaching
  <2>1. l \in Tag
    BY <1>2 DEF CacheInv, CacheTypes
  <2>2. \A y \in Settled : lines[y].tag = l =>
          lines[y].data = "new" /\ (lines[y].dirty \/ flash[l] = "new")
    BY DEF CacheInv, NewestKept
  <2>3. (\E y \in Settled : lines[y].tag = l) \/ flash[l] = "new"
    BY DEF CacheInv, NewestKept
  <2>4. x \notin Settled => ~(lines[x].valid /\ lines[x].dirty)
    BY <1>4 DEF Settled, CacheInv, PagesApart
  <2>5. \A y \in Settled' : y \in Settled /\ y # x /\ lines'[y] = lines[y]
    BY <1>6, <1>8 DEF Settled
  <2>6. flash[l] = "new" => flash'[l] = "new"
    BY <2>1, <2>2, <2>4
  <2>7. CASE x \in Settled /\ lines[x].tag = l
    BY <2>1, <2>2, <2>5, <2>7 DEF Settled
  <2>8. CASE ~(x \in Settled /\ lines[x].tag = l)
    BY <2>2, <2>3, <2>5, <2>6, <2>8, <1>6, <1>8 DEF Settled
  <2> QED BY <2>7, <2>8
<1>13. CleanWithoutWriteCache'
  <2> SUFFICES ASSUME ~UseWriteCaching
               PROVE  /\ \A y \in Slot : ~lines'[y].dirty
                      /\ \A l \in written : flash'[l] = "new"
    BY <1>1 DEF CleanWithoutWriteCache, ClaimLine, UseWriteCaching
  <2>1. \A y \in Slot : ~lines[y].dirty
    BY DEF CacheInv, CleanWithoutWriteCache
  <2>2. \A l \in written : l \in Tag /\ flash[l] = "new"
    BY <1>2 DEF CacheInv, CacheTypes, CleanWithoutWriteCache
  <2> QED BY <2>1, <2>2, <1>4, <1>6
<1> QED BY <1>9, <1>10, <1>11, <1>12, <1>13 DEF CacheInv, ClaimLine

LEMMA ClaimEmptyKeeps ==
  ASSUME CacheInv, ClaimEmpty
  PROVE  CacheInv'
<1>1. PICK x \in EmptySlots(next) : ClaimLine(x)
  BY DEF ClaimEmpty
<1>2. x \in SlotsOf(next) /\ ~lines[x].valid
  BY DEF EmptySlots
<1>3. flash' = flash /\ flash \in [Tag -> Data]
  BY DEF ClaimEmpty, CacheInv, CacheTypes
<1> QED BY <1>1, <1>2, <1>3, ClaimKeeps DEF ClaimEmpty

(***************************************************************************)
(* What evictCache leaves in the flash: the data of a dirty line with the  *)
(* tag, if there is one.                                                   *)
(***************************************************************************)
LEMMA WrittenBackLemma ==
  ASSUME CacheTypes, NEW E, E \subseteq Slot
  PROVE  /\ WrittenBack(E) \in [Tag -> Data]
         /\ \A l \in Tag :
              \/ \E x \in E : /\ lines[x].valid /\ lines[x].dirty
                              /\ lines[x].tag = l
                              /\ WrittenBack(E)[l] = lines[x].data
              \/ /\ \A x \in E : ~(lines[x].valid /\ lines[x].dirty
                                    /\ lines[x].tag = l)
                 /\ WrittenBack(E)[l] = flash[l]
<1> DEFINE dirty(l) == {x \in E : /\ lines[x].valid /\ lines[x].dirty
                                  /\ lines[x].tag = l}
           W(l) == IF dirty(l) = {} THEN flash[l]
                   ELSE lines[CHOOSE x \in dirty(l) : TRUE].data
<1>1. WrittenBack(E) = [l \in Tag |-> W(l)]
  BY DEF WrittenBack
<1>2. ASSUME NEW l \in Tag, dirty(l) # {}
      PROVE  \E x \in E : /\ lines[x].valid /\ lines[x].dirty
                          /\ lines[x].tag = l /\ W(l) = lines[x].data
  <2>1. (CHOOSE x \in dirty(l) : TRUE) \in dirty(l)
    BY <1>2
  <2> QED BY <2>1, <1>2
<1>3. \A l \in Tag : dirty(l) = {} =>
        /\ W(l) = flash[l]
        /\ \A x \in E : ~(lines[x].valid /\ lines[x].dirty /\ lines[x].tag = l)
  OBVIOUS
<1>4. \A l \in Tag : W(l) \in Data
  <2>1. \A x \in E : lines[x].data \in Data
    BY DEF CacheTypes, Line
  <2>2. \A l \in Tag : flash[l] \in Data
    BY DEF CacheTypes
  <2> HIDE DEF W, dirty
  <2> QED BY <2>1, <2>2, <1>2, <1>3
<1> HIDE DEF W, dirty
<1> QED BY <1>1, <1>2, <1>3, <1>4

LEMMA ClaimEvictedKeeps ==
  ASSUME CacheInv, ClaimEvicted
  PROVE  CacheInv'
<1>1. PICK x \in SlotsOf(next) : ClaimLine(x) /\ flash' = WrittenBack({x})
  BY DEF ClaimEvicted
<1>2. {x} \subseteq Slot
  BY DEF SlotsOf
<1>3. /\ flash' \in [Tag -> Data]
      /\ \A l \in Tag :
           flash'[l] = IF lines[x].valid /\ lines[x].dirty /\ lines[x].tag = l
                       THEN lines[x].data ELSE flash[l]
  BY <1>1, <1>2, WrittenBackLemma DEF CacheInv
<1> QED BY <1>1, <1>3, ClaimKeeps DEF ClaimEvicted

(***************************************************************************)
(* The claimed lines receive their pages.                                  *)
(***************************************************************************)
LEMMA LoadLinesKeeps ==
  ASSUME CacheInv, LoadLines
  PROVE  CacheInv'
<1>1. UNCHANGED <<NumPages, SetSize, Slot, Tag, LCA, Line>>
  BY SettingFixed DEF LoadLines
<1>2. NoTag \notin Tag /\ LCA \subseteq Tag
  BY SettingTypes DEF CacheInv, CacheTypes
<1>3. /\ lines \in [Slot -> Line] /\ flash \in [Tag -> Data]
      /\ claims \in [Slot -> Tag \cup {NoTag}]
  BY DEF CacheInv, CacheTypes
<1>4. \A x \in Slot : claims[x] = NoTag => lines'[x] = lines[x]
  BY DEF LoadLines
<1>5. ASSUME NEW x \in Slot, claims[x] # NoTag
      PROVE  /\ claims[x] \in Tag /\ lines'[x] \in Line
             /\ lines'[x].tag = claims[x] /\ lines'[x].valid
             /\ ~lines'[x].dirty /\ lines'[x].data = flash[claims[x]]
  <2>1. lines[x].dirty = FALSE /\ claims[x] \in Tag /\ flash[claims[x]] \in Data
    BY <1>3, <1>5 DEF CacheInv, PagesApart, Line
  <2>2. lines'[x] = [tag |-> claims[x], valid |-> TRUE, dirty |-> FALSE,
                     data |-> flash[claims[x]]]
    BY <2>1, <1>5 DEF LoadLines, ReadInto
  <2>3. lines'[x] \in Line
    BY <2>1, <2>2 DEF Line
  <2> QED BY <2>1, <2>2, <2>3
<1>6. lines' \in [Slot -> Line]
  <2>1. \A x \in Slot : lines'[x] \in Line
    <3> TAKE x \in Slot
    <3>1. CASE claims[x] = NoTag
      BY <3>1, <1>3, <1>4
    <3>2. CASE claims[x] # NoTag
      BY <3>2, <1>5
    <3> QED BY <3>1, <3>2
  <2>2. lines' = [x \in Slot |-> lines'[x]]
    BY DEF LoadLines
  <2> QED BY <2>1, <2>2
<1>7. \A x \in Slot : claims'[x] = NoTag
  BY DEF LoadLines
<1>8. CacheTypes'
  BY <1>1, <1>6 DEF LoadLines, CacheInv, CacheTypes
<1>9. ReadInBounds'
  BY <1>1, <1>7 DEF LoadLines, CacheInv, ReadInBounds
<1>10. Settled' = {x \in Slot : lines'[x].valid}
  BY <1>1, <1>7 DEF Settled
<1>11. PagesApart'
  <2>1. ASSUME NEW x \in Settled'
        PROVE  x[1] = lines'[x].tag % SetSize
    <3>1. x \in Slot /\ lines'[x].valid
      BY <1>10
    <3>2. CASE claims[x] = NoTag
      BY <3>1, <3>2, <1>4 DEF Settled, CacheInv, PagesApart, calcSetIndex
    <3>3. CASE claims[x] # NoTag
      BY <3>1, <3>3, <1>5 DEF CacheInv, PagesApart, calcSetIndex
    <3> QED BY <3>2, <3>3
  <2>2. ASSUME NEW x \in Settled', NEW y \in Settled',
               lines'[x].tag = lines'[y].tag
        PROVE  x = y
    <3>1. x \in Slot /\ y \in Slot /\ lines'[x].valid /\ lines'[y].valid
      BY <1>10
    <3>2. CASE claims[x] = NoTag /\ claims[y] = NoTag
      BY <3>1, <3>2, <2>2, <1>4 DEF Settled, CacheInv, PagesApart
    <3>3. CASE claims[x] # NoTag /\ claims[y] # NoTag
      BY <3>1, <3>3, <2>2, <1>5 DEF CacheInv, PagesApart
    <3>4. CASE claims[x] # NoTag /\ claims[y] = NoTag
      BY <3>1, <3>4, <2>2, <1>4, <1>5 DEF Settled, CacheInv, PagesApart
    <3>5. CASE claims[x] = NoTag /\ claims[y] # NoTag
      BY <3>1, <3>5, <2>2, <1>4, <1>5 DEF Settled, CacheInv, PagesApart
    <3> QED BY <3>2, <3>3, <3>4, <3>5
  <2> QED BY <2>1, <2>2, <1>1, <1>7 DEF PagesApart, calcSetIndex
<1>12. NewestKept'
  <2> SUFFICES ASSUME UseReadCaching /\ UseWriteCaching /\ ~setting.flush,
                      NEW l \in written
               PROVE  /\ \A x \in Settled' : lines'[x].tag = l =>
                           /\ lines'[x].data = "new"
                           /\ lines'[x].dirty \/ flash[l] = "new"
                      /\ \/ \E x \in Settled' : lines'[x].tag = l
                         \/ flash[l] = "new"
    BY DEF NewestKept, LoadLines, UseReadCaching, UseWriteCaching
  <2>1. /\ \A x \in Settled : lines[x].tag = l =>
             lines[x].data = "new" /\ (lines[x].dirty \/ flash[l] = "new")
        /\ (\E x \in Settled : lines[x].tag = l) \/ flash[l] = "new"
    BY DEF CacheInv, NewestKept
  <2>2. ASSUME NEW x \in Settled', lines'[x].tag = l
        PROVE  lines'[x].data = "new" /\ (lines'[x].dirty \/ flash[l] = "new")
    <3>1. x \in Slot /\ lines'[x].valid
      BY <1>10
    <3>2. CASE claims[x] = NoTag
      BY <3>1, <3>2, <2>1, <2>2, <1>4 DEF Settled
    <3>3. CASE claims[x] # NoTag
      <4>1. \A y \in Settled : lines[y].tag # l
        BY <3>1, <3>3, <2>2, <1>5 DEF CacheInv, PagesApart
      <4> QED BY <4>1, <3>1, <3>3, <2>1, <2>2, <1>5
    <3> QED BY <3>2, <3>3
  <2>3. ASSUME NEW x \in Settled, lines[x].tag = l
        PROVE  x \in Settled' /\ lines'[x].tag = l
    BY <2>3, <1>4, <1>10 DEF Settled
  <2> QED BY <2>1, <2>2, <2>3
<1>13. CleanWithoutWriteCache'
  <2> SUFFICES ASSUME ~UseWriteCaching, NEW x \in Slot
               PROVE  ~lines'[x].dirty
    BY <1>1 DEF CacheInv, CleanWithoutWriteCache, LoadLines, UseWriteCaching
  <2>1. ~lines[x].dirty
    BY DEF CacheInv, CleanWithoutWriteCache
  <2>2. CASE claims[x] = NoTag
    BY <2>1, <2>2, <1>4
  <2>3. CASE claims[x] # NoTag
    BY <2>3, <1>5
  <2> QED BY <2>2, <2>3
<1> QED BY <1>8, <1>9, <1>11, <1>12, <1>13 DEF CacheInv, LoadLines

-----------------------------------------------------------------------------
(* Writes.                                                                 *)

(***************************************************************************)
(* However a write makes room: if its line x is in the set of its page,    *)
(* the other lines that stay valid keep their pages, none of which is the  *)
(* one written, and what was evicted has reached the flash, then the       *)
(* invariant is kept.                                                      *)
(***************************************************************************)
LEMMA StoreKeeps ==
  ASSUME CacheInv, pc = "idle", UseWriteCaching, UNCHANGED <<setting, jobVars>>,
         ~panic', NEW l \in LCA, NEW x \in SlotsOf(l),
         written' = written \cup {l},
         lines' \in [Slot -> Line], flash' \in [Tag -> Data],
         lines'[x] = DirtyLine(l),
         \A y \in Slot \ {x} : lines'[y].valid =>
           /\ lines[y].valid /\ lines[y].tag # l
           /\ lines'[y].tag = lines[y].tag /\ lines'[y].dirty = lines[y].dirty
           /\ lines'[y].data = lines[y].data,
         \A k \in Tag \ {l} :
           \/ flash'[k] = flash[k] /\ \A y \in Slot \ {x} :
                lines[y].valid /\ lines[y].dirty /\ lines[y].tag = k =>
                  lines'[y].valid
           \/ \E y \in Slot : /\ lines[y].valid /\ lines[y].tag = k
                              /\ flash'[k] = lines[y].data,
         ~lines[x].valid \/ lines[x].tag = l \/ ~lines[x].dirty
           \/ flash'[lines[x].tag] = lines[x].data
  PROVE  CacheInv'
<1>1. UNCHANGED <<NumPages, SetSize, Slot, Tag, LCA, Line>>
  BY SettingFixed
<1>2. NoTag \notin Tag /\ LCA \subseteq Tag
  BY SettingTypes DEF CacheInv, CacheTypes
<1>3. \A y \in Slot : claims[y] = NoTag /\ claims'[y] = NoTag
  BY DEF CacheInv, ReadInBounds, jobVars
<1>4. Settled = {y \in Slot : lines[y].valid}
  BY <1>3 DEF Settled
<1>5. Settled' = {y \in Slot : lines'[y].valid}
  BY <1>1, <1>3 DEF Settled
<1>6. x \in Slot /\ x[1] = l % SetSize
  BY DEF SlotsOf, calcSetIndex
<1>7. /\ lines'[x].tag = l /\ lines'[x].valid /\ lines'[x].dirty
      /\ lines'[x].data = "new"
  BY DEF DirtyLine
<1>8. CacheTypes'
  BY <1>1 DEF CacheInv, CacheTypes, jobVars
<1>9. ReadInBounds'
  BY <1>1 DEF CacheInv, ReadInBounds, jobVars
<1>10. PagesApart'
  <2>1. ASSUME NEW y \in Settled'
        PROVE  y[1] = lines'[y].tag % SetSize
    <3>1. y \in Slot /\ lines'[y].valid
      BY <1>5
    <3>2. CASE y = x
      BY <3>2, <1>6, <1>7
    <3>3. CASE y # x
      BY <3>1, <3>3, <1>4 DEF CacheInv, PagesApart, calcSetIndex
    <3> QED BY <3>2, <3>3
  <2>2. ASSUME NEW y \in Settled', NEW z \in Settled',
               lines'[y].tag = lines'[z].tag
        PROVE  y = z
    <3>1. y \in Slot /\ z \in Slot /\ lines'[y].valid /\ lines'[z].valid
      BY <1>5
    <3>2. CASE y = x \/ z = x
      BY <3>1, <3>2, <2>2, <1>7
    <3>3. CASE y # x /\ z # x
      BY <3>1, <3>3, <2>2, <1>4 DEF CacheInv, PagesApart
    <3> QED BY <3>2, <3>3
  <2> QED BY <2>1, <2>2, <1>1, <1>3 DEF PagesApart, calcSetIndex
<1>11. NewestKept'
  <2> SUFFICES ASSUME UseReadCaching /\ UseWriteCaching /\ ~setting.flush,
                      NEW k \in written \cup {l}
               PROVE  /\ \A y \in Settled' : lines'[y].tag = k =>
                           /\ lines'[y].data = "new"
                           /\ lines'[y].dirty \/ flash'[k] = "new"
                      /\ \/ \E y \in Settled' : lines'[y].tag = k
                         \/ flash'[k] = "new"
    BY DEF NewestKept, UseReadCaching, UseWriteCaching
  <2>1. CASE k = l
    <3>1. x \in Settled' /\ \A y \in Settled' : lines'[y].tag = l => y = x
      BY <1>5, <1>6, <1>7
    <3> QED BY <3>1, <2>1, <1>7
  <2>2. CASE k # l
    <3>1. k \in written /\ k \in Tag \ {l}
      BY <2>2, <1>2 DEF CacheInv, CacheTypes
    <3>2. /\ \A y \in Settled : lines[y].tag = k =>
               lines[y].data = "new" /\ (lines[y].dirty \/ flash[k] = "new")
          /\ (\E y \in Settled : lines[y].tag = k) \/ flash[k] = "new"
      BY <3>1 DEF CacheInv, NewestKept
    <3>3. flash[k] = "new" => flash'[k] = "new"
      BY <3>1, <3>2, <1>4
    <3>4. \A y \in Settled' : lines'[y].tag = k =>
            /\ y \in Settled /\ lines[y].tag = k
            /\ lines'[y].data = lines[y].data /\ lines'[y].dirty = lines[y].dirty
      BY <2>2, <1>4, <1>5, <1>7
    <3>5. ASSUME NEW y \in Settled, lines[y].tag = k,
                 ~\E z \in Settled' : lines'[z].tag = k
          PROVE  flash'[k] = "new"
      <4>1. y \in Slot /\ lines[y].valid
        BY <1>4
      <4>2. CASE ~lines[y].dirty
        BY <4>2, <3>2, <3>3, <3>5
      <4>3. CASE y = x /\ lines[y].dirty
        BY <4>1, <4>3, <3>2, <3>5, <2>2
      <4>4. CASE y # x /\ lines[y].dirty
        <5>1. ~lines'[y].valid
          BY <4>1, <4>4, <3>5, <1>5
        <5>2. \E z \in Slot : /\ lines[z].valid /\ lines[z].tag = k
                              /\ flash'[k] = lines[z].data
          BY <5>1, <4>1, <4>4, <3>1, <3>5
        <5> QED BY <5>2, <3>2, <1>4
      <4> QED BY <4>2, <4>3, <4>4
    <3> QED BY <3>2, <3>3, <3>4, <3>5
  <2> QED BY <2>1, <2>2
<1>12. CleanWithoutWriteCache'
  BY DEF CleanWithoutWriteCache, UseWriteCaching
<1> QED BY <1>8, <1>9, <1>10, <1>11, <1>12 DEF CacheInv

(***************************************************************************)
(* What is there of page l becomes old; nothing else of the lines changes. *)
(***************************************************************************)
LEMMA AgedLemma ==
  ASSUME CacheTypes, NEW l \in LCA
  PROVE  /\ AgedLines(l) \in [Slot -> Line]
         /\ \A y \in Slot :
              /\ AgedLines(l)[y].tag = lines[y].tag
              /\ AgedLines(l)[y].valid = lines[y].valid
              /\ AgedLines(l)[y].dirty = lines[y].dirty
              /\ lines[y].tag # l => AgedLines(l)[y].data = lines[y].data
         /\ DirtyLine(l) \in Line /\ l \in Tag
         /\ \A f \in [Tag -> Data] :
              /\ AgedFlash(f, l) \in [Tag -> Data]
              /\ \A k \in Tag \ {l} : AgedFlash(f, l)[k] = f[k]
<1>1. l \in Tag
  BY SettingTypes DEF CacheTypes
<1>2. \A d \in Data : Aged(d) \in Data
  BY DEF Aged, Data
<1>3. ASSUME NEW y \in Slot
      PROVE  /\ AgedLines(l)[y] \in Line
             /\ AgedLines(l)[y].tag = lines[y].tag
             /\ AgedLines(l)[y].valid = lines[y].valid
             /\ AgedLines(l)[y].dirty = lines[y].dirty
             /\ lines[y].tag # l => AgedLines(l)[y].data = lines[y].data
  <2>1. lines[y] \in Line /\ lines[y].data \in Data
    BY DEF CacheTypes, Line
  <2>2. CASE lines[y].tag = l
    <3>1. AgedLines(l)[y] = [lines[y] EXCEPT !.data = Aged(lines[y].data)]
      BY <2>2 DEF AgedLines
    <3> QED BY <3>1, <2>1, <2>2, <1>2 DEF Line
  <2>3. CASE lines[y].tag # l
    BY <2>1, <2>3 DEF AgedLines
  <2> QED BY <2>2, <2>3
<1>4. AgedLines(l) = [y \in Slot |-> AgedLines(l)[y]]
  BY DEF AgedLines
<1>5. AgedLines(l) \in [Slot -> Line]
  BY <1>3, <1>4
<1>6. DirtyLine(l) \in Line
  BY <1>1 DEF DirtyLine, Line, Data
<1>7. ASSUME NEW f \in [Tag -> Data]
      PROVE  /\ AgedFlash(f, l) \in [Tag -> Data]
             /\ \A k \in Tag \ {l} : AgedFlash(f, l)[k] = f[k]
  BY <1>1, <1>2 DEF AgedFlash
<1> QED BY <1>1, <1>3, <1>5, <1>6, <1>7

(***************************************************************************)
(* A write to a line that holds the page, to an empty line, and, when the  *)
(* set is full, to one of the lines evicted.                               *)
(***************************************************************************)
LEMMA WriteHitKeeps ==
  ASSUME CacheInv, NEW l \in LCA, WriteHit(l)
  PROVE  CacheInv'
<1>1. PICK x \in ValidSlots(l) :
        lines' = [AgedLines(l) EXCEPT ![x] = DirtyLine(l)]
  BY DEF WriteHit
<1>2. x \in Slot /\ x \in SlotsOf(l) /\ lines[x].valid /\ lines[x].tag = l
  BY DEF ValidSlots, SlotsOf
<1>3. CacheTypes /\ flash \in [Tag -> Data]
  BY DEF CacheInv, CacheTypes
<1>4. /\ lines' \in [Slot -> Line] /\ lines'[x] = DirtyLine(l)
      /\ \A y \in Slot \ {x} : lines'[y] = AgedLines(l)[y]
  BY <1>1, <1>2, <1>3, AgedLemma
<1>5. flash' \in [Tag -> Data] /\ \A k \in Tag \ {l} : flash'[k] = flash[k]
  BY <1>3, AgedLemma DEF WriteHit
<1>6. \A y \in Slot : claims[y] = NoTag
  BY DEF WriteHit, CacheInv, ReadInBounds
<1>7. \A y \in Slot \ {x} : lines[y].valid => lines[y].tag # l
  BY <1>2, <1>6 DEF CacheInv, PagesApart, Settled
<1>8. \A y \in Slot \ {x} :
        /\ lines'[y].valid = lines[y].valid
        /\ lines'[y].tag = lines[y].tag /\ lines'[y].dirty = lines[y].dirty
        /\ lines[y].tag # l => lines'[y].data = lines[y].data
  BY <1>3, <1>4, AgedLemma
<1>9. ~panic' /\ written' = written \cup {l} /\ UNCHANGED <<setting, jobVars>>
  BY DEF WriteHit, CacheInv
<1> QED BY <1>2, <1>4, <1>5, <1>7, <1>8, <1>9, StoreKeeps DEF WriteHit

LEMMA WriteEmptyKeeps ==
  ASSUME CacheInv, NEW l \in LCA, WriteEmpty(l)
  PROVE  CacheInv'
<1>1. PICK x \in EmptySlots(l) :
        lines' = [AgedLines(l) EXCEPT ![x] = DirtyLine(l)]
  BY DEF WriteEmpty
<1>2. x \in Slot /\ x \in SlotsOf(l) /\ ~lines[x].valid
  BY DEF EmptySlots, SlotsOf
<1>3. CacheTypes /\ flash \in [Tag -> Data]
  BY DEF CacheInv, CacheTypes
<1>4. /\ lines' \in [Slot -> Line] /\ lines'[x] = DirtyLine(l)
      /\ \A y \in Slot \ {x} : lines'[y] = AgedLines(l)[y]
  BY <1>1, <1>2, <1>3, AgedLemma
<1>5. flash' \in [Tag -> Data] /\ \A k \in Tag \ {l} : flash'[k] = flash[k]
  BY <1>3, AgedLemma DEF WriteEmpty
<1>6. \A y \in Slot : claims[y] = NoTag
  BY DEF WriteEmpty, CacheInv, ReadInBounds
<1>7. \A y \in Slot : lines[y].valid => lines[y].tag # l
  BY <1>6 DEF CacheInv, PagesApart, Settled, WriteEmpty, ValidSlots, SlotsOf
<1>8. \A y \in Slot \ {x} :
        /\ lines'[y].valid = lines[y].valid
        /\ lines'[y].tag = lines[y].tag /\ lines'[y].dirty = lines[y].dirty
        /\ lines[y].tag # l => lines'[y].data = lines[y].data
  BY <1>3, <1>4, AgedLemma
<1>9. ~panic' /\ written' = written \cup {l} /\ UNCHANGED <<setting, jobVars>>
  BY DEF WriteEmpty, CacheInv
<1> QED BY <1>2, <1>4, <1>5, <1>7, <1>8, <1>9, StoreKeeps DEF WriteEmpty

(***************************************************************************)
(* The lines evicted for a write: valid ones, one of them in the set of    *)
(* the page, by every policy and in both modes of eviction.                *)
(***************************************************************************)
LEMMA EvictedLemma ==
  ASSUME CacheInv, pc = "idle", NEW l \in LCA,
         NEW P \in Picked, NEW E \in WithSet(l, P)
  PROVE  E \subseteq Valid /\ E \cap SlotsOf(l) # {}
<1>1. P \subseteq Valid
  BY DEF Picked
<1>2. \A x \in Valid : x[1] = calcSetIndex(lines[x].tag)
  BY DEF CacheInv, PagesApart, ReadInBounds, Settled, Valid
<1>3. CASE \E x \in P : calcSetIndex(lines[x].tag) = calcSetIndex(l)
  <2>1. PICK x \in P : calcSetIndex(lines[x].tag) = calcSetIndex(l)
    BY <1>3
  <2>2. x \in Slot /\ x[1] = calcSetIndex(l)
    BY <2>1, <1>1, <1>2 DEF Valid
  <2>3. E = P
    BY <1>3 DEF WithSet
  <2> QED BY <2>2, <2>3, <1>1 DEF SlotsOf
<1>4. CASE ~\E x \in P : calcSetIndex(lines[x].tag) = calcSetIndex(l)
  <2>1. PICK y \in SlotsOf(l) \cap Valid : E = Replaced(P, y)
    BY <1>4 DEF WithSet
  <2>2. y \in E /\ E \subseteq P \cup {y}
    BY <2>1 DEF Replaced
  <2> QED BY <2>1, <2>2, <1>1
<1> QED BY <1>3, <1>4

LEMMA WriteFullKeeps ==
  ASSUME CacheInv, NEW l \in LCA, WriteFull(l)
  PROVE  CacheInv'
<1>1. PICK P \in Picked : \E E \in WithSet(l, P) :
        LET free == E \cap SlotsOf(l)
            evicted == [x \in Slot |-> IF x \in E THEN EmptyLine
                                                  ELSE AgedLines(l)[x]]
        IN  /\ flash' = AgedFlash(WrittenBack(E), l)
            /\ IF free = {}
               THEN lines' = evicted /\ panic' = TRUE
               ELSE /\ \E x \in free :
                         lines' = [evicted EXCEPT ![x] = DirtyLine(l)]
                    /\ UNCHANGED panic
  BY DEF WriteFull
<1>2. PICK E \in WithSet(l, P) :
        LET free == E \cap SlotsOf(l)
            evicted == [x \in Slot |-> IF x \in E THEN EmptyLine
                                                  ELSE AgedLines(l)[x]]
        IN  /\ flash' = AgedFlash(WrittenBack(E), l)
            /\ IF free = {}
               THEN lines' = evicted /\ panic' = TRUE
               ELSE /\ \E x \in free :
                         lines' = [evicted EXCEPT ![x] = DirtyLine(l)]
                    /\ UNCHANGED panic
  BY <1>1
<1> DEFINE evicted == [x \in Slot |-> IF x \in E THEN EmptyLine
                                                 ELSE AgedLines(l)[x]]
<1>3. E \subseteq Valid /\ E \cap SlotsOf(l) # {}
  BY EvictedLemma DEF WriteFull
<1>4. PICK x \in E \cap SlotsOf(l) :
        lines' = [evicted EXCEPT ![x] = DirtyLine(l)]
  BY <1>2, <1>3
<1>5. flash' = AgedFlash(WrittenBack(E), l) /\ UNCHANGED panic
  BY <1>2, <1>3
<1>6. x \in E /\ x \in Slot /\ x \in SlotsOf(l) /\ lines[x].valid /\ E \subseteq Slot
  BY <1>3, <1>4 DEF SlotsOf, Valid
<1>7. CacheTypes /\ EmptyLine \in Line
  BY SettingTypes DEF CacheInv, CacheTypes
<1>8. /\ lines' \in [Slot -> Line] /\ lines'[x] = DirtyLine(l)
      /\ \A y \in Slot \ {x} :
           lines'[y] = IF y \in E THEN EmptyLine ELSE AgedLines(l)[y]
  <2>1. evicted \in [Slot -> Line]
    BY <1>7, AgedLemma
  <2>2. DirtyLine(l) \in Line
    BY <1>7, AgedLemma
  <2> QED BY <2>1, <2>2, <1>4, <1>6
<1>9. \A y \in Slot : lines[y].valid => y \in Settled /\ lines[y].tag # l
  <2>1. \A y \in Slot : claims[y] = NoTag
    BY DEF WriteFull, CacheInv, ReadInBounds
  <2> QED BY <2>1 DEF CacheInv, PagesApart, Settled, WriteFull, ValidSlots, SlotsOf
<1>10. \A y \in Slot \ {x} : lines'[y].valid =>
         /\ lines[y].valid /\ lines[y].tag # l
         /\ lines'[y].tag = lines[y].tag /\ lines'[y].dirty = lines[y].dirty
         /\ lines'[y].data = lines[y].data
  <2> TAKE y \in Slot \ {x}
  <2>1. CASE y \in E
    BY <2>1, <1>8 DEF EmptyLine
  <2>2. CASE y \notin E
    BY <2>2, <1>7, <1>8, <1>9, AgedLemma
  <2> QED BY <2>1, <2>2
<1>11. /\ flash' \in [Tag -> Data]
       /\ \A k \in Tag \ {l} : flash'[k] = WrittenBack(E)[k]
  BY <1>5, <1>6, <1>7, WrittenBackLemma, AgedLemma
<1>12. \A k \in Tag \ {l} :
         \/ flash'[k] = flash[k] /\ \A y \in Slot \ {x} :
              lines[y].valid /\ lines[y].dirty /\ lines[y].tag = k =>
                lines'[y].valid
         \/ \E y \in Slot : /\ lines[y].valid /\ lines[y].tag = k
                            /\ flash'[k] = lines[y].data
  <2> TAKE k \in Tag \ {l}
  <2>1. CASE \E y \in E : /\ lines[y].valid /\ lines[y].dirty /\ lines[y].tag = k
                          /\ WrittenBack(E)[k] = lines[y].data
    BY <2>1, <1>6, <1>11
  <2>2. CASE /\ \A y \in E : ~(lines[y].valid /\ lines[y].dirty /\ lines[y].tag = k)
             /\ WrittenBack(E)[k] = flash[k]
    <3>1. ASSUME NEW y \in Slot \ {x}, lines[y].valid, lines[y].dirty,
                 lines[y].tag = k
          PROVE  lines'[y].valid
      BY <3>1, <2>2, <1>7, <1>8, AgedLemma
    <3> QED BY <3>1, <2>2, <1>11
  <2> QED BY <2>1, <2>2, <1>6, <1>7, WrittenBackLemma
<1>13. lines[x].dirty => flash'[lines[x].tag] = lines[x].data
  <2> SUFFICES ASSUME lines[x].dirty PROVE flash'[lines[x].tag] = lines[x].data
    OBVIOUS
  <2>1. lines[x].tag \in Tag \ {l}
    BY <1>6, <1>9 DEF CacheInv, CacheTypes, Line
  <2>2. PICK y \in E : /\ lines[y].valid /\ lines[y].tag = lines[x].tag
                       /\ WrittenBack(E)[lines[x].tag] = lines[y].data
    BY <2>1, <1>6, <1>7, WrittenBackLemma
  <2>3. y = x
    BY <2>2, <1>6, <1>9 DEF CacheInv, PagesApart
  <2> QED BY <2>1, <2>2, <2>3, <1>11
<1>14. /\ ~panic' /\ written' = written \cup {l} /\ UNCHANGED <<setting, jobVars>>
       /\ pc = "idle" /\ UseWriteCaching
  BY <1>5 DEF WriteFull, CacheInv
<1> QED BY <1>6, <1>8, <1>10, <1>11, <1>12, <1>13, <1>14, StoreKeeps

-----------------------------------------------------------------------------
(* Steps that only invalidate lines, or none.                              *)

(***************************************************************************)
(* Calls that drop lines.                                                  *)
(***************************************************************************)
LEMMA FewerLinesKeep ==
  ASSUME CacheInv, pc = "idle", UNCHANGED <<setting, jobVars>>,
         lines' \in [Slot -> Line],
         \A x \in Slot : /\ lines'[x].tag = lines[x].tag
                         /\ lines'[x].valid => lines[x].valid
  PROVE  ReadInBounds' /\ PagesApart'
         /\ Settled' = {x \in Slot : lines'[x].valid}
<1>1. UNCHANGED <<NumPages, SetSize, Slot, Tag, LCA, Line>>
  BY SettingFixed
<1>2. \A x \in Slot : claims[x] = NoTag /\ claims'[x] = NoTag
  BY DEF CacheInv, ReadInBounds, jobVars
<1>3. Settled' = {x \in Slot : lines'[x].valid}
  BY <1>1, <1>2 DEF Settled
<1>4. Settled = {x \in Slot : lines[x].valid}
  BY <1>2 DEF Settled
<1>5. ReadInBounds'
  BY <1>1 DEF CacheInv, ReadInBounds, jobVars
<1>6. PagesApart'
  BY <1>1, <1>2, <1>3, <1>4 DEF CacheInv, PagesApart, calcSetIndex
<1> QED BY <1>3, <1>5, <1>6

(***************************************************************************)
(* A write without write caching.                                          *)
(***************************************************************************)
LEMMA WriteThroughKeeps ==
  ASSUME CacheInv, NEW l \in LCA, WriteThrough(l)
  PROVE  CacheInv'
<1>1. /\ CacheTypes /\ pc = "idle" /\ ~UseWriteCaching
      /\ UNCHANGED <<setting, jobVars, panic>> /\ lines' = AgedLines(l)
      /\ written' = written \cup {l} /\ flash' = [flash EXCEPT ![l] = "new"]
  BY DEF WriteThrough, CacheInv
<1>2. UNCHANGED <<NumPages, SetSize, Slot, Tag, LCA, Line>>
  BY <1>1, SettingFixed
<1>3. /\ lines' \in [Slot -> Line]
      /\ \A x \in Slot : /\ lines'[x].tag = lines[x].tag
                          /\ lines'[x].valid = lines[x].valid
                          /\ lines'[x].dirty = lines[x].dirty
      /\ l \in Tag
  BY <1>1, AgedLemma
<1>4. flash' \in [Tag -> Data] /\ flash'[l] = "new"
      /\ \A k \in Tag \ {l} : flash'[k] = flash[k]
  BY <1>1, <1>3 DEF CacheTypes, Data
<1>5. ReadInBounds' /\ PagesApart'
  BY <1>1, <1>3, FewerLinesKeep
<1>6. CacheTypes'
  BY <1>1, <1>2, <1>3, <1>4 DEF CacheTypes, jobVars
<1>7. CleanWithoutWriteCache'
  <2>1. \A x \in Slot : ~lines[x].dirty
    BY <1>1 DEF CacheInv, CleanWithoutWriteCache
  <2>2. \A k \in written \cup {l} : flash'[k] = "new"
    BY <1>1, <1>4, SettingTypes DEF CacheInv, CacheTypes, CleanWithoutWriteCache
  <2> QED BY <2>1, <2>2, <1>1, <1>2, <1>3 DEF CleanWithoutWriteCache
<1>8. NewestKept'
  BY <1>1 DEF NewestKept, UseWriteCaching
<1> QED BY <1>1, <1>5, <1>6, <1>7, <1>8 DEF CacheInv

(***************************************************************************)
(* Of several dirty lines with one tag, flush visits one last.             *)
(***************************************************************************)
LEMMA LatestDirty ==
  ASSUME CacheTypes, NEW l, DirtySlots(l) # {}
  PROVE  \E x \in DirtySlots(l) : \A y \in DirtySlots(l) : Later(x, y)
<1> DEFINE D == DirtySlots(l)
           I == {x[1] + 1 : x \in D}
           J == {x[2] : x \in {y \in D : y[1] + 1 = Max(I)}}
<1>1. SetSize \in Nat /\ WaySize \in Nat
  BY SettingTypes DEF CacheTypes
<1>2. \A x \in D : x[1] + 1 \in 1 .. SetSize /\ x[2] \in 1 .. WaySize
                   /\ x[1] \in Int
  BY <1>1 DEF DirtySlots, Slot
<1> HIDE DEF D
<1>3. I \subseteq 1 .. SetSize /\ I # {}
  <2>1. PICK x \in D : TRUE
    BY DEF D
  <2>2. x[1] + 1 \in I
    OBVIOUS
  <2> QED BY <2>2, <1>2
<1>4. Max(I) \in I /\ \A i \in I : i <= Max(I)
  BY <1>1, <1>3, MaxLemma
<1>5. J \subseteq 1 .. WaySize /\ J # {}
  <2>1. PICK x \in D : x[1] + 1 = Max(I)
    BY <1>4
  <2>2. x[2] \in J
    BY <2>1
  <2> QED BY <2>2, <1>2
<1>6. Max(J) \in J /\ \A j \in J : j <= Max(J)
  BY <1>1, <1>5, MaxLemma
<1>7. PICK x \in D : x[1] + 1 = Max(I) /\ x[2] = Max(J)
  BY <1>6
<1>8. ASSUME NEW y \in D PROVE Later(x, y)
  <2>1. y[1] + 1 \in I /\ y[1] + 1 <= x[1] + 1
    <3>1. y[1] + 1 \in I
      OBVIOUS
    <3> QED BY <3>1, <1>4, <1>7
  <2>2. CASE y[1] = x[1]
    <3>1. y[2] \in J
      BY <2>2, <1>7
    <3>2. y[2] <= x[2]
      BY <3>1, <1>6, <1>7
    <3> QED BY <2>2, <3>2, <1>2 DEF Later
  <2>3. CASE y[1] # x[1]
    <3> HIDE DEF I, J
    <3> QED BY <2>1, <2>3, <1>2 DEF Later
  <2> QED BY <2>2, <2>3
<1> QED BY <1>7, <1>8 DEF D

(***************************************************************************)
(* A flush writes one line of each page and leaves the lines as they are.  *)
(***************************************************************************)
LEMMA FlushKeeps ==
  ASSUME CacheInv, NEW range, Flush(range)
  PROVE  CacheInv'
<1> DEFINE At(l) == CHOOSE x \in DirtySlots(l) :
                      \A y \in DirtySlots(l) : Later(x, y)
<1>1. /\ CacheTypes /\ pc = "idle" /\ setting.flush
      /\ UNCHANGED <<setting, jobVars, panic, written>>
      /\ lines' = Invalidated(range)
      /\ flash' = [l \in Tag |-> IF l \notin range \/ DirtySlots(l) = {}
                                 THEN flash[l] ELSE lines[At(l)].data]
  BY DEF Flush, CacheInv
<1>2. UNCHANGED <<NumPages, SetSize, Slot, Tag, LCA, Line>>
  BY <1>1, SettingFixed
<1>3. ASSUME NEW l \in Tag PROVE flash'[l] \in Data
  <2>1. CASE DirtySlots(l) = {} \/ l \notin range
    BY <2>1, <1>1 DEF CacheTypes
  <2>2. CASE DirtySlots(l) # {} /\ l \in range
    <3>1. At(l) \in DirtySlots(l)
      BY <2>2, <1>1, LatestDirty
    <3>2. At(l) \in Slot
      BY <3>1 DEF DirtySlots
    <3>3. lines[At(l)].data \in Data
      BY <3>2, <1>1 DEF CacheTypes, Line
    <3> QED BY <3>3, <2>2, <1>1
  <2> QED BY <2>1, <2>2
<1>4. flash' \in [Tag -> Data]
  <2> HIDE DEF At
  <2>1. flash' = [l \in Tag |-> flash'[l]]
    BY <1>1
  <2> QED BY <2>1, <1>3
<1>5. ASSUME NEW x \in Slot
      PROVE  /\ lines'[x] \in Line
             /\ lines'[x].tag = lines[x].tag /\ lines'[x].dirty = lines[x].dirty
             /\ lines'[x].valid => lines[x].valid
  <2>1. lines[x] \in Line
    BY <1>1 DEF CacheTypes
  <2>2. CASE lines[x].tag \in range
    <3>1. lines'[x] = [lines[x] EXCEPT !.valid = FALSE]
      BY <2>2, <1>1 DEF Invalidated
    <3> QED BY <3>1, <2>1 DEF Line
  <2>3. CASE lines[x].tag \notin range
    BY <2>1, <2>3, <1>1 DEF Invalidated
  <2> QED BY <2>2, <2>3
<1>6. lines' \in [Slot -> Line]
  <2>1. lines' = [x \in Slot |-> lines'[x]]
    BY <1>1 DEF Invalidated
  <2> QED BY <2>1, <1>5
<1>7. ReadInBounds' /\ PagesApart'
  BY <1>1, <1>5, <1>6, FewerLinesKeep
<1>8. CacheTypes'
  BY <1>1, <1>2, <1>4, <1>6 DEF CacheTypes, jobVars
<1>9. CleanWithoutWriteCache'
  <2> SUFFICES ASSUME ~UseWriteCaching
               PROVE  /\ \A x \in Slot : ~lines'[x].dirty
                      /\ \A l \in written : flash'[l] = "new"
    BY <1>1, <1>2 DEF CleanWithoutWriteCache, UseWriteCaching
  <2>1. \A x \in Slot : ~lines[x].dirty
    BY DEF CacheInv, CleanWithoutWriteCache
  <2>2. \A l \in Tag : flash'[l] = flash[l]
    BY <2>1, <1>1 DEF DirtySlots
  <2>3. \A l \in written : l \in Tag /\ flash[l] = "new"
    BY SettingTypes DEF CacheInv, CacheTypes, CleanWithoutWriteCache
  <2> QED BY <2>1, <2>2, <2>3, <1>5
<1>10. NewestKept'
  BY <1>1 DEF NewestKept
<1> QED BY <1>1, <1>7, <1>8, <1>9, <1>10 DEF CacheInv

(***************************************************************************)
(* Trim and format forget pages: those that are left are where they were.  *)
(***************************************************************************)
LEMMA ForgetKeeps ==
  ASSUME CacheInv, NEW range, pc = "idle",
         UNCHANGED <<setting, jobVars, panic>>,
         written' = written \ range,
         flash' \in [Tag -> Data],
         \A l \in Tag \ range : flash'[l] = flash[l],
         \/ lines' = AllAged(range)
         \/ lines' = lines /\ ~UseReadCaching
  PROVE  CacheInv'
<1>1. UNCHANGED <<NumPages, SetSize, Slot, Tag, LCA, Line>>
  BY SettingFixed
<1>2. lines \in [Slot -> Line] /\ LCA \subseteq Tag /\ written \subseteq LCA
  BY SettingTypes DEF CacheInv, CacheTypes
<1>3. \A d \in Data : Aged(d) \in Data
  BY DEF Aged, Data
<1>4. ASSUME NEW x \in Slot
      PROVE  /\ lines'[x] \in Line
             /\ lines'[x].tag = lines[x].tag /\ lines'[x].dirty = lines[x].dirty
             /\ lines'[x].valid => lines[x].valid
             /\ lines[x].tag \notin range => lines'[x] = lines[x]
  <2>1. lines[x] \in Line /\ lines[x].data \in Data
    BY <1>2 DEF Line
  <2>2. CASE lines' = AllAged(range) /\ lines[x].tag \in range
    <3>1. lines'[x] = [lines[x] EXCEPT !.valid = FALSE,
                                       !.data = Aged(lines[x].data)]
      BY <2>2 DEF AllAged
    <3> QED BY <3>1, <2>1, <2>2, <1>3 DEF Line
  <2>3. CASE lines' = AllAged(range) /\ lines[x].tag \notin range
    BY <2>1, <2>3 DEF AllAged
  <2>4. CASE lines' = lines
    BY <2>1, <2>4
  <2> QED BY <2>2, <2>3, <2>4
<1>5. lines' \in [Slot -> Line]
  <2>1. lines' = [x \in Slot |-> lines'[x]]
    BY <1>2 DEF AllAged
  <2> QED BY <2>1, <1>4
<1>6. /\ ReadInBounds' /\ PagesApart'
      /\ Settled' = {x \in Slot : lines'[x].valid}
  BY <1>4, <1>5, FewerLinesKeep
<1>7. CacheTypes'
  BY <1>1, <1>5 DEF CacheInv, CacheTypes, jobVars
<1>8. CleanWithoutWriteCache'
  BY <1>1, <1>2, <1>4 DEF CacheInv, CleanWithoutWriteCache, UseWriteCaching
<1>9. NewestKept'
  <2> SUFFICES ASSUME UseReadCaching /\ UseWriteCaching /\ ~setting.flush,
                      NEW l \in written \ range
               PROVE  /\ \A y \in Settled' : lines'[y].tag = l =>
                           /\ lines'[y].data = "new"
                           /\ lines'[y].dirty \/ flash'[l] = "new"
                      /\ \/ \E y \in Settled' : lines'[y].tag = l
                         \/ flash'[l] = "new"
    BY DEF NewestKept, UseReadCaching, UseWriteCaching
  <2>1. l \in Tag \ range /\ flash'[l] = flash[l]
    BY <1>2
  <2>2. Settled = {x \in Slot : lines[x].valid}
    BY DEF CacheInv, ReadInBounds, Settled
  <2>3. /\ \A x \in Settled : lines[x].tag = l =>
             lines[x].data = "new" /\ (lines[x].dirty \/ flash[l] = "new")
        /\ (\E x \in Settled : lines[x].tag = l) \/ flash[l] = "new"
    BY DEF CacheInv, NewestKept
  <2> QED BY <2>1, <2>2, <2>3, <1>4, <1>6
<1> QED BY <1>6, <1>7, <1>8, <1>9 DEF CacheInv

(***************************************************************************)
(* Trims and formats drop lines; the pages are not written any more.       *)
(***************************************************************************)
LEMMA TrimKeeps ==
  ASSUME CacheInv, NEW range, Trim(range)
  PROVE  CacheInv'
<1>1. flash \in [Tag -> Data] /\ \A d \in Data : Aged(d) \in Data
  BY DEF CacheInv, CacheTypes, Aged, Data
<1>2. flash' = [l \in Tag |->
         IF l \notin range THEN flash[l]
         ELSE IF \E x \in Slot : lines[x].tag = l THEN "none" ELSE Aged(flash[l])]
  BY DEF Trim
<1>3. flash' \in [Tag -> Data] /\ \A l \in Tag \ range : flash'[l] = flash[l]
  <2>1. "none" \in Data
    BY DEF Data
  <2> QED BY <2>1, <1>1, <1>2
<1> QED BY <1>3, ForgetKeeps DEF Trim

LEMMA FormatKeeps ==
  ASSUME CacheInv, NEW range, Format(range)
  PROVE  CacheInv'
<1>1. flash' \in [Tag -> Data] /\ \A l \in Tag \ range : flash'[l] = flash[l]
  BY DEF Format, CacheInv, CacheTypes, Data
<1>2. lines' = AllAged(range) \/ (lines' = lines /\ ~UseReadCaching)
  BY DEF Format
<1> QED BY <1>1, <1>2, ForgetKeeps DEF Format

(***************************************************************************)
(* Every step keeps the invariant.                                         *)
(***************************************************************************)
LEMMA NextCacheInv == CacheInv /\ [Next]_vars => CacheInv'
<1> SUFFICES ASSUME CacheInv, [Next]_vars PROVE CacheInv'
  OBVIOUS
<1>1. CASE UNCHANGED vars
  <2>1. UNCHANGED <<NumPages, SetSize, Slot, Tag, LCA, Line, Settled>>
    BY <1>1, SettingFixed DEF vars, Settled
  <2> QED BY <2>1, <1>1 DEF vars, CacheInv, CacheTypes, ReadInBounds, PagesApart,
       NewestKept, CleanWithoutWriteCache, calcSetIndex, UseReadCaching,
       UseWriteCaching
<1>2. ASSUME NEW l \in LCA, ReadMiss(l) \/ ReadPrefetch(l) PROVE CacheInv'
  BY <1>2, ReadMissKeeps, ReadPrefetchKeeps
<1>3. CASE SkipCached \/ ClaimEmpty \/ ClaimEvicted \/ LoadLines
  BY <1>3, SkipCachedKeeps, ClaimEmptyKeeps, ClaimEvictedKeeps, LoadLinesKeeps
<1>4. ASSUME NEW l \in LCA, WriteHit(l) \/ WriteEmpty(l) \/ WriteFull(l)
                            \/ WriteThrough(l)
      PROVE  CacheInv'
  BY <1>4, WriteHitKeeps, WriteEmptyKeeps, WriteFullKeeps, WriteThroughKeeps
<1>5. ASSUME NEW r \in FlushRanges, Flush(r) PROVE CacheInv'
  BY <1>5, FlushKeeps
<1>6. ASSUME NEW r \in TrimRanges, Trim(r) PROVE CacheInv'
  BY <1>6, TrimKeeps
<1>7. ASSUME NEW r \in FormatRanges, Format(r) PROVE CacheInv'
  BY <1>7, FormatKeeps
<1> QED BY <1>1, <1>2, <1>3, <1>4, <1>5, <1>6, <1>7 DEF Next

-----------------------------------------------------------------------------
(***************************************************************************)
(* A page is in at most one valid line between calls, in its own set: no   *)
(* sequence of claims, evictions and prefetches makes a second copy.       *)
(***************************************************************************)
THEOREM PagesAreCachedOnce == Spec => []NoDuplicates
<1>1. CacheInv => NoDuplicates
  BY DEF CacheInv, ReadInBounds, PagesApart, NoDuplicates, Valid, SlotsOf, Settled
<1> QED BY <1>1, InitCacheInv, NextCacheInv, PTL DEF Spec

(***************************************************************************)
(* A read returns the data the host wrote last.                            *)
(***************************************************************************)
THEOREM ReadsReturnNewest == Spec => []NewestReadable
<1>1. CacheInv => NewestReadable
  <2> SUFFICES ASSUME CacheInv, pc = "idle",
                      UseReadCaching /\ UseWriteCaching /\ ~setting.flush,
                      NEW l \in written
               PROVE  Readable(l) = {"new"}
    BY DEF NewestReadable
  <2>1. Settled = {x \in Slot : lines[x].valid}
    BY DEF CacheInv, ReadInBounds, Settled
  <2>2. /\ \A x \in Settled : lines[x].tag = l => lines[x].data = "new"
        /\ (\E x \in Settled : lines[x].tag = l) \/ flash[l] = "new"
    BY DEF CacheInv, NewestKept
  <2>3. \A x \in Settled : lines[x].tag = l => x \in ValidSlots(l)
    BY <2>1 DEF CacheInv, PagesApart, ValidSlots, SlotsOf
  <2>4. ValidSlots(l) \subseteq {x \in Settled : lines[x].tag = l}
    BY <2>1 DEF ValidSlots, SlotsOf
  <2>5. CASE ValidSlots(l) = {}
    BY <2>2, <2>3, <2>5 DEF Readable
  <2>6. CASE ValidSlots(l) # {}
    <3>1. {lines[x].data : x \in ValidSlots(l)} = {"new"}
      BY <2>2, <2>4, <2>6
    <3> QED BY <3>1, <2>6 DEF Readable
  <2> QED BY <2>5, <2>6
<1> QED BY <1>1, InitCacheInv, NextCacheInv, PTL DEF Spec

(***************************************************************************)
(* The panic of write cannot happen: of the lines evicted for a write, by  *)
(* every policy, one is in the set of the page.                            *)
(***************************************************************************)
THEOREM CacheIsNeverCorrupted == Spec => []NeverCorrupted
<1>1. CacheInv => NeverCorrupted
  BY DEF CacheInv, NeverCorrupted
<1> QED BY <1>1, InitCacheInv, NextCacheInv, PTL DEF Spec

(***************************************************************************)
(* With write caching off, reads, evictions and flushes never overwrite    *)
(* what a write has put into the flash.                                    *)
(***************************************************************************)
THEOREM WritesAreDurable == Spec => []DurableWrites
<1>1. CacheInv => DurableWrites
  BY DEF CacheInv, CleanWithoutWriteCache, DurableWrites
<1> QED BY <1>1, InitCacheInv, NextCacheInv, PTL DEF Spec
=============================================================================
