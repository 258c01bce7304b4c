------------------------- MODULE PageMappingProofs -------------------------
(***************************************************************************)
(* Theorems about the page-mapping FTL, for every geometry and every       *)
(* setting of the options.                                                 *)
(***************************************************************************)
EXTENDS PageMapping, SequenceLemmas, FiniteSetTheorems

(***************************************************************************)
(* A collection is running: between doGarbageCollection's first block and  *)
(* its last erase, the copies of single pages included.                    *)
(***************************************************************************)
Collecting ==
  \/ pc \in {"scan", "erase"}
  \/ pc \in {"alloc", "program"} /\ req = NoReq

(***************************************************************************)
(* What the types of the state rest on: the counter agrees with the list,  *)
(* the local variables of a call are set only while it runs, and the       *)
(* cursor of a collection is within the list of victims.                   *)
(***************************************************************************)
ControlOK ==
  /\ nFreeBlocks = Len(freeBlocks)
  /\ pc \in {"fill", "idle", "select", "scan", "erase"} => req = NoReq
  /\ Collecting => gc.at \in 1 .. Len(gc.victims)
  /\ pc \in {"alloc", "program"} /\ req = NoReq => gc.page \in Page

TypeInv == TypeOK /\ ControlOK

(***************************************************************************)
(* What the assumptions say of the constants.                              *)
(***************************************************************************)
LEMMA Constants ==
  /\ TotalPhysicalBlocks \in Nat /\ TotalLogicalBlocks \in Nat
  /\ PagesInBlock \in Nat /\ PagesInBlock > 0
  /\ PageCountToMaxPerf \in Nat /\ PageCountToMaxPerf > 0
  /\ TotalPhysicalBlocks > PageCountToMaxPerf
  /\ ReclaimBlocks \in Nat
  /\ TotalLogicalBlocks * PagesInBlock \in Nat
  /\ EnableCMT \in BOOLEAN
  /\ 0 \in Block /\ 0 \in Chan /\ 0 \in 0 .. PagesInBlock
  /\ -1 \notin LPN /\ -2 \notin LPN
  /\ -1 \notin Block /\ TotalPhysicalBlocks \notin Block
  /\ HostReads \subseteq LPN /\ HostTrims \subseteq LPN
  /\ FormatRanges \subseteq SUBSET LPN
<1>1. TotalLogicalBlocks * PagesInBlock \in Nat
  BY GeometryAssumption
<1> QED BY <1>1, GeometryAssumption, OptionAssumption DEF Block, Chan, LPN

(***************************************************************************)
(* A set of blocks is finite, so its cardinality is a number.              *)
(***************************************************************************)
LEMMA FiniteBlocks ==
  ASSUME NEW S, S \subseteq Block
  PROVE  IsFiniteSet(S) /\ Cardinality(S) \in Nat
<1>1. IsFiniteSet(Block)
  BY FS_Interval, Constants DEF Block
<1> QED BY <1>1, FS_Subset, FS_CardinalityType

(***************************************************************************)
(* The initial state is of its type.                                       *)
(***************************************************************************)
LEMMA InitTypeInv == Init => TypeInv
<1> SUFFICES ASSUME Init PROVE TypeInv
  OBVIOUS
<1>1. freeBlocks \in Seq(Block) /\ Len(freeBlocks) = TotalPhysicalBlocks - PageCountToMaxPerf
  BY Constants DEF Init, Block
<1>2. content \in [Block -> [Page -> Content]]
  BY DEF Init, Content
<1>3. /\ table \in [LPN -> Mapping] /\ cmt \in [LPN -> Mapping]
  BY DEF Init, Mapping
<1>4. blocks \in SUBSET Block /\ lastFreeBlock \in [Chan -> Block]
  BY Constants DEF Init, Block, Chan
<1>5. gc \in [victims : Seq(Block), at : Nat, page : 0 .. PagesInBlock]
  BY Constants DEF Init, NoGC
<1>6. ControlOK
  BY <1>1 DEF Init, ControlOK, Collecting
<1>7. /\ nextWrite \in [Block -> 0 .. PagesInBlock]
      /\ eraseCount \in [Block -> Nat] /\ cached \in [Block -> SUBSET Page]
  BY Constants DEF Init
<1>8. /\ nFreeBlocks \in Nat /\ lastFreeBlockIndex \in Chan
      /\ erasedIds \in SUBSET Block /\ cmtOrder \in Seq(LPN)
      /\ cmtWild \in SUBSET LPN /\ filled \in Nat /\ dest \in Block
  BY <1>1, Constants DEF Init
<1>11. ioMapSet \in BOOLEAN /\ gcStopped \in BOOLEAN
  BY DEF Init
<1>9. /\ pc \in Steps /\ panic \in Panics
      /\ req \in [lpn : LPN, entry : LPN, toPAL : BOOLEAN] \cup {NoReq}
  BY DEF Init, Steps, Panics
<1>10. TypeOK
  BY <1>1, <1>2, <1>3, <1>4, <1>5, <1>7, <1>8, <1>9, <1>11 DEF TypeOK
<1> QED BY <1>6, <1>10 DEF TypeInv

(***************************************************************************)
(* The operators the actions are made of keep the types.                   *)
(***************************************************************************)
LEMMA InvalidatedType ==
  ASSUME TypeOK, NEW m \in Mapping, m.block \in Block
  PROVE  Invalidated(content, m) \in [Block -> [Page -> Content]]
<1>1. m.page \in Page
  BY Constants DEF Mapping, NoEntry, FreshEntry, Loc
<1> QED BY <1>1 DEF Invalidated, TypeOK, Content

(***************************************************************************)
(* Types of what the helpers of the calls return: invalidation, the CMT,   *)
(* reading, free blocks, and lists of victims.                             *)
(***************************************************************************)
LEMMA InvalidateOldType ==
  ASSUME TypeOK, NEW m \in Mapping, InvalidateOld(m)
  PROVE  content' \in [Block -> [Page -> Content]]
BY InvalidatedType DEF InvalidateOld, InRange, TypeOK

LEMMA CmtLoadType ==
  ASSUME TypeOK, NEW l \in LPN, NEW m \in Mapping, NEW out, NEW wild \in BOOLEAN,
         CmtLoad(l, m, out, wild)
  PROVE  /\ cmt' \in [LPN -> Mapping]
         /\ cmtOrder' \in Seq(LPN)
         /\ cmtWild' \in SUBSET LPN
<1>1. cmt' \in [LPN -> Mapping]
  BY DEF CmtLoad, TypeOK, Mapping
<1>2. RemoveFirst(RemoveFirst(cmtOrder, out), l) \in Seq(LPN)
  BY RemoveFirstLemma DEF TypeOK
<1>3. cmtOrder' \in Seq(LPN)
  BY <1>2, AppendProperties DEF CmtLoad
<1>4. cmtWild' \in SUBSET LPN
  BY DEF CmtLoad, TypeOK
<1> QED BY <1>1, <1>3, <1>4

LEMMA CmtTouchType ==
  ASSUME TypeOK, NEW l \in LPN, CmtTouch(l)
  PROVE  /\ cmt' \in [LPN -> Mapping]
         /\ cmtOrder' \in Seq(LPN)
         /\ cmtWild' \in SUBSET LPN
<1>1. RemoveFirst(cmtOrder, l) \in Seq(LPN)
  BY RemoveFirstLemma DEF TypeOK
<1>2. cmtOrder' \in Seq(LPN)
  BY <1>1, AppendProperties DEF CmtTouch
<1> QED BY <1>2 DEF CmtTouch, TypeOK

LEMMA ReadPageType ==
  ASSUME TypeOK, NEW m \in Mapping, ReadPage(m)
  PROVE  /\ cached' \in [Block -> SUBSET Page]
         /\ pc' \in {pc, "panic"} /\ panic' \in Panics
<1>1. CASE ~InRange(m) \/ m.block \in erasedIds
  BY <1>1 DEF ReadPage, TypeOK
<1>2. CASE InRange(m) /\ m.block \notin erasedIds /\ m.block \notin blocks
  BY <1>2 DEF ReadPage, TypeOK, Fail, Panics
<1>3. CASE InRange(m) /\ m.block \notin erasedIds /\ m.block \in blocks
  <2>1. cached' = [cached EXCEPT ![m.block] = @ \cup {m.page}]
        /\ pc' = pc /\ panic' = panic
    BY <1>3 DEF ReadPage
  <2> QED BY <2>1, <1>3 DEF TypeOK, InRange
<1> QED BY <1>1, <1>2, <1>3

LEMMA FreePositionType ==
  ASSUME TypeOK, Len(freeBlocks) # 0, NEW c
  PROVE  FreePosition(c) \in 1 .. Len(freeBlocks)
<1> DEFINE own == {i \in 1 .. Len(freeBlocks) :
                     freeBlocks[i] % PageCountToMaxPerf = c}
<1>1. Len(freeBlocks) \in Nat /\ 1 \in 1 .. Len(freeBlocks)
  BY DEF TypeOK
<1>2. own # {} => Min(own) \in own
  <2>1. own \subseteq Nat
    BY <1>1
  <2> HIDE DEF own
  <2> QED BY <2>1, MinLemma
<1> QED BY <1>1, <1>2 DEF FreePosition

LEMMA GetFreeBlockType ==
  ASSUME TypeInv, NEW c \in Chan, GetFreeBlock(c)
  PROVE  /\ freeBlocks' \in Seq(Block) /\ nFreeBlocks' = Len(freeBlocks')
         /\ nFreeBlocks' \in Nat
         /\ blocks' \in SUBSET Block
         /\ lastFreeBlock' \in [Chan -> Block] /\ dest' \in Block
         /\ pc' \in {"program", "panic"} /\ panic' \in Panics
<1> DEFINE i == FreePosition(c)
           b == freeBlocks[i]
<1> USE DEF TypeInv, ControlOK
<1>1. CASE nFreeBlocks = 0 \/ b \in blocks
  <2>1. /\ freeBlocks' = freeBlocks /\ nFreeBlocks' = nFreeBlocks
        /\ blocks' = blocks /\ lastFreeBlock' = lastFreeBlock /\ dest' = dest
        /\ pc' = "panic" /\ panic' \in {"No free block left", "Corrupted"}
    BY <1>1 DEF GetFreeBlock, Fail, poolVars
  <2> QED BY <2>1 DEF TypeOK, Panics
<1>2. CASE nFreeBlocks # 0 /\ b \notin blocks
  <2>1. i \in 1 .. Len(freeBlocks)
    BY <1>2, FreePositionType
  <2>2. b \in Block
    BY <2>1 DEF TypeOK
  <2>3. RemoveAt(freeBlocks, i) \in Seq(Block)
        /\ Len(RemoveAt(freeBlocks, i)) = Len(freeBlocks) - 1
    BY <2>1, RemoveAtLemma DEF TypeOK
  <2>4. /\ blocks' = blocks \cup {b} /\ freeBlocks' = RemoveAt(freeBlocks, i)
        /\ nFreeBlocks' = nFreeBlocks - 1
        /\ lastFreeBlock' = [lastFreeBlock EXCEPT ![c] = b]
        /\ dest' = b /\ pc' = "program" /\ panic' = panic
    BY <1>2 DEF GetFreeBlock
  <2> HIDE DEF i, b
  <2>5. /\ freeBlocks' \in Seq(Block) /\ nFreeBlocks' = Len(freeBlocks')
        /\ nFreeBlocks' \in Nat
    <3>1. Len(freeBlocks) \in Nat /\ nFreeBlocks = Len(freeBlocks)
      BY DEF TypeOK
    <3>2. freeBlocks' \in Seq(Block) /\ Len(freeBlocks') = Len(freeBlocks) - 1
      BY <2>3, <2>4
    <3> QED BY <3>1, <3>2, <2>4, <1>2
  <2>6. blocks' \in SUBSET Block /\ lastFreeBlock' \in [Chan -> Block]
    BY <2>2, <2>4 DEF TypeOK
  <2> QED BY <2>2, <2>4, <2>5, <2>6 DEF TypeOK
<1> QED BY <1>1, <1>2

LEMMA NextChannelType ==
  ASSUME TypeOK
  PROVE  NextChannel \in Chan
BY Constants DEF TypeOK, NextChannel, Chan

LEMMA VictimListsType ==
  ASSUME TypeOK, NEW list \in VictimLists
  PROVE  list \in Seq(Candidates) /\ (list # <<>> => 1 \in 1 .. Len(list))
<1>1. Candidates \subseteq Block
  BY DEF Candidates, TypeOK
<1>2. Reclaimed \in Nat
  BY <1>1, FiniteBlocks, Constants DEF Reclaimed
<1>3. list = <<>> \/ list \in [1 .. Reclaimed -> Candidates]
  BY DEF VictimLists
<1>4. list \in Seq(Candidates)
  <2>1. CASE list = <<>>
    BY <2>1
  <2>2. CASE list \in [1 .. Reclaimed -> Candidates]
    BY <2>2, <1>2
  <2> QED BY <2>1, <2>2, <1>3
<1> QED BY <1>4

LEMMA SortedListsType ==
  ASSUME NEW S, S \subseteq Block, NEW list \in SortedLists(S)
  PROVE  list \in Seq(S) /\ (list # <<>> => 1 \in 1 .. Len(list))
<1>1. Cardinality(S) \in Nat
  BY FiniteBlocks
<1>2. list \in [1 .. Cardinality(S) -> S]
  BY DEF SortedLists
<1>3. list \in Seq(S)
  BY <1>1, <1>2
<1> QED BY <1>3

(***************************************************************************)
(* A collection starts with the first victim, if there is one.             *)
(***************************************************************************)
LEMMA StartGCType ==
  ASSUME TypeOK, NEW list \in Seq(Block), list # <<>> => 1 \in 1 .. Len(list),
         StartGC(list)
  PROVE  /\ gc' \in [victims : Seq(Block), at : Nat, page : 0 .. PagesInBlock]
         /\ pc' \in {"idle", "scan"}
         /\ pc' = "scan" => gc'.at \in 1 .. Len(gc'.victims)
<1>1. CASE gcStopped \/ list = <<>>
  <2>1. gc' = NoGC /\ pc' = "idle"
    BY <1>1 DEF StartGC
  <2> QED BY <2>1, Constants DEF NoGC
<1>2. CASE ~(gcStopped \/ list = <<>>)
  <2>1. gc' = [victims |-> list, at |-> 1, page |-> 0] /\ pc' = "scan"
    BY <1>2 DEF StartGC
  <2> QED BY <2>1, <1>2, Constants
<1> QED BY <1>1, <1>2

(***************************************************************************)
(* eraseInternal finds a place in the free list, behind the last block     *)
(* erased at most n times.                                                 *)
(***************************************************************************)
LEMMA InsertPositionLemma ==
  ASSUME TypeOK, NEW n \in Nat
  PROVE  /\ InsertPosition(n) \in 1 .. Len(freeBlocks) + 1
         /\ \A i \in 1 .. Len(freeBlocks) :
              i >= InsertPosition(n) => eraseCount[freeBlocks[i]] > n
         /\ InsertPosition(n) > 1 =>
              eraseCount[freeBlocks[InsertPosition(n) - 1]] <= n
<1> DEFINE before == {i \in 1 .. Len(freeBlocks) :
                        eraseCount[freeBlocks[i]] <= n}
<1>1. Len(freeBlocks) \in Nat /\ before \subseteq 1 .. Len(freeBlocks)
  BY DEF TypeOK
<1>2. \A i \in 1 .. Len(freeBlocks) : eraseCount[freeBlocks[i]] \in Nat
  <2>1. freeBlocks \in Seq(Block) /\ eraseCount \in [Block -> Nat]
    BY DEF TypeOK
  <2> QED BY <2>1
<1>3. CASE before = {}
  BY <1>1, <1>2, <1>3 DEF InsertPosition
<1>4. CASE before # {}
  <2>1. Max(before) \in before /\ \A i \in before : i <= Max(before)
    <3> HIDE DEF before
    <3> QED BY <1>1, <1>4, MaxLemma
  <2>2. InsertPosition(n) = 1 + Max(before)
    BY <1>4 DEF InsertPosition
  <2>3. Max(before) \in 1 .. Len(freeBlocks)
        /\ eraseCount[freeBlocks[Max(before)]] <= n
    BY <2>1
  <2>4. ASSUME NEW i \in 1 .. Len(freeBlocks), i >= 1 + Max(before)
        PROVE  eraseCount[freeBlocks[i]] > n
    <3>1. i \notin before
      BY <2>1, <2>3, <2>4, <1>1
    <3> QED BY <3>1, <1>2
  <2> HIDE DEF before
  <2> QED BY <1>1, <2>2, <2>3, <2>4
<1> QED BY <1>3, <1>4

LEMMA VictimType ==
  ASSUME TypeInv, Collecting
  PROVE  Victim \in Block
BY DEF TypeInv, TypeOK, ControlOK, Victim

(***************************************************************************)
(* Every step keeps the types, with one step of the proof per action.      *)
(***************************************************************************)
LEMMA NextTypeInv == TypeInv /\ [Next]_vars => TypeInv'
<1> SUFFICES ASSUME TypeInv, [Next]_vars PROVE TypeInv'
  OBVIOUS
<1> USE DEF TypeInv, blockVars, poolVars, openVars, cmtVars
<1>1. ASSUME NEW l \in LPN, NEW toPAL \in BOOLEAN, WriteLookup(l, toPAL),
             filled' \in Nat
      PROVE  TypeInv'
  <2>1. table[l] \in Mapping
    BY DEF TypeOK
  <2>2. content' \in [Block -> [Page -> Content]]
    BY <1>1, <2>1, InvalidateOldType DEF WriteLookup
  <2>3. table' \in [LPN -> Mapping]
    BY <1>1 DEF WriteLookup, TypeOK, Mapping
  <2>4. /\ req' \in [lpn : LPN, entry : LPN, toPAL : BOOLEAN] /\ req' # NoReq
        /\ pc' = "alloc"
    BY <1>1, Constants DEF WriteLookup, NoReq
  <2>5. TypeOK'
    BY <1>1, <2>2, <2>3, <2>4 DEF WriteLookup, TypeOK, Steps
  <2>6. ControlOK'
    BY <1>1, <2>4 DEF WriteLookup, ControlOK, Collecting
  <2> QED BY <2>5, <2>6
<1>2. ASSUME NEW l \in LPN, FillWrite(l) PROVE TypeInv'
  <2>1. WriteLookup(l, FALSE) /\ filled' = filled + 1
    BY <1>2 DEF FillWrite
  <2>2. filled' \in Nat
    BY <2>1 DEF TypeOK
  <2> QED BY <2>1, <2>2, <1>1
<1>3. ASSUME NEW l \in LPN, Write(l) PROVE TypeInv'
  BY <1>1, <1>3 DEF Write, TypeOK
<1>4. CASE FillDone
  BY <1>4 DEF FillDone, TypeOK, ControlOK, Collecting, Steps
<1>5. CASE UseOpenBlock
  <2>1. NextChannel \in Chan /\ lastFreeBlock[NextChannel] \in Block
    BY NextChannelType DEF TypeOK
  <2>2. /\ lastFreeBlockIndex' \in Chan /\ ioMapSet' \in BOOLEAN
        /\ dest' \in Block /\ pc' \in {"program", "panic"} /\ panic' \in Panics
    BY <1>5, <2>1 DEF UseOpenBlock, TurnChannel, Fail, TypeOK, Panics
  <2>3. TypeOK'
    BY <1>5, <2>2 DEF UseOpenBlock, TurnChannel, TypeOK, Steps
  <2>4. ControlOK'
    BY <1>5, <2>2 DEF UseOpenBlock, TurnChannel, ControlOK, Collecting
  <2> QED BY <2>3, <2>4
<1>6. ASSUME pc = "alloc", TurnChannel, GetFreeBlock(NextChannel),
             erasedIds' \in SUBSET Block
      PROVE  TypeInv'
  <2>1. NextChannel \in Chan
    BY NextChannelType
  <2>2. /\ freeBlocks' \in Seq(Block) /\ nFreeBlocks' = Len(freeBlocks')
        /\ nFreeBlocks' \in Nat
        /\ blocks' \in SUBSET Block
        /\ lastFreeBlock' \in [Chan -> Block] /\ dest' \in Block
        /\ pc' \in {"program", "panic"} /\ panic' \in Panics
    BY <1>6, <2>1, GetFreeBlockType
  <2>3. TypeOK'
    BY <1>6, <2>1, <2>2 DEF TurnChannel, TypeOK, Steps
  <2>4. ControlOK'
    BY <1>6, <2>2 DEF TurnChannel, ControlOK, Collecting
  <2> QED BY <2>3, <2>4
<1>7. CASE ReplaceErasedBlock
  BY <1>6, <1>7 DEF ReplaceErasedBlock, TypeOK
<1>8. CASE ReplaceFullBlock
  BY <1>6, <1>8 DEF ReplaceFullBlock, TypeOK
<1>9. CASE WritePage
  <2> DEFINE m == Loc(dest, NextPage)
  <2>1. pc = "program" /\ req # NoReq /\ req' = NoReq /\ dest' = 0
        /\ UNCHANGED <<poolVars, openVars, eraseCount, cached, filled,
                       gcStopped, gc>>
    BY <1>9 DEF WritePage
  <2>2. req.lpn \in LPN /\ req.entry \in LPN
    BY <2>1 DEF TypeOK
  <2>3. CASE ~Writable
    <3>1. /\ pc' = "panic" /\ panic' = "Write to non erased page"
          /\ UNCHANGED <<content, nextWrite, table, cmtVars>>
      BY <1>9, <2>3 DEF WritePage, Fail
    <3>2. TypeOK'
      BY <2>1, <3>1, Constants DEF TypeOK, Steps, Panics
    <3>3. ControlOK'
      BY <2>1, <3>1 DEF ControlOK, Collecting
    <3> QED BY <3>2, <3>3
  <2>4. CASE Writable
    <3>1. /\ content' = Programmed(content, req.lpn)
          /\ nextWrite' = [nextWrite EXCEPT ![dest] = @ + 1]
          /\ table' = [table EXCEPT ![req.entry] = m]
          /\ IF EnableCMT /\ req.toPAL
             THEN \E out \in Evicted : CmtLoad(req.lpn, m, out, FALSE)
             ELSE UNCHANGED cmtVars
          /\ AfterWrite
      BY <1>9, <2>4 DEF WritePage
    <3>2. dest \in Block /\ NextPage \in Page /\ m \in Mapping
      BY <2>4 DEF Writable, TypeOK, Mapping, Loc
    <3>3. content' \in [Block -> [Page -> Content]]
      BY <3>1, <3>2, <2>2 DEF Programmed, TypeOK, Content
    <3>4. nextWrite' \in [Block -> 0 .. PagesInBlock]
      <4>1. nextWrite[dest] + 1 \in 0 .. PagesInBlock
        BY <3>2, Constants DEF NextPage, Page
      <4> QED BY <4>1, <3>1, <3>2 DEF TypeOK
    <3>5. table' \in [LPN -> Mapping]
      BY <3>1, <3>2, <2>2 DEF TypeOK
    <3>6. /\ cmt' \in [LPN -> Mapping] /\ cmtOrder' \in Seq(LPN)
          /\ cmtWild' \in SUBSET LPN
      <4>1. CASE EnableCMT /\ req.toPAL
        <5>1. PICK out \in Evicted : CmtLoad(req.lpn, m, out, FALSE)
          BY <3>1, <4>1
        <5> HIDE DEF m
        <5> QED BY <5>1, <3>2, <2>2, CmtLoadType
      <4>2. CASE ~(EnableCMT /\ req.toPAL)
        BY <3>1, <4>2 DEF TypeOK
      <4> QED BY <4>1, <4>2
    <3>7. pc' \in {"panic", "select", "idle", "fill"} /\ panic' \in Panics
      BY <3>1 DEF AfterWrite, Fail, TypeOK, Panics
    <3>8. TypeOK'
      BY <2>1, <3>3, <3>4, <3>5, <3>6, <3>7, Constants DEF TypeOK, Steps
    <3>9. ControlOK'
      BY <2>1, <3>7 DEF ControlOK, Collecting
    <3> QED BY <3>8, <3>9
  <2> QED BY <2>3, <2>4
<1>10. CASE SelectVictimBlock
  <2>1. PICK list \in VictimLists : StartGC(list)
    BY <1>10 DEF SelectVictimBlock
  <2>2. list \in Seq(Block) /\ (list # <<>> => 1 \in 1 .. Len(list))
    <3>1. Candidates \subseteq Block
      BY DEF Candidates, TypeOK
    <3> QED BY <3>1, VictimListsType
  <2>3. /\ gc' \in [victims : Seq(Block), at : Nat, page : 0 .. PagesInBlock]
        /\ pc' \in {"idle", "scan"}
        /\ pc' = "scan" => gc'.at \in 1 .. Len(gc'.victims)
    BY <2>1, <2>2, StartGCType
  <2>4. TypeOK'
    BY <1>10, <2>3 DEF SelectVictimBlock, TypeOK, Steps
  <2>5. ControlOK'
    BY <1>10, <2>3 DEF SelectVictimBlock, ControlOK, Collecting
  <2> QED BY <2>4, <2>5
<1>11. CASE ScanVictim
  <2>1. pc = "scan" /\ req = NoReq /\ Collecting
    BY <1>11 DEF ScanVictim, ControlOK, Collecting
  <2>2. /\ gc.at \in 1 .. Len(gc.victims) /\ gc.victims \in Seq(Block)
        /\ Len(gc.victims) \in Nat
        /\ gc = [victims |-> gc.victims, at |-> gc.at, page |-> gc.page]
    BY <2>1 DEF ControlOK, TypeOK
  <2>3. UNCHANGED <<blockVars, poolVars, openVars, cmtVars, table, filled,
                    gcStopped, req, dest>>
    BY <1>11 DEF ScanVictim
  <2>4. PagesLeft # {} => Min(PagesLeft) \in Page
    <3>1. PagesLeft \subseteq Page /\ PagesLeft \subseteq Nat
      BY Constants DEF PagesLeft, ValidPages, Page
    <3> QED BY <3>1, MinLemma
  <2>5. /\ gc' \in [victims : Seq(Block), at : Nat, page : 0 .. PagesInBlock]
        /\ pc' \in {"panic", "alloc", "scan", "erase"} /\ panic' \in Panics
        /\ pc' # "panic" => gc'.at \in 1 .. Len(gc'.victims)
        /\ pc' = "alloc" => gc'.page \in Page
    <3>1. CASE Victim \notin blocks
      BY <1>11, <3>1 DEF ScanVictim, Fail, TypeOK, Panics
    <3>2. CASE Victim \in blocks /\ PagesLeft # {}
      <4>1. gc' = [gc EXCEPT !.page = Min(PagesLeft)] /\ pc' = "alloc"
            /\ panic' = panic
        BY <1>11, <3>2 DEF ScanVictim
      <4>2. gc' = [victims |-> gc.victims, at |-> gc.at, page |-> Min(PagesLeft)]
        BY <4>1, <2>2
      <4>3. Min(PagesLeft) \in 0 .. PagesInBlock
        BY <2>4, <3>2, Constants DEF Page
      <4> QED BY <4>1, <4>2, <4>3, <2>2, <2>4, <3>2 DEF TypeOK
    <3>3. CASE Victim \in blocks /\ PagesLeft = {} /\ gc.at < Len(gc.victims)
      <4>1. gc' = NextVictim /\ pc' = "scan" /\ panic' = panic
        BY <1>11, <3>3 DEF ScanVictim
      <4>2. gc' = [victims |-> gc.victims, at |-> gc.at + 1, page |-> 0]
        BY <4>1, <2>2 DEF NextVictim
      <4>3. gc.at + 1 \in 1 .. Len(gc.victims) /\ 0 \in 0 .. PagesInBlock
        BY <2>2, <3>3, Constants
      <4> QED BY <4>1, <4>2, <4>3, <2>2 DEF TypeOK
    <3>4. CASE Victim \in blocks /\ PagesLeft = {}
               /\ ~(gc.at < Len(gc.victims))
      <4>1. gc' = [gc EXCEPT !.at = 1, !.page = 0] /\ pc' = "erase"
            /\ panic' = panic
        BY <1>11, <3>4 DEF ScanVictim
      <4>2. gc' = [victims |-> gc.victims, at |-> 1, page |-> 0]
        BY <4>1, <2>2
      <4>3. 1 \in 1 .. Len(gc.victims) /\ 0 \in 0 .. PagesInBlock
        BY <2>2, Constants
      <4> QED BY <4>1, <4>2, <4>3, <2>2 DEF TypeOK
    <3> QED BY <3>1, <3>2, <3>3, <3>4
  <2>6. TypeOK'
    BY <2>3, <2>5 DEF TypeOK, Steps
  <2>7. ControlOK'
    BY <2>1, <2>3, <2>5 DEF ControlOK, Collecting
  <2> QED BY <2>6, <2>7
<1>12. CASE CopyPage
  <2> DEFINE l == content[Victim][gc.page]
             m == Loc(dest, NextPage)
             invalidated == Invalidated(content, Loc(Victim, gc.page))
  <2>1. /\ pc = "program" /\ req = NoReq /\ dest' = 0 /\ Collecting
        /\ UNCHANGED <<poolVars, openVars, cmtOrder, cmtWild, eraseCount,
                       cached, filled, gcStopped, req>>
    BY <1>12 DEF CopyPage, Collecting
  <2>2. Victim \in Block /\ gc.page \in Page /\ l \in Content
    BY <2>1, VictimType DEF ControlOK, TypeOK
  <2>3. invalidated \in [Block -> [Page -> Content]]
    <3>1. Loc(Victim, gc.page) \in Mapping /\ Loc(Victim, gc.page).block \in Block
      BY <2>2 DEF Loc, Mapping
    <3> QED BY <3>1, InvalidatedType
  <2>4. CASE table[l] = NoEntry \/ ~Writable
    <3>1. /\ pc' = "panic" /\ panic' \in Panics /\ content' = invalidated
          /\ UNCHANGED <<nextWrite, table, cmt, gc>>
      BY <1>12, <2>4 DEF CopyPage, Fail, Panics
    <3>2. TypeOK'
      BY <2>1, <2>3, <3>1, Constants DEF TypeOK, Steps
    <3>3. ControlOK'
      BY <2>1, <3>1 DEF ControlOK, Collecting
    <3> QED BY <3>2, <3>3
  <2>5. CASE table[l] # NoEntry /\ Writable
    <3>1. /\ content' = Programmed(invalidated, l)
          /\ nextWrite' = [nextWrite EXCEPT ![dest] = @ + 1]
          /\ table' = [table EXCEPT ![l] = m]
          /\ cmt' = [cmt EXCEPT ![l] = IF @ = NoEntry THEN @ ELSE m]
          /\ gc' = [gc EXCEPT !.page = @ + 1]
          /\ pc' = "scan" /\ panic' = panic
      BY <1>12, <2>5 DEF CopyPage
    <3>2. dest \in Block /\ NextPage \in Page /\ m \in Mapping
      BY <2>5 DEF Writable, TypeOK, Mapping, Loc
    <3> HIDE DEF l, m, invalidated
    <3>3. content' \in [Block -> [Page -> Content]]
      BY <3>1, <3>2, <2>2, <2>3 DEF Programmed
    <3>4. nextWrite' \in [Block -> 0 .. PagesInBlock]
      <4>1. nextWrite[dest] + 1 \in 0 .. PagesInBlock
        BY <3>2, Constants DEF NextPage, Page
      <4> QED BY <4>1, <3>1, <3>2 DEF TypeOK
    <3>5. table' \in [LPN -> Mapping]
      BY <3>1, <3>2 DEF TypeOK
    <3>6. cmt' \in [LPN -> Mapping]
      BY <3>1, <3>2 DEF TypeOK
    <3>7. /\ gc' \in [victims : Seq(Block), at : Nat, page : 0 .. PagesInBlock]
          /\ gc'.at \in 1 .. Len(gc'.victims)
      <4>1. /\ gc.at \in 1 .. Len(gc.victims) /\ gc.victims \in Seq(Block)
            /\ gc = [victims |-> gc.victims, at |-> gc.at, page |-> gc.page]
        BY <2>1 DEF ControlOK, TypeOK
      <4>2. gc' = [victims |-> gc.victims, at |-> gc.at, page |-> gc.page + 1]
        BY <3>1, <4>1
      <4>3. gc.page + 1 \in 0 .. PagesInBlock /\ gc.at \in Nat
        BY <2>2, <4>1, Constants DEF Page
      <4> QED BY <4>1, <4>2, <4>3
    <3>8. TypeOK'
      BY <2>1, <3>1, <3>3, <3>4, <3>5, <3>6, <3>7, Constants DEF TypeOK, Steps
    <3>9. ControlOK'
      BY <2>1, <3>1, <3>7 DEF ControlOK, Collecting
    <3> QED BY <3>8, <3>9
  <2> QED BY <2>4, <2>5
<1>13. CASE EraseVictim
  <2> DEFINE n == eraseCount[Victim] + 1
  <2>1. /\ pc = "erase" /\ Collecting /\ req = NoReq
        /\ erasedIds' = erasedIds \cup {Victim}
        /\ UNCHANGED <<lastFreeBlock, lastFreeBlockIndex, ioMapSet, cmtVars,
                       table, filled, gcStopped, req, dest>>
    BY <1>13 DEF EraseVictim, MarkErased, Collecting, ControlOK
  <2>2. Victim \in Block /\ n \in Nat /\ erasedIds' \in SUBSET Block
    BY <2>1, VictimType DEF TypeOK
  <2>3. CASE Victim \notin blocks
    <3>1. /\ pc' = "panic" /\ panic' = "No such block"
          /\ UNCHANGED <<blockVars, poolVars, gc>>
      BY <1>13, <2>3 DEF EraseVictim, Fail
    <3>2. TypeOK'
      BY <2>1, <2>2, <3>1 DEF TypeOK, Steps, Panics
    <3>3. ControlOK'
      BY <2>1, <3>1 DEF ControlOK, Collecting
    <3> QED BY <3>2, <3>3
  <2>4. CASE Victim \in blocks
    <3>1. /\ content' = [content EXCEPT ![Victim] = [p \in Page |-> ErasedPage]]
          /\ nextWrite' = [nextWrite EXCEPT ![Victim] = 0]
          /\ eraseCount' = [eraseCount EXCEPT ![Victim] = n]
          /\ IF LifeLeft(n)
             THEN /\ freeBlocks' = InsertAt(freeBlocks, InsertPosition(n), Victim)
                  /\ nFreeBlocks' = nFreeBlocks + 1
             ELSE UNCHANGED <<freeBlocks, nFreeBlocks>>
          /\ blocks' = blocks \ {Victim}
          /\ IF gc.at < Len(gc.victims)
             THEN gc' = [gc EXCEPT !.at = @ + 1] /\ pc' = "erase"
             ELSE gc' = NoGC /\ pc' = "idle"
          /\ cached' = cached /\ panic' = panic
      BY <1>13, <2>4 DEF EraseVictim
    <3>2. InsertPosition(n) \in 1 .. Len(freeBlocks) + 1
      BY <2>2, InsertPositionLemma
    <3> HIDE DEF n
    <3>3. content' \in [Block -> [Page -> Content]]
      BY <3>1, <2>2 DEF TypeOK, Content
    <3>4. /\ nextWrite' \in [Block -> 0 .. PagesInBlock]
          /\ eraseCount' \in [Block -> Nat]
      BY <3>1, <2>2, Constants DEF TypeOK
    <3>5. /\ freeBlocks' \in Seq(Block) /\ nFreeBlocks' = Len(freeBlocks')
          /\ nFreeBlocks' \in Nat
      <4>1. /\ InsertAt(freeBlocks, InsertPosition(n), Victim) \in Seq(Block)
            /\ Len(InsertAt(freeBlocks, InsertPosition(n), Victim))
                 = Len(freeBlocks) + 1
        BY <3>2, <2>2, InsertAtLemma DEF TypeOK
      <4>2. CASE LifeLeft(n)
        <5>1. /\ freeBlocks' = InsertAt(freeBlocks, InsertPosition(n), Victim)
              /\ nFreeBlocks' = nFreeBlocks + 1
          BY <4>2, <3>1
        <5> QED BY <5>1, <4>1 DEF TypeOK, ControlOK
      <4>3. CASE ~LifeLeft(n)
        BY <4>3, <3>1 DEF TypeOK, ControlOK
      <4> QED BY <4>2, <4>3
    <3>6. /\ gc' \in [victims : Seq(Block), at : Nat, page : 0 .. PagesInBlock]
          /\ pc' \in {"erase", "idle"}
          /\ pc' = "erase" => gc'.at \in 1 .. Len(gc'.victims)
      <4>1. CASE gc.at < Len(gc.victims)
        <5>1. /\ gc.at \in 1 .. Len(gc.victims) /\ gc.victims \in Seq(Block)
              /\ Len(gc.victims) \in Nat /\ gc.page \in 0 .. PagesInBlock
              /\ gc = [victims |-> gc.victims, at |-> gc.at, page |-> gc.page]
          BY <2>1 DEF ControlOK, TypeOK
        <5>2. gc' = [victims |-> gc.victims, at |-> gc.at + 1, page |-> gc.page]
              /\ pc' = "erase"
          BY <4>1, <3>1, <5>1
        <5>3. gc.at + 1 \in 1 .. Len(gc.victims)
          BY <4>1, <5>1
        <5> QED BY <5>1, <5>2, <5>3
      <4>2. CASE ~(gc.at < Len(gc.victims))
        <5>1. gc' = NoGC /\ pc' = "idle"
          BY <4>2, <3>1
        <5> QED BY <5>1, Constants DEF NoGC
      <4> QED BY <4>1, <4>2
    <3>7. TypeOK'
      BY <2>1, <2>2, <3>1, <3>3, <3>4, <3>5, <3>6 DEF TypeOK, Steps
    <3>8. ControlOK'
      BY <2>1, <3>5, <3>6 DEF ControlOK, Collecting
    <3> QED BY <3>7, <3>8
  <2> QED BY <2>3, <2>4
<1>14. ASSUME NEW l \in LPN, WriteCmtHit(l) PROVE TypeInv'
  <2>1. content' \in [Block -> [Page -> Content]]
    BY <1>14, InvalidateOldType DEF WriteCmtHit, TypeOK
  <2>2. /\ cmt' \in [LPN -> Mapping] /\ cmtOrder' \in Seq(LPN)
        /\ cmtWild' \in SUBSET LPN
    BY <1>14, CmtTouchType DEF WriteCmtHit
  <2>3. /\ req' \in [lpn : LPN, entry : LPN, toPAL : BOOLEAN] \cup {NoReq}
        /\ pc' \in {"alloc", "panic"} /\ panic' \in Panics
        /\ pc' = "alloc" => req' # NoReq
    <3>1. CASE \A k \in LPN : table[k] = NoEntry
      BY <1>14, <3>1 DEF WriteCmtHit, Fail, TypeOK, Panics
    <3>2. CASE ~\A k \in LPN : table[k] = NoEntry
      <4>1. PICK k \in LPN : req' = [lpn |-> l, entry |-> k, toPAL |-> TRUE]
        BY <1>14, <3>2 DEF WriteCmtHit
      <4>2. pc' = "alloc" /\ panic' = panic
        BY <1>14, <3>2 DEF WriteCmtHit
      <4> QED BY <4>1, <4>2, Constants DEF TypeOK, NoReq
    <3> QED BY <3>1, <3>2
  <2>4. TypeOK'
    BY <1>14, <2>1, <2>2, <2>3 DEF WriteCmtHit, TypeOK, Steps
  <2>5. ControlOK'
    BY <1>14, <2>3 DEF WriteCmtHit, ControlOK, Collecting
  <2> QED BY <2>4, <2>5
<1>15. ASSUME NEW l \in LPN, ReadCmtHit(l) PROVE TypeInv'
  <2>1. /\ cmt' \in [LPN -> Mapping] /\ cmtOrder' \in Seq(LPN)
        /\ cmtWild' \in SUBSET LPN
    BY <1>15, CmtTouchType DEF ReadCmtHit
  <2>2. /\ cached' \in [Block -> SUBSET Page]
        /\ pc' \in {pc, "panic"} /\ panic' \in Panics
    BY <1>15, ReadPageType DEF ReadCmtHit, TypeOK
  <2>3. TypeOK'
    BY <1>15, <2>1, <2>2 DEF ReadCmtHit, TypeOK, Steps
  <2>4. ControlOK'
    BY <1>15, <2>2 DEF ReadCmtHit, ControlOK, Collecting
  <2> QED BY <2>3, <2>4
<1>16. ASSUME NEW l \in LPN, ReadTable(l) PROVE TypeInv'
  <2>1. /\ cmt' \in [LPN -> Mapping] /\ cmtOrder' \in Seq(LPN)
        /\ cmtWild' \in SUBSET LPN
    <3>1. CASE EnableCMT /\ InRange(table[l])
      <4>1. PICK out \in Evicted : CmtLoad(l, table[l], out, TRUE)
        BY <1>16, <3>1 DEF ReadTable
      <4> QED BY <4>1, CmtLoadType DEF TypeOK
    <3>2. CASE ~(EnableCMT /\ InRange(table[l]))
      BY <1>16, <3>2 DEF ReadTable, TypeOK
    <3> QED BY <3>1, <3>2
  <2>2. /\ cached' \in [Block -> SUBSET Page]
        /\ pc' \in {pc, "panic"} /\ panic' \in Panics
    BY <1>16, ReadPageType DEF ReadTable, TypeOK
  <2>3. TypeOK'
    BY <1>16, <2>1, <2>2 DEF ReadTable, TypeOK, Steps
  <2>4. ControlOK'
    BY <1>16, <2>2 DEF ReadTable, ControlOK, Collecting
  <2> QED BY <2>3, <2>4
<1>17. ASSUME NEW l \in LPN, UndoCached(l) PROVE TypeInv'
  <2>1. cached' \in [Block -> SUBSET Page]
    BY <1>17 DEF UndoCached, TypeOK, InRange
  <2>2. TypeOK'
    BY <1>17, <2>1 DEF UndoCached, TypeOK
  <2>3. ControlOK'
    BY <1>17 DEF UndoCached, ControlOK, Collecting
  <2> QED BY <2>2, <2>3
<1>18. ASSUME NEW l \in LPN, Trim(l) PROVE TypeInv'
  <2>1. table[l].block \in blocks =>
          Invalidated(content, table[l]) \in [Block -> [Page -> Content]]
    BY InvalidatedType DEF TypeOK
  <2>2. /\ content' \in [Block -> [Page -> Content]]
        /\ table' \in [LPN -> Mapping]
        /\ pc' \in {pc, "panic"} /\ panic' \in Panics
    BY <1>18, <2>1 DEF Trim, Fail, TypeOK, Panics, Mapping
  <2>3. TypeOK'
    BY <1>18, <2>2 DEF Trim, TypeOK, Steps
  <2>4. ControlOK'
    BY <1>18, <2>2 DEF Trim, ControlOK, Collecting
  <2> QED BY <2>3, <2>4
<1>19. ASSUME NEW r \in FormatRanges, Format(r) PROVE TypeInv'
  <2> DEFINE keys == {l \in r : table[l] # NoEntry}
             hit  == {table[l].block : l \in keys}
  <2>1. CASE hit \subseteq blocks
    <3>1. content' \in [Block -> [Page -> Content]]
      <4>1. content' = [b \in Block |-> [p \in Page |->
                IF content[b][p] \in LPN /\ (\E l \in keys : table[l] = Loc(b, p))
                THEN DeadPage ELSE content[b][p]]]
        BY <1>19, <2>1 DEF Format
      <4>2. \A b \in Block, p \in Page : content[b][p] \in Content
        BY DEF TypeOK
      <4>3. DeadPage \in Content
        BY DEF Content
      <4> HIDE DEF keys
      <4> QED BY <4>1, <4>2, <4>3
    <3>2. table' \in [LPN -> Mapping]
      BY <1>19, <2>1 DEF Format, TypeOK, Mapping
    <3>3. PICK list \in SortedLists(hit) : StartGC(list)
      BY <1>19, <2>1 DEF Format
    <3>4. hit \subseteq Block
      BY <2>1 DEF TypeOK
    <3> HIDE DEF hit
    <3>5. list \in Seq(hit) /\ (list # <<>> => 1 \in 1 .. Len(list))
      BY <3>3, <3>4, SortedListsType
    <3>6. /\ gc' \in [victims : Seq(Block), at : Nat, page : 0 .. PagesInBlock]
          /\ pc' \in {"idle", "scan"}
          /\ pc' = "scan" => gc'.at \in 1 .. Len(gc'.victims)
      BY <3>3, <3>4, <3>5, StartGCType
    <3> USE DEF hit
    <3>7. TypeOK'
      BY <1>19, <2>1, <3>1, <3>2, <3>6 DEF Format, TypeOK, Steps
    <3>8. ControlOK'
      BY <1>19, <2>1, <3>6 DEF Format, ControlOK, Collecting
    <3> QED BY <3>7, <3>8
  <2>2. CASE ~(hit \subseteq blocks)
    <3>1. /\ pc' = "panic" /\ panic' = "Block is not in use"
          /\ UNCHANGED <<content, table, gc>>
      BY <1>19, <2>2 DEF Format, Fail
    <3>2. TypeOK'
      BY <1>19, <3>1 DEF Format, TypeOK, Steps, Panics
    <3>3. ControlOK'
      BY <1>19, <3>1 DEF Format, ControlOK, Collecting
    <3> QED BY <3>2, <3>3
  <2> QED BY <2>1, <2>2
<1>20. CASE PassRequestLimit
  BY <1>20 DEF PassRequestLimit, TypeOK, ControlOK, Collecting
<1>21. CASE UNCHANGED vars
  BY <1>21 DEF vars, TypeOK, ControlOK, Collecting
<1>22. CASE Internal
  BY <1>22, <1>2, <1>4, <1>5, <1>7, <1>8, <1>9, <1>10, <1>11, <1>12, <1>13
     DEF Internal
<1>23. CASE Call
  BY <1>23, <1>3, <1>14, <1>15, <1>16, <1>17, <1>18, <1>19, <1>20, Constants
     DEF Call
<1> QED BY <1>21, <1>22, <1>23 DEF Next

(***************************************************************************)
(* Type correctness of the FTL: whatever the geometry, the options and the *)
(* calls of the cache layer, page indices stay within a block, the cursor  *)
(* of a collection within its victims, and nFreeBlocks never underflows.   *)
(***************************************************************************)
THEOREM TypeCorrect == Spec => []TypeOK
<1>1. TypeInv => TypeOK
  BY DEF TypeInv
<1> QED BY <1>1, InitTypeInv, NextTypeInv, PTL DEF Spec

-----------------------------------------------------------------------------
(***************************************************************************)
(* The pool of blocks is sound whatever the geometry and the options: with *)
(* or without the cached mapping table, formats, cache-aware victims or    *)
(* multi-block collections.                                                *)
(***************************************************************************)

(***************************************************************************)
(* What is known between the steps of a write and of a page copy: the      *)
(* block getLastFreeBlock() returned is in use and has an erased page, and *)
(* the page to be copied is valid.                                         *)
(***************************************************************************)
StepOK ==
  /\ pc = "program" => dest \in blocks /\ nextWrite[dest] < PagesInBlock
  /\ pc \in {"alloc", "program"} /\ req = NoReq
       => content[Victim][gc.page] \in LPN
  /\ panic # "Write to non erased page"

PoolInv ==
  /\ TypeInv
  /\ PoolPartition
  /\ FreeListSorted
  /\ SequentialWrites
  /\ StepOK

(***************************************************************************)
(* All blocks are free and sorted at the start.                            *)
(***************************************************************************)
LEMMA InitPoolInv == Init => PoolInv
<1> SUFFICES ASSUME Init PROVE PoolInv
  OBVIOUS
<1>1. TypeInv
  BY InitTypeInv
<1> DEFINE n == TotalPhysicalBlocks - PageCountToMaxPerf
<1>2. /\ freeBlocks = [i \in 1 .. n |-> PageCountToMaxPerf + i - 1]
      /\ n \in Nat /\ Len(freeBlocks) = n /\ nFreeBlocks = n
      /\ blocks = Chan
  BY Constants DEF Init
<1>3. \A i \in 1 .. n : freeBlocks[i] = PageCountToMaxPerf + i - 1
  BY <1>2
<1>4. PoolPartition
  <2>1. \A i, j \in 1 .. n : freeBlocks[i] = freeBlocks[j] => i = j
    BY <1>3, Constants
  <2>2. \A i \in 1 .. n : freeBlocks[i] \notin Chan
    BY <1>3, Constants DEF Chan
  <2>3. ASSUME NEW b \in Block
        PROVE  b \in Chan \/ \E i \in 1 .. n : freeBlocks[i] = b
    <3>1. b \notin Chan => b - PageCountToMaxPerf + 1 \in 1 .. n
      BY Constants DEF Block, Chan
    <3>2. b \notin Chan => freeBlocks[b - PageCountToMaxPerf + 1] = b
      BY <3>1, <1>3, Constants DEF Block
    <3> QED BY <3>1, <3>2
  <2> QED BY <1>2, <2>1, <2>2, <2>3 DEF PoolPartition
<1>5. FreeListSorted
  <2>1. \A i \in 1 .. n : freeBlocks[i] \in Block
    BY <1>3, Constants DEF Block
  <2>2. \A b \in Block : eraseCount[b] = 0 /\ nextWrite[b] = 0
    BY DEF Init
  <2>3. EraseThreshold > 0
    BY OptionAssumption
  <2> QED BY <1>2, <2>1, <2>2, <2>3 DEF FreeListSorted
<1>6. SequentialWrites
  BY Constants DEF Init, SequentialWrites, Page
<1>7. StepOK
  BY DEF Init, StepOK
<1> QED BY <1>1, <1>4, <1>5, <1>6, <1>7 DEF PoolInv

(***************************************************************************)
(* Steps that leave the pool and the bits of the blocks alone.             *)
(***************************************************************************)
LEMMA PoolUnchanged ==
  ASSUME PoolPartition, FreeListSorted, SequentialWrites,
         UNCHANGED <<freeBlocks, nFreeBlocks, blocks, nextWrite, eraseCount,
                     content>>
  PROVE  PoolPartition' /\ FreeListSorted' /\ SequentialWrites'
BY DEF PoolPartition, FreeListSorted, SequentialWrites

(***************************************************************************)
(* Block::invalidate neither erases a page nor writes one.                 *)
(***************************************************************************)
LEMMA InvalidatedKeepsErased ==
  ASSUME TypeOK, NEW m \in Mapping, m.block \in Block
  PROVE  \A b \in Block, p \in Page :
           (Invalidated(content, m)[b][p] = ErasedPage)
             <=> (content[b][p] = ErasedPage)
<1>1. m.page \in Page
  BY Constants DEF Mapping, NoEntry, FreshEntry, Loc
<1>2. CASE content[m.block][m.page] \in LPN
  <2>1. Invalidated(content, m) = [content EXCEPT ![m.block][m.page] = DeadPage]
    BY <1>2 DEF Invalidated
  <2>2. ErasedPage \notin LPN /\ DeadPage # ErasedPage
    BY Constants DEF ErasedPage, DeadPage
  <2> QED BY <1>1, <1>2, <2>1, <2>2 DEF TypeOK
<1>3. CASE content[m.block][m.page] \notin LPN
  BY <1>3 DEF Invalidated
<1> QED BY <1>2, <1>3

(***************************************************************************)
(* Invalidation neither programs nor erases a page, and so leaves the pool *)
(* alone.                                                                  *)
(***************************************************************************)
LEMMA InvalidateOldKeepsErased ==
  ASSUME TypeOK, NEW m \in Mapping, InvalidateOld(m)
  PROVE  \A b \in Block, p \in Page :
           content'[b][p] = ErasedPage <=> content[b][p] = ErasedPage
<1>1. CASE InRange(m) /\ m.block \in blocks
  <2>1. content' = Invalidated(content, m) /\ m.block \in Block
    BY <1>1 DEF InvalidateOld, InRange
  <2> QED BY <2>1, InvalidatedKeepsErased
<1>2. CASE ~(InRange(m) /\ m.block \in blocks)
  BY <1>2 DEF InvalidateOld
<1> QED BY <1>1, <1>2

LEMMA InvalidateKeepsPool ==
  ASSUME TypeOK, PoolPartition, FreeListSorted, SequentialWrites,
         UNCHANGED <<freeBlocks, nFreeBlocks, blocks, nextWrite, eraseCount>>,
         \A b \in Block, p \in Page :
           content'[b][p] = ErasedPage <=> content[b][p] = ErasedPage
  PROVE  PoolPartition' /\ FreeListSorted' /\ SequentialWrites'
BY DEF PoolPartition, FreeListSorted, SequentialWrites

(***************************************************************************)
(* Block::write uses up the first erased page of a block in use.           *)
(***************************************************************************)
LEMMA ProgramKeepsPool ==
  ASSUME TypeOK, PoolPartition, FreeListSorted, SequentialWrites,
         dest \in blocks, NextPage \in Page,
         NEW c \in [Block -> [Page -> Content]], NEW l \in LPN,
         \A b \in Block, p \in Page :
           c[b][p] = ErasedPage <=> content[b][p] = ErasedPage,
         UNCHANGED <<freeBlocks, nFreeBlocks, blocks, eraseCount>>,
         content' = Programmed(c, l),
         nextWrite' = [nextWrite EXCEPT ![dest] = @ + 1]
  PROVE  PoolPartition' /\ FreeListSorted' /\ SequentialWrites'
<1>1. dest \in Block /\ NextPage = nextWrite[dest] /\ nextWrite[dest] \in Nat
  BY DEF TypeOK, NextPage
<1>2. l # ErasedPage
  BY Constants DEF ErasedPage
<1>3. SequentialWrites'
  <2> SUFFICES ASSUME NEW b \in Block, NEW p \in Page
               PROVE  content'[b][p] = ErasedPage <=> p >= nextWrite'[b]
    BY DEF SequentialWrites
  <2>1. p \in Int /\ nextWrite[b] \in Int
    BY Constants DEF Page, TypeOK
  <2>2. content[b][p] = ErasedPage <=> p >= nextWrite[b]
    BY DEF SequentialWrites
  <2>3. CASE b = dest /\ p = NextPage
    <3>1. content'[b][p] = l
      BY <2>3, <1>1 DEF Programmed
    <3>2. nextWrite'[b] = nextWrite[b] + 1
      BY <2>3, <1>1 DEF TypeOK
    <3> QED BY <3>1, <3>2, <1>1, <1>2, <2>3
  <2>4. CASE b = dest /\ p # NextPage
    <3>1. content'[b][p] = c[b][p]
      BY <2>4, <1>1 DEF Programmed
    <3>2. nextWrite'[b] = nextWrite[b] + 1
      BY <2>4, <1>1 DEF TypeOK
    <3> QED BY <3>1, <3>2, <1>1, <2>1, <2>2, <2>4
  <2>5. CASE b # dest
    <3>1. content'[b][p] = c[b][p]
      BY <2>5, <1>1 DEF Programmed
    <3>2. nextWrite'[b] = nextWrite[b]
      BY <2>5, <1>1 DEF TypeOK
    <3> QED BY <3>1, <3>2, <2>2
  <2> QED BY <2>3, <2>4, <2>5
<1>4. PoolPartition'
  BY DEF PoolPartition
<1>5. FreeListSorted'
  <2>1. \A i \in 1 .. Len(freeBlocks) :
          freeBlocks[i] \in Block /\ freeBlocks[i] # dest
    BY DEF PoolPartition, TypeOK
  <2>2. \A i \in 1 .. Len(freeBlocks) :
          nextWrite'[freeBlocks[i]] = nextWrite[freeBlocks[i]]
    BY <2>1, <1>1 DEF TypeOK
  <2> QED BY <2>2 DEF FreeListSorted
<1> QED BY <1>3, <1>4, <1>5

(***************************************************************************)
(* getFreeBlock moves one block out of the free list.                      *)
(***************************************************************************)
LEMMA GetFreeBlockKeepsPool ==
  ASSUME PoolInv, NEW c \in Chan, GetFreeBlock(c),
         UNCHANGED <<content, nextWrite, eraseCount>>
  PROVE  /\ PoolPartition' /\ FreeListSorted' /\ SequentialWrites'
         /\ pc' = "program" => dest' \in blocks' /\ nextWrite[dest'] = 0
         /\ panic' \in {panic, "No free block left"}
<1> USE DEF PoolInv, TypeInv
<1> DEFINE i == FreePosition(c)
           b == freeBlocks[i]
<1>1. CASE nFreeBlocks = 0
  <2>1. /\ UNCHANGED <<freeBlocks, nFreeBlocks, blocks>>
        /\ pc' = "panic" /\ panic' = "No free block left"
    BY <1>1 DEF GetFreeBlock, Fail, poolVars
  <2> QED BY <2>1, PoolUnchanged
<1>2. CASE nFreeBlocks # 0
  <2>1. i \in 1 .. Len(freeBlocks) /\ Len(freeBlocks) \in Nat
    BY <1>2, FreePositionType DEF ControlOK, TypeOK
  <2>2. b \in Block /\ b \notin blocks /\ nextWrite[b] = 0
    BY <2>1 DEF TypeOK, PoolPartition, FreeListSorted
  <2>3. /\ blocks' = blocks \cup {b} /\ freeBlocks' = RemoveAt(freeBlocks, i)
        /\ nFreeBlocks' = nFreeBlocks - 1
        /\ dest' = b /\ pc' = "program" /\ panic' = panic
    BY <1>2, <2>2 DEF GetFreeBlock
  <2> HIDE DEF i
  <2>4. /\ Len(freeBlocks') = Len(freeBlocks) - 1
        /\ \A j \in 1 .. Len(freeBlocks') :
             freeBlocks'[j] = IF j < i THEN freeBlocks[j] ELSE freeBlocks[j + 1]
    BY <2>1, <2>3, RemoveAtLemma DEF TypeOK
  <2> DEFINE k(j) == IF j < i THEN j ELSE j + 1
  <2>5. \A j \in 1 .. Len(freeBlocks') :
          /\ k(j) \in 1 .. Len(freeBlocks) /\ k(j) # i
          /\ freeBlocks'[j] = freeBlocks[k(j)]
    BY <2>1, <2>4
  <2>6. \A j1, j2 \in 1 .. Len(freeBlocks') :
          (k(j1) = k(j2) => j1 = j2) /\ (j1 <= j2 => k(j1) <= k(j2))
    BY <2>1, <2>4
  <2>7. \A j \in 1 .. Len(freeBlocks) :
          j # i => \E j1 \in 1 .. Len(freeBlocks') : k(j1) = j
    <3> SUFFICES ASSUME NEW j \in 1 .. Len(freeBlocks), j # i
                 PROVE  \E j1 \in 1 .. Len(freeBlocks') : k(j1) = j
      OBVIOUS
    <3>1. CASE j < i
      <4>1. j \in 1 .. Len(freeBlocks') /\ k(j) = j
        BY <3>1, <2>1, <2>4
      <4> QED BY <4>1
    <3>2. CASE j > i
      <4>1. j - 1 \in 1 .. Len(freeBlocks') /\ k(j - 1) = j
        BY <3>2, <2>1, <2>4
      <4> QED BY <4>1
    <3> QED BY <3>1, <3>2, <2>1
  <2> HIDE DEF k, b
  <2>b. b = freeBlocks[i]
    BY DEF b
  <2>8. PoolPartition'
    <3>1. nFreeBlocks' = Len(freeBlocks')
      BY <2>3, <2>4 DEF ControlOK
    <3>2. \A j1, j2 \in 1 .. Len(freeBlocks') :
            freeBlocks'[j1] = freeBlocks'[j2] => j1 = j2
      BY <2>5, <2>6 DEF PoolPartition
    <3>3. \A j \in 1 .. Len(freeBlocks') : freeBlocks'[j] \notin blocks'
      BY <2>1, <2>b, <2>3, <2>5 DEF PoolPartition
    <3>4. ASSUME NEW d \in Block
          PROVE  \/ d \in blocks'
                 \/ \E j \in 1 .. Len(freeBlocks') : freeBlocks'[j] = d
                 \/ eraseCount[d] >= EraseThreshold
      <4>1. CASE \E j \in 1 .. Len(freeBlocks) : freeBlocks[j] = d
        <5>1. PICK j \in 1 .. Len(freeBlocks) : freeBlocks[j] = d
          BY <4>1
        <5>2. CASE j = i
          BY <5>1, <5>2, <2>b, <2>3
        <5>3. CASE j # i
          <6>1. PICK j1 \in 1 .. Len(freeBlocks') : k(j1) = j
            BY <5>3, <2>7
          <6> QED BY <5>1, <6>1, <2>5
        <5> QED BY <5>2, <5>3
      <4> QED BY <4>1, <2>3 DEF PoolPartition
    <3> QED BY <3>1, <3>2, <3>3, <3>4 DEF PoolPartition
  <2>9. FreeListSorted'
    BY <2>5, <2>6 DEF FreeListSorted
  <2>10. SequentialWrites'
    BY DEF SequentialWrites
  <2> QED BY <2>2, <2>3, <2>8, <2>9, <2>10
<1> QED BY <1>1, <1>2

(***************************************************************************)
(* eraseInternal takes a block out of use and, with life left, puts it     *)
(* back into the free list at the place its erase count asks for.          *)
(***************************************************************************)
LEMMA EraseKeepsPool ==
  ASSUME PoolInv, NEW v \in blocks, NEW n \in Nat, n = eraseCount[v] + 1,
         content' = [content EXCEPT ![v] = [p \in Page |-> ErasedPage]],
         nextWrite' = [nextWrite EXCEPT ![v] = 0],
         eraseCount' = [eraseCount EXCEPT ![v] = n],
         blocks' = blocks \ {v},
         IF n < EraseThreshold
         THEN /\ freeBlocks' = InsertAt(freeBlocks, InsertPosition(n), v)
              /\ nFreeBlocks' = nFreeBlocks + 1
         ELSE UNCHANGED <<freeBlocks, nFreeBlocks>>
  PROVE  PoolPartition' /\ FreeListSorted' /\ SequentialWrites'
<1> USE DEF PoolInv, TypeInv
<1>1. v \in Block
  BY DEF TypeOK
<1>2. SequentialWrites'
  <2> SUFFICES ASSUME NEW b \in Block, NEW p \in Page
               PROVE  content'[b][p] = ErasedPage <=> p >= nextWrite'[b]
    BY DEF SequentialWrites
  <2>1. CASE b = v
    BY <2>1, Constants DEF TypeOK, Page
  <2>2. CASE b # v
    BY <2>2 DEF TypeOK, SequentialWrites
  <2> QED BY <2>1, <2>2
<1>3. \A i \in 1 .. Len(freeBlocks) : freeBlocks[i] \in Block /\ freeBlocks[i] # v
  BY DEF TypeOK, PoolPartition
<1>4. \A b \in Block \ {v} : eraseCount'[b] = eraseCount[b] /\ nextWrite'[b] = nextWrite[b]
  BY DEF TypeOK
<1>5. eraseCount'[v] = n /\ nextWrite'[v] = 0
  BY <1>1 DEF TypeOK
<1>6. CASE ~(n < EraseThreshold)
  <2>1. UNCHANGED <<freeBlocks, nFreeBlocks>> /\ n >= EraseThreshold
    BY <1>6, OptionAssumption
  <2>2. PoolPartition'
    BY <2>1, <1>4, <1>5 DEF PoolPartition
  <2>3. FreeListSorted'
    BY <2>1, <1>3, <1>4 DEF FreeListSorted
  <2> QED BY <1>2, <2>2, <2>3
<1>7. CASE n < EraseThreshold
  <2> DEFINE k == InsertPosition(n)
             g(j) == IF j < k THEN j ELSE j - 1
  <2>0. freeBlocks \in Seq(Block) /\ Len(freeBlocks) \in Nat
    BY DEF TypeOK
  <2>1. /\ k \in 1 .. Len(freeBlocks) + 1 /\ Len(freeBlocks) \in Nat
        /\ \A i \in 1 .. Len(freeBlocks) :
             i >= k => eraseCount[freeBlocks[i]] > n
        /\ k > 1 => eraseCount[freeBlocks[k - 1]] <= n
    BY <2>0, InsertPositionLemma
  <2>2. freeBlocks' = InsertAt(freeBlocks, k, v) /\ nFreeBlocks' = nFreeBlocks + 1
    BY <1>7
  <2> HIDE DEF k
  <2>3. /\ Len(freeBlocks') = Len(freeBlocks) + 1
        /\ \A j \in 1 .. Len(freeBlocks') :
             freeBlocks'[j] = IF j < k THEN freeBlocks[j]
                              ELSE IF j = k THEN v ELSE freeBlocks[j - 1]
    <3>1. /\ Len(InsertAt(freeBlocks, k, v)) = Len(freeBlocks) + 1
          /\ \A j \in 1 .. Len(freeBlocks) + 1 :
               InsertAt(freeBlocks, k, v)[j] =
                 IF j < k THEN freeBlocks[j]
                 ELSE IF j = k THEN v ELSE freeBlocks[j - 1]
      <4>1. k \in 1 .. Len(freeBlocks) + 1
        BY <2>1
      <4> HIDE DEF PoolInv, TypeInv
      <4> QED BY <2>0, <4>1, <1>1, InsertAtLemma
    <3> HIDE DEF PoolInv, TypeInv
    <3> QED BY <3>1, <2>2
  <2>4. k \in 1 .. Len(freeBlocks') /\ freeBlocks'[k] = v
    BY <2>1, <2>3
  <2>5. \A j \in 1 .. Len(freeBlocks') : j # k =>
          g(j) \in 1 .. Len(freeBlocks) /\ freeBlocks'[j] = freeBlocks[g(j)]
    BY <2>1, <2>3
  <2>6. \A j1, j2 \in 1 .. Len(freeBlocks') :
          j1 # k /\ j2 # k =>
            (g(j1) = g(j2) => j1 = j2) /\ (j1 <= j2 => g(j1) <= g(j2))
    BY <2>1, <2>3
  <2>7. \A j \in 1 .. Len(freeBlocks) :
          \E j1 \in 1 .. Len(freeBlocks') : j1 # k /\ g(j1) = j
    <3> SUFFICES ASSUME NEW j \in 1 .. Len(freeBlocks)
                 PROVE  \E j1 \in 1 .. Len(freeBlocks') : j1 # k /\ g(j1) = j
      OBVIOUS
    <3>1. CASE j < k
      <4>1. j \in 1 .. Len(freeBlocks') /\ j # k /\ g(j) = j
        BY <3>1, <2>1, <2>3
      <4> QED BY <4>1
    <3>2. CASE j >= k
      <4>1. j + 1 \in 1 .. Len(freeBlocks') /\ j + 1 # k /\ g(j + 1) = j
        BY <3>2, <2>1, <2>3
      <4> QED BY <4>1
    <3> QED BY <3>1, <3>2, <2>1
  <2>8. \A j \in 1 .. Len(freeBlocks') :
          /\ j < k => j # k /\ g(j) <= k - 1 /\ k > 1
          /\ j > k => g(j) >= k
    BY <2>1, <2>3
  <2> HIDE DEF g
  <2>9. PoolPartition'
    <3>1. nFreeBlocks' = Len(freeBlocks')
      BY <2>2, <2>3 DEF ControlOK
    <3>2. \A j1, j2 \in 1 .. Len(freeBlocks') :
            freeBlocks'[j1] = freeBlocks'[j2] => j1 = j2
      BY <2>4, <2>5, <2>6, <1>3 DEF PoolPartition
    <3>3. \A j \in 1 .. Len(freeBlocks') : freeBlocks'[j] \notin blocks'
      BY <2>4, <2>5 DEF PoolPartition
    <3>4. ASSUME NEW d \in Block
          PROVE  \/ d \in blocks'
                 \/ \E j \in 1 .. Len(freeBlocks') : freeBlocks'[j] = d
                 \/ eraseCount'[d] >= EraseThreshold
      <4>1. CASE d = v
        BY <4>1, <2>4
      <4>2. CASE \E j \in 1 .. Len(freeBlocks) : freeBlocks[j] = d
        <5>1. PICK j \in 1 .. Len(freeBlocks) : freeBlocks[j] = d
          BY <4>2
        <5>2. PICK j1 \in 1 .. Len(freeBlocks') : j1 # k /\ g(j1) = j
          BY <2>7
        <5> QED BY <5>1, <5>2, <2>5
      <4> QED BY <4>1, <4>2, <1>4 DEF PoolPartition
    <3> QED BY <3>1, <3>2, <3>3, <3>4 DEF PoolPartition
  <2>10. FreeListSorted'
    <3>1. \A j \in 1 .. Len(freeBlocks') : j # k =>
            /\ eraseCount'[freeBlocks'[j]] = eraseCount[freeBlocks[g(j)]]
            /\ nextWrite'[freeBlocks'[j]] = nextWrite[freeBlocks[g(j)]]
      BY <2>5, <1>3, <1>4
    <3>2. \A i \in 1 .. Len(freeBlocks) : eraseCount[freeBlocks[i]] \in Nat
      BY <1>3 DEF TypeOK
    <3>3. \A j \in 1 .. Len(freeBlocks') :
            nextWrite'[freeBlocks'[j]] = 0
            /\ eraseCount'[freeBlocks'[j]] < EraseThreshold
      BY <3>1, <2>4, <2>5, <1>5, <1>7 DEF FreeListSorted
    <3>4. \A j \in 1 .. Len(freeBlocks') :
            j < k => eraseCount[freeBlocks[g(j)]] <= n
      <4> SUFFICES ASSUME NEW j \in 1 .. Len(freeBlocks'), j < k
                   PROVE  eraseCount[freeBlocks[g(j)]] <= n
        OBVIOUS
      <4>1. g(j) \in 1 .. Len(freeBlocks) /\ g(j) <= k - 1 /\ k > 1
            /\ k - 1 \in 1 .. Len(freeBlocks)
        BY <2>1, <2>5, <2>8
      <4>2. eraseCount[freeBlocks[g(j)]] <= eraseCount[freeBlocks[k - 1]]
        BY <4>1 DEF FreeListSorted
      <4> QED BY <4>1, <4>2, <2>1, <3>2
    <3>5. \A j \in 1 .. Len(freeBlocks') :
            j > k => eraseCount[freeBlocks[g(j)]] >= n
      <4> SUFFICES ASSUME NEW j \in 1 .. Len(freeBlocks'), j > k
                   PROVE  eraseCount[freeBlocks[g(j)]] >= n
        OBVIOUS
      <4>1. g(j) \in 1 .. Len(freeBlocks) /\ g(j) >= k
        BY <2>1, <2>5, <2>8
      <4> QED BY <4>1, <2>1, <3>2
    <3>6. ASSUME NEW j1 \in 1 .. Len(freeBlocks'),
                 NEW j2 \in 1 .. Len(freeBlocks'), j1 <= j2
          PROVE  eraseCount'[freeBlocks'[j1]] <= eraseCount'[freeBlocks'[j2]]
      <4>1. j1 \in Int /\ j2 \in Int /\ k \in Int
        BY <2>1, <2>3
      <4>2. CASE j1 # k /\ j2 # k
        <5>1. g(j1) \in 1 .. Len(freeBlocks) /\ g(j2) \in 1 .. Len(freeBlocks)
              /\ g(j1) <= g(j2)
          BY <4>2, <3>6, <2>5, <2>6
        <5>2. eraseCount[freeBlocks[g(j1)]] <= eraseCount[freeBlocks[g(j2)]]
          BY <5>1 DEF FreeListSorted
        <5> QED BY <4>2, <5>2, <3>1
      <4>3. CASE j1 = k /\ j2 # k
        BY <4>1, <4>3, <3>6, <3>1, <3>5, <2>4, <1>5
      <4>4. CASE j1 # k /\ j2 = k
        BY <4>1, <4>4, <3>6, <3>1, <3>4, <2>4, <1>5
      <4>5. CASE j1 = k /\ j2 = k
        BY <4>5, <2>4, <1>5
      <4> QED BY <4>2, <4>3, <4>4, <4>5
    <3> QED BY <3>3, <3>6 DEF FreeListSorted
  <2> QED BY <1>2, <2>9, <2>10
<1> QED BY <1>6, <1>7

(***************************************************************************)
(* A block that getLastFreeBlock() returned takes the next write.          *)
(***************************************************************************)
LEMMA ProgramTarget ==
  ASSUME PoolInv, pc = "program"
  PROVE  /\ Writable /\ NextPage \in Page /\ dest \in blocks /\ dest \in Block
         /\ ~Full(dest) /\ content[dest][NextPage] = ErasedPage
<1>1. dest \in blocks /\ nextWrite[dest] < PagesInBlock
  BY DEF PoolInv, StepOK
<1>2. dest \in Block /\ nextWrite[dest] \in 0 .. PagesInBlock
  BY DEF PoolInv, TypeInv, TypeOK
<1>3. nextWrite[dest] \in Page /\ nextWrite[dest] >= nextWrite[dest]
  BY <1>1, <1>2, Constants DEF Page
<1>4. content[dest][nextWrite[dest]] = ErasedPage
  BY <1>2, <1>3 DEF PoolInv, SequentialWrites
<1>5. ~Full(dest)
  BY <1>1, <1>2, Constants DEF Full
<1> QED BY <1>1, <1>2, <1>3, <1>4, <1>5 DEF Writable, NextPage

(***************************************************************************)
(* Every step keeps the pool, with one step of the proof per action.       *)
(***************************************************************************)
LEMMA NextPoolInv == PoolInv /\ [Next]_vars => PoolInv'
<1> SUFFICES ASSUME PoolInv, [Next]_vars PROVE PoolInv'
  OBVIOUS
<1> USE DEF PoolInv, TypeInv, blockVars, poolVars, openVars, cmtVars
<1>t. TypeInv'
  BY NextTypeInv
<1>1. ASSUME NEW l \in LPN, NEW toPAL, WriteLookup(l, toPAL)
      PROVE  PoolInv'
  <2>1. \A b \in Block, p \in Page :
          content'[b][p] = ErasedPage <=> content[b][p] = ErasedPage
    <3>1. table[l] \in Mapping /\ InvalidateOld(table[l])
      BY <1>1 DEF WriteLookup, TypeOK
    <3> QED BY <3>1, InvalidateOldKeepsErased
  <2>2. PoolPartition' /\ FreeListSorted' /\ SequentialWrites'
    BY <1>1, <2>1, InvalidateKeepsPool DEF WriteLookup
  <2>3. StepOK'
    BY <1>1, Constants DEF WriteLookup, StepOK, NoReq
  <2> QED BY <1>t, <2>2, <2>3
<1>2. ASSUME NEW l \in LPN, FillWrite(l) PROVE PoolInv'
  BY <1>1, <1>2 DEF FillWrite
<1>3. ASSUME NEW l \in LPN, Write(l) PROVE PoolInv'
  BY <1>1, <1>3 DEF Write
<1>4. CASE FillDone
  <2>1. PoolPartition' /\ FreeListSorted' /\ SequentialWrites'
    BY <1>4, PoolUnchanged DEF FillDone
  <2>2. StepOK'
    BY <1>4 DEF FillDone, StepOK
  <2> QED BY <1>t, <2>1, <2>2
<1>5. CASE UseOpenBlock
  <2>1. PoolPartition' /\ FreeListSorted' /\ SequentialWrites'
    BY <1>5, PoolUnchanged DEF UseOpenBlock, TurnChannel
  <2>2. ASSUME pc' = "program"
        PROVE  dest' \in blocks' /\ nextWrite'[dest'] < PagesInBlock
    <3>1. /\ dest' = lastFreeBlock[NextChannel] /\ dest' \in blocks
          /\ ~Full(dest') /\ blocks' = blocks /\ nextWrite' = nextWrite
      BY <1>5, <2>2 DEF UseOpenBlock, Fail, TurnChannel
    <3>2. nextWrite[dest'] \in 0 .. PagesInBlock
      BY <3>1 DEF TypeOK
    <3> QED BY <3>1, <3>2, Constants DEF Full
  <2>3. content'[Victim'][gc'.page] = content[Victim][gc.page] /\ req' = req
    BY <1>5 DEF UseOpenBlock, TurnChannel, Victim
  <2>4. pc = "alloc" /\ panic' \in {panic, "Corrupted"}
    BY <1>5 DEF UseOpenBlock, Fail
  <2>5. StepOK'
    BY <2>2, <2>3, <2>4 DEF StepOK
  <2> QED BY <1>t, <2>1, <2>5
<1>6. ASSUME pc = "alloc", TurnChannel, GetFreeBlock(NextChannel)
      PROVE  PoolInv'
  <2>1. /\ PoolPartition' /\ FreeListSorted' /\ SequentialWrites'
        /\ pc' = "program" => dest' \in blocks' /\ nextWrite[dest'] = 0
        /\ panic' \in {panic, "No free block left"}
    BY <1>6, NextChannelType, GetFreeBlockKeepsPool DEF TurnChannel
  <2>2. content'[Victim'][gc'.page] = content[Victim][gc.page] /\ req' = req
        /\ nextWrite' = nextWrite
    BY <1>6 DEF TurnChannel, Victim
  <2>3. StepOK'
    BY <1>6, <2>1, <2>2, Constants DEF StepOK
  <2> QED BY <1>t, <2>1, <2>3
<1>7. CASE ReplaceErasedBlock
  BY <1>6, <1>7 DEF ReplaceErasedBlock
<1>8. CASE ReplaceFullBlock
  BY <1>6, <1>8 DEF ReplaceFullBlock
<1>w. ASSUME pc = "program"
      PROVE  Writable /\ NextPage \in Page /\ dest \in blocks
  BY <1>w, ProgramTarget
<1>9. CASE WritePage
  <2>1. /\ pc = "program" /\ req \in [lpn : LPN, entry : LPN, toPAL : BOOLEAN]
        /\ Writable
    BY <1>9, <1>w DEF WritePage, TypeOK
  <2>2. /\ content' = Programmed(content, req.lpn)
        /\ nextWrite' = [nextWrite EXCEPT ![dest] = @ + 1]
        /\ UNCHANGED <<freeBlocks, nFreeBlocks, blocks, eraseCount>>
        /\ AfterWrite
    BY <1>9, <2>1 DEF WritePage
  <2>3. content \in [Block -> [Page -> Content]] /\ req.lpn \in LPN
    BY <2>1 DEF TypeOK
  <2>4. PoolPartition' /\ FreeListSorted' /\ SequentialWrites'
    BY <2>1, <2>2, <2>3, <1>w, ProgramKeepsPool
  <2>5. pc' \notin {"alloc", "program"}
        /\ panic' \in {panic, "GC triggered while in initialization"}
    BY <2>2 DEF AfterWrite, Fail
  <2>6. StepOK'
    BY <2>5 DEF StepOK
  <2> QED BY <1>t, <2>4, <2>6
<1>10. CASE SelectVictimBlock
  <2>1. PoolPartition' /\ FreeListSorted' /\ SequentialWrites'
    BY <1>10, PoolUnchanged DEF SelectVictimBlock
  <2>2. StepOK'
    BY <1>10 DEF SelectVictimBlock, StartGC, StepOK
  <2> QED BY <1>t, <2>1, <2>2
<1>11. CASE ScanVictim
  <2>1. PoolPartition' /\ FreeListSorted' /\ SequentialWrites'
    BY <1>11, PoolUnchanged DEF ScanVictim
  <2>2. /\ pc' # "program" /\ content' = content
        /\ panic' \in {panic, "Invalid block"}
    BY <1>11 DEF ScanVictim, Fail
  <2>3. ASSUME pc' = "alloc"
        PROVE  content'[Victim'][gc'.page] \in LPN
    <3>1. PagesLeft # {} /\ gc' = [gc EXCEPT !.page = Min(PagesLeft)]
      BY <1>11, <2>3 DEF ScanVictim, Fail
    <3>2. PagesLeft \subseteq Nat
      BY Constants DEF PagesLeft, ValidPages, Page
    <3>3. Min(PagesLeft) \in PagesLeft
      BY <3>1, <3>2, MinLemma
    <3>4. gc'.page = Min(PagesLeft) /\ Victim' = Victim
      BY <3>1 DEF TypeOK, Victim
    <3> QED BY <3>3, <3>4, <2>2 DEF PagesLeft, ValidPages
  <2>4. StepOK'
    BY <2>2, <2>3 DEF StepOK
  <2> QED BY <1>t, <2>1, <2>4
<1>12. CASE CopyPage
  <2> DEFINE l == content[Victim][gc.page]
             c == Invalidated(content, Loc(Victim, gc.page))
  <2>1. /\ pc = "program" /\ req = NoReq /\ Collecting /\ Writable
        /\ UNCHANGED <<freeBlocks, nFreeBlocks, blocks, eraseCount, req>>
    BY <1>12, <1>w DEF CopyPage, Collecting
  <2>2. Victim \in Block /\ gc.page \in Page /\ l \in LPN
    BY <2>1, VictimType DEF ControlOK, StepOK
  <2>3. Loc(Victim, gc.page) \in Mapping /\ Loc(Victim, gc.page).block \in Block
    BY <2>2 DEF Loc, Mapping
  <2>4. /\ c \in [Block -> [Page -> Content]]
        /\ \A b \in Block, p \in Page :
             c[b][p] = ErasedPage <=> content[b][p] = ErasedPage
    BY <2>3, InvalidatedType, InvalidatedKeepsErased
  <2>5. CASE table[l] = NoEntry
    <3>1. /\ content' = c /\ nextWrite' = nextWrite /\ pc' = "panic"
          /\ panic' = "Invalid mapping table entry"
      BY <1>12, <2>5 DEF CopyPage, Fail
    <3>2. PoolPartition' /\ FreeListSorted' /\ SequentialWrites'
      <4> HIDE DEF c
      <4> QED BY <2>1, <2>4, <3>1, InvalidateKeepsPool
    <3>3. StepOK'
      BY <3>1 DEF StepOK
    <3> QED BY <1>t, <3>2, <3>3
  <2>6. CASE table[l] # NoEntry
    <3>1. /\ content' = Programmed(c, l) /\ pc' = "scan" /\ panic' = panic
          /\ nextWrite' = [nextWrite EXCEPT ![dest] = @ + 1]
      BY <1>12, <2>6, <2>1 DEF CopyPage
    <3>2. PoolPartition' /\ FreeListSorted' /\ SequentialWrites'
      <4> HIDE DEF c, l
      <4> QED BY <2>1, <2>2, <2>4, <3>1, <1>w, ProgramKeepsPool
    <3>3. StepOK'
      BY <3>1 DEF StepOK
    <3> QED BY <1>t, <3>2, <3>3
  <2> QED BY <2>5, <2>6
<1>13. CASE EraseVictim
  <2>1. CASE Victim \notin blocks
    <3>1. PoolPartition' /\ FreeListSorted' /\ SequentialWrites'
      BY <1>13, <2>1, PoolUnchanged DEF EraseVictim
    <3>2. StepOK'
      BY <1>13, <2>1 DEF EraseVictim, Fail, StepOK
    <3> QED BY <1>t, <3>1, <3>2
  <2>2. CASE Victim \in blocks
    <3>1. eraseCount[Victim] + 1 \in Nat
      BY <2>2 DEF TypeOK
    <3>2. PoolPartition' /\ FreeListSorted' /\ SequentialWrites'
      BY <1>13, <2>2, <3>1, EraseKeepsPool DEF EraseVictim, LifeLeft
    <3>3. StepOK'
      BY <1>13, <2>2 DEF EraseVictim, StepOK
    <3> QED BY <1>t, <3>2, <3>3
  <2> QED BY <2>1, <2>2
<1>14. ASSUME NEW l \in LPN, WriteCmtHit(l) PROVE PoolInv'
  <2>1. \A b \in Block, p \in Page :
          content'[b][p] = ErasedPage <=> content[b][p] = ErasedPage
    <3>1. cmt[l] \in Mapping /\ InvalidateOld(cmt[l])
      BY <1>14 DEF WriteCmtHit, TypeOK
    <3> QED BY <3>1, InvalidateOldKeepsErased
  <2>2. PoolPartition' /\ FreeListSorted' /\ SequentialWrites'
    BY <1>14, <2>1, InvalidateKeepsPool DEF WriteCmtHit
  <2>3. /\ pc' \in {"alloc", "panic"}
        /\ pc' = "alloc" => req' # NoReq
        /\ panic' \in {panic, "table.begin() of an empty table"}
    <3>1. CASE \A k \in LPN : table[k] = NoEntry
      BY <1>14, <3>1 DEF WriteCmtHit, Fail
    <3>2. CASE ~\A k \in LPN : table[k] = NoEntry
      <4>1. PICK k \in LPN : req' = [lpn |-> l, entry |-> k, toPAL |-> TRUE]
        BY <1>14, <3>2 DEF WriteCmtHit
      <4>2. pc' = "alloc" /\ panic' = panic
        BY <1>14, <3>2 DEF WriteCmtHit
      <4> QED BY <4>1, <4>2, Constants DEF NoReq
    <3> QED BY <3>1, <3>2
  <2>4. StepOK'
    BY <2>3 DEF StepOK
  <2> QED BY <1>t, <2>2, <2>4
<1>15. ASSUME NEW l \in LPN, ReadCmtHit(l) \/ ReadTable(l) PROVE PoolInv'
  <2>1. PoolPartition' /\ FreeListSorted' /\ SequentialWrites'
    BY <1>15, PoolUnchanged DEF ReadCmtHit, ReadTable
  <2>2. pc' \in {"idle", "panic"} /\ panic' \in {panic, "Block is not in use"}
    BY <1>15 DEF ReadCmtHit, ReadTable, ReadPage, Fail
  <2>3. StepOK'
    BY <2>2 DEF StepOK
  <2> QED BY <1>t, <2>1, <2>3
<1>16. ASSUME NEW l \in LPN, UndoCached(l) PROVE PoolInv'
  <2>1. PoolPartition' /\ FreeListSorted' /\ SequentialWrites'
    BY <1>16, PoolUnchanged DEF UndoCached
  <2>2. StepOK'
    BY <1>16 DEF UndoCached, StepOK
  <2> QED BY <1>t, <2>1, <2>2
<1>17. ASSUME NEW l \in LPN, Trim(l) PROVE PoolInv'
  <2>1. \A b \in Block, p \in Page :
          content'[b][p] = ErasedPage <=> content[b][p] = ErasedPage
    <3>1. CASE table[l].block \in blocks
      <4>1. content' = Invalidated(content, table[l])
            /\ table[l] \in Mapping /\ table[l].block \in Block
        BY <1>17, <3>1 DEF Trim, TypeOK
      <4> QED BY <4>1, InvalidatedKeepsErased
    <3>2. CASE table[l].block \notin blocks
      BY <1>17, <3>2 DEF Trim
    <3> QED BY <3>1, <3>2
  <2>2. PoolPartition' /\ FreeListSorted' /\ SequentialWrites'
    BY <1>17, <2>1, InvalidateKeepsPool DEF Trim
  <2>3. StepOK'
    BY <1>17 DEF Trim, Fail, StepOK
  <2> QED BY <1>t, <2>2, <2>3
<1>18. ASSUME NEW r \in FormatRanges, Format(r) PROVE PoolInv'
  <2> DEFINE keys == {l \in r : table[l] # NoEntry}
             hit  == {table[l].block : l \in keys}
  <2>1. \A b \in Block, p \in Page :
          content'[b][p] = ErasedPage <=> content[b][p] = ErasedPage
    <3>1. CASE hit \subseteq blocks
      <4>1. content' = [b \in Block |-> [p \in Page |->
                IF content[b][p] \in LPN /\ (\E l \in keys : table[l] = Loc(b, p))
                THEN DeadPage ELSE content[b][p]]]
        BY <1>18, <3>1 DEF Format
      <4>2. ErasedPage \notin LPN /\ DeadPage # ErasedPage
        BY Constants DEF ErasedPage, DeadPage
      <4> HIDE DEF keys
      <4> QED BY <4>1, <4>2
    <3>2. CASE ~(hit \subseteq blocks)
      BY <1>18, <3>2 DEF Format
    <3> QED BY <3>1, <3>2
  <2>2. PoolPartition' /\ FreeListSorted' /\ SequentialWrites'
    BY <1>18, <2>1, InvalidateKeepsPool DEF Format
  <2>3. pc' \notin {"alloc", "program"} /\ panic' \in {panic, "Block is not in use"}
    BY <1>18 DEF Format, StartGC, Fail
  <2>4. StepOK'
    BY <2>3 DEF StepOK
  <2> QED BY <1>t, <2>2, <2>4
<1>19. CASE PassRequestLimit
  <2>1. PoolPartition' /\ FreeListSorted' /\ SequentialWrites'
    BY <1>19, PoolUnchanged DEF PassRequestLimit
  <2>2. StepOK'
    BY <1>19 DEF PassRequestLimit, StepOK
  <2> QED BY <1>t, <2>1, <2>2
<1>20. CASE UNCHANGED vars
  <2>1. PoolPartition' /\ FreeListSorted' /\ SequentialWrites'
    BY <1>20, PoolUnchanged DEF vars
  <2>2. StepOK'
    BY <1>20 DEF vars, StepOK, Victim
  <2> QED BY <1>t, <2>1, <2>2
<1>21. CASE Internal
  BY <1>21, <1>2, <1>4, <1>5, <1>7, <1>8, <1>9, <1>10, <1>11, <1>12, <1>13
     DEF Internal
<1>22. CASE Call
  BY <1>22, <1>3, <1>14, <1>15, <1>16, <1>17, <1>18, <1>19, Constants DEF Call
<1> QED BY <1>20, <1>21, <1>22 DEF Next

(***************************************************************************)
(* No block is ever lost, allocated twice or free and in use at once       *)
(* (getFreeBlock, eraseInternal), for every setting of the options.        *)
(***************************************************************************)
THEOREM PoolIsPartition == Spec => []PoolPartition
<1>1. PoolInv => PoolPartition
  BY DEF PoolInv
<1> QED BY <1>1, InitPoolInv, NextPoolInv, PTL DEF Spec

(***************************************************************************)
(* The reverse search of eraseInternal is sound: the free list is always   *)
(* sorted by erase count and holds erased blocks only.                     *)
(***************************************************************************)
THEOREM FreeListIsSorted == Spec => []FreeListSorted
<1>1. PoolInv => FreeListSorted
  BY DEF PoolInv
<1> QED BY <1>1, InitPoolInv, NextPoolInv, PTL DEF Spec

(***************************************************************************)
(* Pages are programmed in order and once per erase (Block::write), also   *)
(* by the page copies of a collection.                                     *)
(***************************************************************************)
THEOREM WritesAreSequential == Spec => []SequentialWrites
<1>1. PoolInv => SequentialWrites
  BY DEF PoolInv
<1> QED BY <1>1, InitPoolInv, NextPoolInv, PTL DEF Spec

-----------------------------------------------------------------------------
(***************************************************************************)
(* When the pool is never found corrupted: the cache-aware policy, which   *)
(* repeats its one victim, reclaims one block at a time, and either there  *)
(* is one open block or every victim is a full block of several pages (a   *)
(* format also collects open blocks).                                      *)
(***************************************************************************)
SingleVictims == PageAwareOfCache => ReclaimBlocks = 1

OpenBlocksSpared ==
  PageCountToMaxPerf = 1 \/ (FormatRanges = {} /\ PagesInBlock > 1)

(***************************************************************************)
(* What getLastFreeBlock() relies on.  An open block that is not in use    *)
(* any more is known to be erased.  A block that was erased while open and *)
(* then opened again for another channel is open for two of them, until    *)
(* the first of the two turns to it, finds its old id in erased_block_id   *)
(* and leaves it; by then it has been written once at most.                *)
(***************************************************************************)
OpenOK ==
  /\ \A c \in Chan : lastFreeBlock[c] \in blocks \cup erasedIds
  /\ \A b \in blocks \cap erasedIds :
       /\ nextWrite[b] <= 1
       /\ pc = "program" /\ dest = b => nextWrite[b] = 0
  /\ \A c1, c2 \in Chan :
       c1 # c2 /\ lastFreeBlock[c1] = lastFreeBlock[c2]
         => lastFreeBlock[c1] \in blocks \cap erasedIds
  /\ \A c1, c2, c3 \in Chan :
       lastFreeBlock[c1] = lastFreeBlock[c2] /\ lastFreeBlock[c2] = lastFreeBlock[c3]
         => c1 = c2 \/ c1 = c3 \/ c2 = c3

(***************************************************************************)
(* What doGarbageCollection relies on: its victims are different blocks,   *)
(* in use until their turn to be erased comes, and full without formats.   *)
(***************************************************************************)
Pending(i) == pc = "erase" => i >= gc.at

VictimsInUse ==
  \A i \in 1 .. Len(gc.victims) :
    Pending(i) => /\ gc.victims[i] \in blocks
                  /\ FormatRanges = {} => Full(gc.victims[i])

VictimsDiffer ==
  \A i, j \in 1 .. Len(gc.victims) : gc.victims[i] = gc.victims[j] => i = j

VictimsOK == Collecting => VictimsInUse /\ VictimsDiffer

SpareInv == PoolInv /\ OpenOK /\ VictimsOK /\ PoolNeverCorrupted

(***************************************************************************)
(* No block is open at the start.                                          *)
(***************************************************************************)
LEMMA InitSpareInv == Init => SpareInv
<1> SUFFICES ASSUME Init PROVE SpareInv
  OBVIOUS
<1>1. PoolInv
  BY InitPoolInv
<1>2. OpenOK
  BY DEF Init, OpenOK
<1>3. VictimsOK /\ PoolNeverCorrupted
  BY DEF Init, VictimsOK, Collecting, PoolNeverCorrupted
<1> QED BY <1>1, <1>2, <1>3 DEF SpareInv

(***************************************************************************)
(* Steps that neither open, write nor erase a block.                       *)
(***************************************************************************)
LEMMA OpenUnchanged ==
  ASSUME OpenOK, pc' # "program",
         UNCHANGED <<blocks, erasedIds, nextWrite, lastFreeBlock>>
  PROVE  OpenOK'
BY DEF OpenOK

(***************************************************************************)
(* Outside a collection there is nothing to show about victims.            *)
(***************************************************************************)
LEMMA NoVictims ==
  ASSUME \/ pc' \in {"fill", "idle", "select", "panic"}
         \/ pc' \in {"alloc", "program"} /\ req' # NoReq
  PROVE  VictimsOK'
BY DEF VictimsOK, Collecting

(***************************************************************************)
(* selectVictimBlock picks different full blocks.                          *)
(***************************************************************************)
LEMMA VictimListsDiffer ==
  ASSUME SingleVictims, TypeOK, NEW list \in VictimLists
  PROVE  /\ \A i \in 1 .. Len(list) : list[i] \in blocks /\ Full(list[i])
         /\ \A i, j \in 1 .. Len(list) : list[i] = list[j] => i = j
<1>1. list \in Seq(Candidates)
  BY VictimListsType
<1>2. \A i \in 1 .. Len(list) : list[i] \in blocks /\ Full(list[i])
  <2>1. \A i \in 1 .. Len(list) : list[i] \in Candidates
    BY <1>1
  <2> QED BY <2>1 DEF Candidates
<1>3. Candidates \subseteq Block
  BY DEF Candidates, TypeOK
<1>4. Reclaimed \in Nat
  BY <1>3, FiniteBlocks, Constants DEF Reclaimed
<1>5. CASE PageAwareOfCache
  <2>1. Reclaimed <= 1
    <3>1. ReclaimBlocks = 1 /\ Cardinality(Candidates) \in Nat
      BY <1>5, <1>3, FiniteBlocks DEF SingleVictims
    <3> QED BY <3>1 DEF Reclaimed
  <2>2. list = <<>> \/ list \in [1 .. Reclaimed -> Candidates]
    BY <1>5 DEF VictimLists
  <2>3. Len(list) <= 1
    BY <1>4, <2>1, <2>2
  <2> QED BY <1>1, <1>2, <2>3
<1>6. CASE ~PageAwareOfCache
  <2>1. list \in [1 .. Reclaimed -> Candidates] /\ IsInjective(list)
    BY <1>6 DEF VictimLists
  <2>2. Len(list) = Reclaimed
    BY <1>4, <2>1
  <2> QED BY <1>2, <2>1, <2>2 DEF IsInjective
<1> QED BY <1>5, <1>6

(***************************************************************************)
(* The blocks a format collects are different, as they come from a set.    *)
(***************************************************************************)
LEMMA SortedListsDiffer ==
  ASSUME NEW S, S \subseteq Block, NEW list \in SortedLists(S)
  PROVE  \A i, j \in 1 .. Len(list) : list[i] = list[j] => i = j
<1>1. Cardinality(S) \in Nat
  BY FiniteBlocks
<1>2. /\ list \in [1 .. Cardinality(S) -> S]
      /\ \A i, j \in 1 .. Cardinality(S) : i < j => list[i] < list[j]
  BY DEF SortedLists
<1>3. Len(list) = Cardinality(S)
  BY <1>1, <1>2
<1>4. \A i \in 1 .. Len(list) : list[i] \in Int
  <2>1. \A i \in 1 .. Len(list) : list[i] \in Block
    BY <1>2, <1>3
  <2>2. \A b \in Block : b \in Int
    BY Constants DEF Block
  <2> QED BY <2>1, <2>2
<1> QED BY <1>1, <1>2, <1>3, <1>4

(***************************************************************************)
(* A collection starts with a list of different blocks in use.             *)
(***************************************************************************)
LEMMA StartGCVictims ==
  ASSUME TypeOK, NEW list \in Seq(Block), StartGC(list),
         UNCHANGED <<blocks, nextWrite>>,
         \A i \in 1 .. Len(list) :
           list[i] \in blocks /\ (FormatRanges = {} => Full(list[i])),
         \A i, j \in 1 .. Len(list) : list[i] = list[j] => i = j
  PROVE  VictimsOK'
<1>1. CASE gcStopped \/ list = <<>>
  BY <1>1, NoVictims DEF StartGC
<1>2. CASE ~(gcStopped \/ list = <<>>)
  <2>1. gc'.victims = list
    BY <1>2 DEF StartGC
  <2> QED BY <2>1 DEF VictimsOK, VictimsInUse, VictimsDiffer, Full
<1> QED BY <1>1, <1>2

(***************************************************************************)
(* getFreeBlock opens a block for channel c, which leaves its old one and  *)
(* forgets that it was erased.  Only a channel whose open block was erased *)
(* can already have the new block open, and only one such channel.         *)
(***************************************************************************)
LEMMA GetFreeBlockOpens ==
  ASSUME PoolInv, OpenOK, NEW c \in Chan, GetFreeBlock(c), nextWrite' = nextWrite,
         erasedIds' = IF nFreeBlocks = 0 THEN erasedIds
                      ELSE erasedIds \ {lastFreeBlock[c]}
  PROVE  OpenOK' /\ blocks \subseteq blocks'
<1> USE DEF PoolInv, TypeInv
<1>1. CASE nFreeBlocks = 0
  <2>1. /\ UNCHANGED <<blocks, lastFreeBlock, erasedIds>> /\ pc' = "panic"
    BY <1>1 DEF GetFreeBlock, Fail, poolVars
  <2> QED BY <2>1, OpenUnchanged
<1>2. CASE nFreeBlocks # 0
  <2> DEFINE d == freeBlocks[FreePosition(c)]
             b == lastFreeBlock[c]
  <2>1. FreePosition(c) \in 1 .. Len(freeBlocks)
    BY <1>2, FreePositionType DEF ControlOK, TypeOK
  <2>2. d \in Block /\ d \notin blocks /\ nextWrite[d] = 0
    BY <2>1 DEF TypeOK, PoolPartition, FreeListSorted
  <2>3. /\ blocks' = blocks \cup {d} /\ dest' = d
        /\ lastFreeBlock' = [lastFreeBlock EXCEPT ![c] = d]
        /\ erasedIds' = erasedIds \ {b}
    BY <1>2, <2>2 DEF GetFreeBlock
  <2>4. /\ lastFreeBlock'[c] = d
        /\ \A e \in Chan : e # c => lastFreeBlock'[e] = lastFreeBlock[e]
    BY <2>3 DEF TypeOK
  <2> HIDE DEF d, b
  <2>b. b = lastFreeBlock[c]
    BY DEF b
  \* Another channel with the new block open had it erased, alone.
  <2>5. \A e \in Chan : lastFreeBlock[e] = d => d \in erasedIds
    BY <2>2 DEF OpenOK
  <2>6. \A e1, e2 \in Chan :
          lastFreeBlock[e1] = d /\ lastFreeBlock[e2] = d => e1 = e2
    BY <2>2 DEF OpenOK
  <2>7. \A e \in Chan : e # c /\ lastFreeBlock[e] = d => d # b
    BY <2>6, <2>b
  \* Another channel with the old block open keeps it in use.
  <2>8. \A e \in Chan : e # c /\ lastFreeBlock[e] = b => b \in blocks
    BY <2>b DEF OpenOK
  <2>9. \A e1, e2 \in Chan :
          (e1 # c /\ e2 # c /\ lastFreeBlock[e1] = b /\ lastFreeBlock[e2] = b)
            => e1 = e2
    BY <2>b DEF OpenOK
  <2>10. \A e \in Chan : lastFreeBlock'[e] \in blocks' \cup erasedIds'
    <3> SUFFICES ASSUME NEW e \in Chan
                 PROVE  lastFreeBlock'[e] \in blocks' \cup erasedIds'
      OBVIOUS
    <3>1. CASE e = c
      BY <3>1, <2>3, <2>4
    <3>2. CASE e # c
      <4>1. lastFreeBlock[e] \in blocks \cup erasedIds
        BY DEF OpenOK
      <4> QED BY <3>2, <4>1, <2>3, <2>4, <2>8
    <3> QED BY <3>1, <3>2
  <2>11. \A x \in blocks' \cap erasedIds' :
           /\ nextWrite'[x] <= 1
           /\ pc' = "program" /\ dest' = x => nextWrite'[x] = 0
    <3> SUFFICES ASSUME NEW x \in blocks' \cap erasedIds'
                 PROVE  /\ nextWrite[x] <= 1
                        /\ pc' = "program" /\ dest' = x => nextWrite[x] = 0
      OBVIOUS
    <3>1. CASE x = d
      BY <3>1, <2>2
    <3>2. CASE x # d
      <4>1. x \in blocks \cap erasedIds
        BY <3>2, <2>3
      <4> QED BY <3>2, <4>1, <2>3 DEF OpenOK
    <3> QED BY <3>1, <3>2
  <2>12. ASSUME NEW e1 \in Chan, NEW e2 \in Chan, e1 # e2,
                lastFreeBlock'[e1] = lastFreeBlock'[e2]
         PROVE  lastFreeBlock'[e1] \in blocks' \cap erasedIds'
    <3>1. CASE e1 # c /\ e2 # c
      <4>1. lastFreeBlock[e1] = lastFreeBlock[e2]
        BY <3>1, <2>4, <2>12
      <4>2. lastFreeBlock[e1] \in blocks \cap erasedIds
        BY <4>1, <2>12 DEF OpenOK
      <4>3. lastFreeBlock[e1] # b
        BY <3>1, <4>1, <2>9, <2>12
      <4> QED BY <3>1, <4>2, <4>3, <2>3, <2>4
    <3>2. CASE e1 = c /\ e2 # c
      <4>1. lastFreeBlock[e2] = d
        BY <3>2, <2>4, <2>12
      <4>2. d \in erasedIds /\ d # b
        BY <3>2, <4>1, <2>5, <2>7
      <4> QED BY <3>2, <4>2, <2>3, <2>4
    <3>3. CASE e1 # c /\ e2 = c
      <4>1. lastFreeBlock[e1] = d
        BY <3>3, <2>4, <2>12
      <4>2. d \in erasedIds /\ d # b
        BY <3>3, <4>1, <2>5, <2>7
      <4> QED BY <3>3, <4>1, <4>2, <2>3, <2>4
    <3> QED BY <3>1, <3>2, <3>3, <2>12
  <2>13. ASSUME NEW e1 \in Chan, NEW e2 \in Chan, NEW e3 \in Chan,
                lastFreeBlock'[e1] = lastFreeBlock'[e2],
                lastFreeBlock'[e2] = lastFreeBlock'[e3]
         PROVE  e1 = e2 \/ e1 = e3 \/ e2 = e3
    <3>1. CASE c \notin {e1, e2, e3}
      <4>1. /\ lastFreeBlock[e1] = lastFreeBlock[e2]
            /\ lastFreeBlock[e2] = lastFreeBlock[e3]
        BY <3>1, <2>4, <2>13
      <4> QED BY <4>1 DEF OpenOK
    <3>2. CASE c \in {e1, e2, e3}
      <4>1. /\ lastFreeBlock'[e1] = d /\ lastFreeBlock'[e2] = d
            /\ lastFreeBlock'[e3] = d
        BY <3>2, <2>4, <2>13
      <4>2. \A e \in {e1, e2, e3} : e # c => lastFreeBlock[e] = d
        BY <4>1, <2>4
      <4> QED BY <3>2, <4>2, <2>6
    <3> QED BY <3>1, <3>2
  <2>14. OpenOK'
    BY <2>10, <2>11, <2>12, <2>13 DEF OpenOK
  <2> QED BY <2>3, <2>14
<1> QED BY <1>1, <1>2

(***************************************************************************)
(* Block::write fills one more page of a block that is not full.           *)
(***************************************************************************)
LEMMA ProgramKeepsOpen ==
  ASSUME PoolInv, OpenOK, pc = "program", pc' # "program",
         UNCHANGED <<blocks, erasedIds, lastFreeBlock>>,
         nextWrite' = [nextWrite EXCEPT ![dest] = @ + 1]
  PROVE  OpenOK'
<1>1. dest \in Block /\ nextWrite \in [Block -> 0 .. PagesInBlock]
      /\ blocks \subseteq Block
  BY DEF PoolInv, TypeInv, TypeOK
<1>2. ASSUME NEW b \in blocks \cap erasedIds
      PROVE  nextWrite'[b] <= 1
  <2>1. nextWrite[b] <= 1 /\ (dest = b => nextWrite[b] = 0)
    BY DEF OpenOK
  <2>2. CASE b = dest
    BY <2>1, <2>2, <1>1
  <2>3. CASE b # dest
    BY <2>1, <2>3, <1>1
  <2> QED BY <2>2, <2>3
<1> QED BY <1>2 DEF OpenOK

(***************************************************************************)
(* Every step spares the open blocks and the victims, with one step of the *)
(* proof per action.                                                       *)
(***************************************************************************)
LEMMA NextSpareInv ==
  ASSUME SingleVictims, OpenBlocksSpared
  PROVE  SpareInv /\ [Next]_vars => SpareInv'
<1> SUFFICES ASSUME SpareInv, [Next]_vars PROVE SpareInv'
  OBVIOUS
<1> USE DEF SpareInv, blockVars, poolVars, openVars, cmtVars
<1>p. PoolInv'
  BY NextPoolInv
<1>t. TypeOK /\ ControlOK
  BY DEF PoolInv, TypeInv
\* Calls and steps that touch none of this state.
<1>q. ASSUME UNCHANGED <<blocks, erasedIds, nextWrite, lastFreeBlock>>,
             \/ pc' \in {"fill", "idle", "select", "panic"}
             \/ pc' = "alloc" /\ req' # NoReq,
             PoolNeverCorrupted'
      PROVE  SpareInv'
  <2>1. OpenOK'
    BY <1>q, OpenUnchanged
  <2>2. VictimsOK'
    BY <1>q, NoVictims
  <2> QED BY <1>p, <1>q, <2>1, <2>2
<1>1. ASSUME NEW l \in LPN, NEW toPAL, WriteLookup(l, toPAL)
      PROVE  SpareInv'
  <2>1. UNCHANGED <<blocks, erasedIds, nextWrite, lastFreeBlock>> /\ pc' = "alloc"
        /\ req' = [lpn |-> l, entry |-> l, toPAL |-> toPAL] /\ panic' = panic
    BY <1>1 DEF WriteLookup
  <2>2. req' # NoReq
    BY <2>1, Constants DEF NoReq
  <2> QED BY <1>q, <2>1, <2>2 DEF PoolNeverCorrupted
<1>2. ASSUME NEW l \in LPN, FillWrite(l) PROVE SpareInv'
  BY <1>1, <1>2 DEF FillWrite
<1>3. ASSUME NEW l \in LPN, Write(l) PROVE SpareInv'
  BY <1>1, <1>3 DEF Write
<1>4. CASE FillDone
  BY <1>4, <1>q DEF FillDone, PoolNeverCorrupted
\* The steps of getLastFreeBlock(): a collection in progress goes on.
<1>a. ASSUME pc = "alloc", TurnChannel, blocks \subseteq blocks',
             pc' \in {"program", "panic"}
      PROVE  VictimsOK'
  <2>1. UNCHANGED <<gc, req, nextWrite>>
    BY <1>a DEF TurnChannel
  <2>2. CASE Collecting' /\ Collecting
    BY <1>a, <2>1, <2>2
       DEF VictimsOK, VictimsInUse, VictimsDiffer, Pending, Full
  <2>3. Collecting' => Collecting
    BY <1>a, <2>1 DEF Collecting
  <2>4. CASE ~Collecting'
    BY <2>4 DEF VictimsOK
  <2> QED BY <2>2, <2>3, <2>4
<1>5. CASE UseOpenBlock
  <2> DEFINE b == lastFreeBlock[NextChannel]
  <2>1. /\ pc = "alloc" /\ TurnChannel /\ b \notin erasedIds
        /\ UNCHANGED <<blocks, lastFreeBlock, erasedIds, nextWrite>>
    BY <1>5 DEF UseOpenBlock, TurnChannel
  <2>2. b \in blocks
    BY <2>1, <1>t, NextChannelType DEF OpenOK
  <2>3. dest' = b /\ pc' = "program" /\ panic' = panic
    BY <1>5, <2>2 DEF UseOpenBlock
  <2>4. OpenOK'
    <3> HIDE DEF b
    <3> QED BY <2>1, <2>3 DEF OpenOK
  <2>5. VictimsOK'
    BY <2>1, <2>3, <1>a
  <2> QED BY <1>p, <2>3, <2>4, <2>5 DEF PoolNeverCorrupted
<1>6. ASSUME pc = "alloc", TurnChannel, GetFreeBlock(NextChannel),
             erasedIds' = IF nFreeBlocks = 0 THEN erasedIds
                          ELSE erasedIds \ {lastFreeBlock[NextChannel]}
      PROVE  SpareInv'
  <2>1. NextChannel \in Chan
    BY <1>t, NextChannelType
  <2>2. UNCHANGED <<content, nextWrite, eraseCount>>
    BY <1>6 DEF TurnChannel
  <2>3. panic' \in {panic, "No free block left"}
    BY <1>6, <2>1, <2>2, GetFreeBlockKeepsPool
  <2>4. OpenOK' /\ blocks \subseteq blocks'
    BY <1>6, <2>1, <2>2, GetFreeBlockOpens
  <2>5. pc' \in {"program", "panic"}
    BY <1>6 DEF GetFreeBlock, Fail
  <2>6. VictimsOK'
    BY <1>6, <2>4, <2>5, <1>a
  <2> QED BY <1>p, <2>3, <2>4, <2>6 DEF PoolNeverCorrupted
<1>7. CASE ReplaceErasedBlock
  BY <1>6, <1>7 DEF ReplaceErasedBlock
<1>8. CASE ReplaceFullBlock
  <2>1. /\ pc = "alloc" /\ TurnChannel /\ GetFreeBlock(NextChannel)
        /\ lastFreeBlock[NextChannel] \notin erasedIds /\ erasedIds' = erasedIds
    BY <1>8 DEF ReplaceFullBlock
  <2>2. erasedIds' = IF nFreeBlocks = 0 THEN erasedIds
                     ELSE erasedIds \ {lastFreeBlock[NextChannel]}
    BY <2>1
  <2> QED BY <1>6, <2>1, <2>2
<1>9. CASE WritePage
  <2>1. pc = "program" /\ Writable
    BY <1>9, ProgramTarget DEF WritePage
  <2>2. /\ nextWrite' = [nextWrite EXCEPT ![dest] = @ + 1] /\ AfterWrite
        /\ UNCHANGED <<blocks, erasedIds, lastFreeBlock>>
    BY <1>9, <2>1 DEF WritePage
  <2>3. pc' \in {"fill", "idle", "select", "panic"}
        /\ panic' \in {panic, "GC triggered while in initialization"}
    BY <2>2 DEF AfterWrite, Fail
  <2>4. OpenOK'
    BY <2>1, <2>2, <2>3, ProgramKeepsOpen
  <2>5. VictimsOK'
    BY <2>3, NoVictims
  <2> QED BY <1>p, <2>3, <2>4, <2>5 DEF PoolNeverCorrupted
<1>10. CASE SelectVictimBlock
  <2>1. PICK list \in VictimLists : StartGC(list)
    BY <1>10 DEF SelectVictimBlock
  <2>2. UNCHANGED <<blocks, erasedIds, nextWrite, lastFreeBlock, panic>>
        /\ pc' # "program"
    BY <1>10 DEF SelectVictimBlock, StartGC
  <2>3. list \in Seq(Block)
    <3>1. list \in Seq(Candidates) /\ Candidates \subseteq Block
      BY <1>t, VictimListsType DEF Candidates, TypeOK
    <3> QED BY <3>1
  <2>4. VictimsOK'
    BY <1>t, <2>1, <2>2, <2>3, VictimListsDiffer, StartGCVictims
  <2>5. OpenOK'
    BY <2>2, OpenUnchanged
  <2> QED BY <1>p, <2>2, <2>4, <2>5 DEF PoolNeverCorrupted
\* While a collection runs its current victim is in use.
<1>v. ASSUME Collecting
      PROVE  Victim \in blocks /\ Victim \in Block /\ gc.at \in 1 .. Len(gc.victims)
             /\ VictimsInUse /\ VictimsDiffer
             /\ (FormatRanges = {} => Full(Victim))
  <2>1. gc.at \in 1 .. Len(gc.victims) /\ gc.at \in Nat
    BY <1>v, <1>t DEF ControlOK, TypeOK
  <2>2. VictimsInUse /\ VictimsDiffer
    BY <1>v DEF VictimsOK
  <2>3. Pending(gc.at)
    BY <2>1 DEF Pending
  <2> QED BY <1>t, <2>1, <2>2, <2>3 DEF VictimsInUse, Victim, TypeOK
<1>11. CASE ScanVictim
  <2>1. Collecting /\ pc = "scan"
    BY <1>11 DEF ScanVictim, Collecting
  <2>2. Victim \in blocks /\ VictimsInUse /\ VictimsDiffer
    BY <2>1, <1>v
  <2>3. /\ UNCHANGED <<blocks, erasedIds, nextWrite, lastFreeBlock, panic>>
        /\ pc' \in {"alloc", "scan", "erase"}
    BY <1>11, <2>2 DEF ScanVictim
  <2>4. gc'.victims = gc.victims
    BY <1>11, <1>t, <2>2 DEF ScanVictim, NextVictim, TypeOK
  <2>5. VictimsInUse' /\ VictimsDiffer'
    <3>1. \A i \in 1 .. Len(gc.victims) : Pending(i)
      BY <2>1 DEF Pending
    <3> QED BY <3>1, <2>2, <2>3, <2>4 DEF VictimsInUse, VictimsDiffer, Full
  <2>6. OpenOK'
    BY <2>3, OpenUnchanged
  <2> QED BY <1>p, <2>3, <2>5, <2>6 DEF VictimsOK, PoolNeverCorrupted
<1>12. CASE CopyPage
  <2>1. /\ pc = "program" /\ Collecting /\ Writable
        /\ dest \in Block /\ ~Full(dest)
    BY <1>12, ProgramTarget DEF CopyPage, Collecting
  <2>2. UNCHANGED <<blocks, erasedIds, lastFreeBlock>>
    BY <1>12 DEF CopyPage
  <2>3. CASE table[content[Victim][gc.page]] = NoEntry
    <3>1. nextWrite' = nextWrite /\ pc' = "panic"
          /\ panic' = "Invalid mapping table entry"
      BY <1>12, <2>3 DEF CopyPage, Fail
    <3> QED BY <1>q, <2>2, <3>1 DEF PoolNeverCorrupted
  <2>4. CASE table[content[Victim][gc.page]] # NoEntry
    <3>1. /\ nextWrite' = [nextWrite EXCEPT ![dest] = @ + 1]
          /\ pc' = "scan" /\ panic' = panic /\ gc' = [gc EXCEPT !.page = @ + 1]
      BY <1>12, <2>1, <2>4 DEF CopyPage
    <3>2. OpenOK'
      BY <2>1, <2>2, <3>1, ProgramKeepsOpen
    <3>3. gc'.victims = gc.victims
      BY <3>1, <1>t DEF TypeOK
    <3>4. VictimsInUse /\ VictimsDiffer
      BY <2>1, <1>v
    <3>5. \A i \in 1 .. Len(gc.victims) : Pending(i)
      BY <2>1 DEF Pending
    <3>6. \A b \in blocks : Full(b) => Full(b)'
      BY <2>1, <3>1, <1>t DEF Full, TypeOK
    <3>7. VictimsInUse' /\ VictimsDiffer'
      BY <3>3, <3>4, <3>5, <3>6, <2>2 DEF VictimsInUse, VictimsDiffer
    <3> QED BY <1>p, <3>1, <3>2, <3>7 DEF VictimsOK, PoolNeverCorrupted
  <2> QED BY <2>3, <2>4
<1>13. CASE EraseVictim
  <2>1. Collecting /\ pc = "erase"
    BY <1>13 DEF EraseVictim, Collecting
  <2>2. /\ Victim \in blocks /\ Victim \in Block
        /\ gc.at \in 1 .. Len(gc.victims)
        /\ VictimsInUse /\ VictimsDiffer
        /\ (FormatRanges = {} => Full(Victim))
    BY <2>1, <1>v
  <2>3. /\ nextWrite' = [nextWrite EXCEPT ![Victim] = 0]
        /\ blocks' = blocks \ {Victim} /\ erasedIds' = erasedIds \cup {Victim}
        /\ lastFreeBlock' = lastFreeBlock /\ panic' = panic
        /\ pc' \in {"erase", "idle"}
        /\ pc' = "erase" => gc' = [gc EXCEPT !.at = @ + 1]
    BY <1>13, <2>2 DEF EraseVictim, MarkErased
  <2>4. \A b \in blocks \ {Victim} : nextWrite'[b] = nextWrite[b]
    BY <2>3, <1>t DEF TypeOK
  \* The victim is open for one channel at most.
  <2>5. \A c1, c2 \in Chan :
          lastFreeBlock[c1] = Victim /\ lastFreeBlock[c2] = Victim => c1 = c2
    <3>1. CASE PageCountToMaxPerf = 1
      BY <3>1 DEF Chan
    <3>2. CASE FormatRanges = {} /\ PagesInBlock > 1
      <4>1. nextWrite[Victim] = PagesInBlock /\ PagesInBlock \in Nat
        BY <3>2, <2>2, Constants DEF Full
      <4>2. Victim \notin blocks \cap erasedIds
        BY <3>2, <4>1 DEF OpenOK
      <4> QED BY <4>2 DEF OpenOK
    <3> QED BY <3>1, <3>2 DEF OpenBlocksSpared
  <2>6. OpenOK'
    <3>1. \A b \in blocks' \cap erasedIds' :
            /\ nextWrite'[b] <= 1
            /\ pc' = "program" /\ dest' = b => nextWrite'[b] = 0
      BY <2>3, <2>4 DEF OpenOK
    <3>2. \A c \in Chan : lastFreeBlock'[c] \in blocks' \cup erasedIds'
      BY <2>3 DEF OpenOK
    <3>3. \A c1, c2 \in Chan :
            c1 # c2 /\ lastFreeBlock'[c1] = lastFreeBlock'[c2]
              => lastFreeBlock'[c1] \in blocks' \cap erasedIds'
      BY <2>3, <2>5 DEF OpenOK
    <3> QED BY <2>3, <3>1, <3>2, <3>3 DEF OpenOK
  <2>7. ASSUME pc' = "erase"
        PROVE  VictimsInUse' /\ VictimsDiffer'
    <3>1. gc'.victims = gc.victims /\ gc'.at = gc.at + 1 /\ gc.at \in Nat
      BY <2>3, <2>7, <1>t DEF TypeOK
    <3>2. ASSUME NEW i \in 1 .. Len(gc.victims), i >= gc.at + 1
          PROVE  /\ gc.victims[i] \in blocks'
                 /\ FormatRanges = {} => Full(gc.victims[i])'
      <4>1. i # gc.at /\ Pending(i)
        BY <3>1, <3>2 DEF Pending
      <4>2. gc.victims[i] # Victim
        BY <4>1, <2>2 DEF VictimsDiffer, Victim
      <4>3. gc.victims[i] \in blocks /\ (FormatRanges = {} => Full(gc.victims[i]))
        BY <4>1, <2>2 DEF VictimsInUse
      <4> QED BY <4>2, <4>3, <2>3, <2>4, <3>1 DEF Full
    <3> QED BY <2>2, <2>7, <3>1, <3>2 DEF VictimsInUse, VictimsDiffer, Pending
  <2>8. VictimsOK'
    BY <2>3, <2>7, NoVictims DEF VictimsOK
  <2> QED BY <1>p, <2>3, <2>6, <2>8 DEF PoolNeverCorrupted
<1>14. ASSUME NEW l \in LPN, WriteCmtHit(l) PROVE SpareInv'
  <2>1. UNCHANGED <<blocks, erasedIds, nextWrite, lastFreeBlock>>
    BY <1>14 DEF WriteCmtHit
  <2>2. /\ pc' = "panic" \/ (pc' = "alloc" /\ req' # NoReq)
        /\ panic' \in {panic, "table.begin() of an empty table"}
    <3>1. CASE \A k \in LPN : table[k] = NoEntry
      BY <1>14, <3>1 DEF WriteCmtHit, Fail
    <3>2. CASE ~\A k \in LPN : table[k] = NoEntry
      <4>1. PICK k \in LPN : req' = [lpn |-> l, entry |-> k, toPAL |-> TRUE]
        BY <1>14, <3>2 DEF WriteCmtHit
      <4>2. pc' = "alloc" /\ panic' = panic
        BY <1>14, <3>2 DEF WriteCmtHit
      <4> QED BY <4>1, <4>2, Constants DEF NoReq
    <3> QED BY <3>1, <3>2
  <2> QED BY <1>q, <2>1, <2>2 DEF PoolNeverCorrupted
<1>15. ASSUME NEW l \in LPN, ReadCmtHit(l) \/ ReadTable(l) PROVE SpareInv'
  <2>1. pc' \in {"idle", "panic"} /\ panic' \in {panic, "Block is not in use"}
    BY <1>15 DEF ReadCmtHit, ReadTable, ReadPage, Fail
  <2>2. UNCHANGED <<blocks, erasedIds, nextWrite, lastFreeBlock>>
    BY <1>15 DEF ReadCmtHit, ReadTable
  <2> QED BY <1>q, <2>1, <2>2 DEF PoolNeverCorrupted
<1>16. ASSUME NEW l \in LPN, UndoCached(l) PROVE SpareInv'
  BY <1>16, <1>q DEF UndoCached, PoolNeverCorrupted
<1>17. ASSUME NEW l \in LPN, Trim(l) PROVE SpareInv'
  <2>1. pc' \in {"idle", "panic"} /\ panic' \in {panic, "Block is not in use"}
    BY <1>17 DEF Trim, Fail
  <2>2. UNCHANGED <<blocks, erasedIds, nextWrite, lastFreeBlock>>
    BY <1>17 DEF Trim
  <2> QED BY <1>q, <2>1, <2>2 DEF PoolNeverCorrupted
<1>18. ASSUME NEW r \in FormatRanges, Format(r) PROVE SpareInv'
  <2> DEFINE keys == {l \in r : table[l] # NoEntry}
             hit  == {table[l].block : l \in keys}
  <2>1. UNCHANGED <<blocks, erasedIds, nextWrite, lastFreeBlock>>
    BY <1>18 DEF Format
  <2>2. CASE hit \subseteq blocks
    <3>1. PICK list \in SortedLists(hit) : StartGC(list)
      BY <1>18, <2>2 DEF Format
    <3>2. panic' = panic /\ pc' # "program"
      BY <1>18, <2>2, <3>1 DEF Format, StartGC
    <3>3. hit \subseteq Block
      BY <2>2, <1>t DEF TypeOK
    <3> HIDE DEF hit
    <3>4. list \in Seq(hit)
      BY <3>3, SortedListsType
    <3>5. list \in Seq(Block) /\ \A i \in 1 .. Len(list) : list[i] \in blocks
      BY <3>3, <3>4, <2>2
    <3>6. VictimsOK'
      BY <1>t, <2>1, <3>1, <3>3, <3>5, SortedListsDiffer, StartGCVictims
    <3>7. OpenOK'
      BY <2>1, <3>2, OpenUnchanged
    <3> QED BY <1>p, <3>2, <3>6, <3>7 DEF PoolNeverCorrupted
  <2>3. CASE ~(hit \subseteq blocks)
    <3>1. pc' = "panic" /\ panic' = "Block is not in use"
      BY <1>18, <2>3 DEF Format, Fail
    <3> QED BY <1>q, <2>1, <3>1 DEF PoolNeverCorrupted
  <2> QED BY <2>2, <2>3
<1>19. CASE PassRequestLimit
  BY <1>19, <1>q DEF PassRequestLimit, PoolNeverCorrupted
<1>20. CASE UNCHANGED vars
  <2>1. OpenOK'
    BY <1>20 DEF vars, OpenOK
  <2>2. VictimsOK'
    BY <1>20 DEF vars, VictimsOK, VictimsInUse, VictimsDiffer, Pending, Full,
                 Collecting
  <2> QED BY <1>p, <1>20, <2>1, <2>2 DEF vars, PoolNeverCorrupted
<1>21. CASE Internal
  BY <1>21, <1>2, <1>4, <1>5, <1>7, <1>8, <1>9, <1>10, <1>11, <1>12, <1>13
     DEF Internal
<1>22. CASE Call
  BY <1>22, <1>3, <1>14, <1>15, <1>16, <1>17, <1>18, <1>19, Constants DEF Call
<1> QED BY <1>20, <1>21, <1>22 DEF Next

(***************************************************************************)
(* getLastFreeBlock() always finds the open block of its channel in use or *)
(* erased, getFreeBlock() never a free block that is in use, a collection  *)
(* never meets or erases a block that is gone, and no page is written      *)
(* twice: the panics that guard the pool cannot happen, with or without    *)
(* the CMT.                                                                *)
(***************************************************************************)
THEOREM PoolIsNeverCorrupted ==
  ASSUME SingleVictims, OpenBlocksSpared
  PROVE  Spec => []PoolNeverCorrupted
<1>1. SpareInv => PoolNeverCorrupted
  BY DEF SpareInv
<1> QED BY <1>1, InitSpareInv, NextSpareInv, PTL DEF Spec

-----------------------------------------------------------------------------
(* The mapping is right, and the FTL implements the abstract store, for    *)
(* every geometry, when the cached mapping table is off and no format is   *)
(* sent: with either of them it is not (see the runs bug_cmt_table and     *)
(* bug_format).                                                            *)

(***************************************************************************)
(* doGarbageCollection still copies pages.                                 *)
(***************************************************************************)
Copying ==
  \/ pc = "scan"
  \/ pc \in {"alloc", "program"} /\ req = NoReq

(***************************************************************************)
(* What a collection relies on: its victims are full blocks in use, so     *)
(* that getLastFreeBlock() never returns one of them as the target of a    *)
(* copy; the pages behind the cursor are not valid any more; and nothing   *)
(* valid is left in any victim when the erases start.                      *)
(***************************************************************************)
CollectionOK ==
  /\ req # NoReq => req.entry = req.lpn /\ table[req.lpn] # NoEntry
  /\ Copying => \A i \in 1 .. Len(gc.victims) :
                  gc.victims[i] \in blocks /\ Full(gc.victims[i])
  /\ Copying => \A i \in 1 .. gc.at - 1, p \in Page :
                  content[gc.victims[i]][p] \notin LPN
  /\ Copying => \A p \in Page : p < gc.page => content[Victim][p] \notin LPN
  /\ pc = "erase" => \A i \in 1 .. Len(gc.victims), p \in Page :
                       content[gc.victims[i]][p] \notin LPN

MapInv == PoolInv /\ MappingConsistent /\ CollectionOK

(***************************************************************************)
(* The configuration these theorems are about.                              *)
(***************************************************************************)
NoCmtNoFormat == EnableCMT = FALSE /\ FormatRanges = {}

(***************************************************************************)
(* A place in the flash is no other entry of the table.                    *)
(***************************************************************************)
LEMMA LocFacts ==
  /\ \A b \in Block, p \in Page :
       /\ Loc(b, p) \in Mapping /\ Loc(b, p) # NoEntry /\ Loc(b, p) # FreshEntry
       /\ Loc(b, p).block = b /\ Loc(b, p).page = p
       /\ InRange(Loc(b, p))
  /\ NoEntry \in Mapping /\ NoEntry.block \notin Block /\ ~InRange(NoEntry)
  /\ FreshEntry \in Mapping /\ FreshEntry.block \notin Block
  /\ FreshEntry # NoEntry
  /\ \A m \in Mapping : m.block \in Block =>
       /\ m.page \in Page /\ InRange(m) /\ m = Loc(m.block, m.page)
BY Constants DEF Loc, NoEntry, FreshEntry, Mapping, InRange

(***************************************************************************)
(* Steps that leave the mapping and the pages alone.                       *)
(***************************************************************************)
LEMMA MappingUnchanged ==
  ASSUME MappingConsistent, UNCHANGED <<content, table, req>>,
         blocks \subseteq blocks'
  PROVE  MappingConsistent'
BY DEF MappingConsistent, InFlight

(***************************************************************************)
(* Outside of a call there is nothing to know about collections.           *)
(***************************************************************************)
LEMMA QuietOK ==
  ASSUME CollectionOK, req' = NoReq,
         pc' \notin {"alloc", "program", "scan", "erase"}
  PROVE  CollectionOK'
BY DEF CollectionOK, Copying

(***************************************************************************)
(* The table starts empty.                                                 *)
(***************************************************************************)
LEMMA InitMapInv == Init => MapInv
<1> SUFFICES ASSUME Init PROVE MapInv
  OBVIOUS
<1>1. PoolInv
  BY InitPoolInv
<1>2. MappingConsistent
  <2>1. \A b \in Block, p \in Page : content[b][p] = ErasedPage
    BY DEF Init
  <2>2. \A l \in LPN : l # ErasedPage /\ table[l] = NoEntry
    BY Constants DEF Init, ErasedPage
  <2> QED BY <2>1, <2>2 DEF MappingConsistent
<1>3. CollectionOK
  BY DEF Init, CollectionOK, Copying
<1> QED BY <1>1, <1>2, <1>3 DEF MapInv

(***************************************************************************)
(* The first part of a write: the LPN gets in flight and no page holds it. *)
(***************************************************************************)
LEMMA LookupKeepsMapping ==
  ASSUME MapInv, NEW l \in LPN, NEW toPAL \in BOOLEAN, req = NoReq,
         WriteLookup(l, toPAL)
  PROVE  MappingConsistent' /\ CollectionOK'
<1> USE DEF MapInv, PoolInv, TypeInv
<1>1. /\ InvalidateOld(table[l]) /\ pc' = "alloc" /\ blocks' = blocks
      /\ table' = [table EXCEPT ![l] = IF @ = NoEntry THEN FreshEntry ELSE @]
      /\ req' = [lpn |-> l, entry |-> l, toPAL |-> toPAL]
  BY DEF WriteLookup, poolVars
<1>2. InFlight = {} /\ InFlight' = {l} /\ req' # NoReq
  BY <1>1, Constants DEF InFlight, NoReq
<1>3. table[l] \in Mapping /\ DeadPage \notin LPN
  BY Constants DEF TypeOK, DeadPage
<1>4. /\ \A b \in Block, p \in Page : content'[b][p] # l
      /\ \A b \in Block, p \in Page, k \in LPN \ {l} :
           content'[b][p] = k <=> content[b][p] = k
  <2>1. CASE table[l] = NoEntry
    <3>1. content' = content
      BY <2>1, <1>1, LocFacts DEF InvalidateOld
    <3>2. \A b \in Block, p \in Page : content[b][p] # l
      BY <2>1, LocFacts DEF MappingConsistent
    <3> QED BY <3>1, <3>2
  <2>2. CASE table[l] # NoEntry
    <3> DEFINE m == table[l]
    <3>1. /\ m.block \in blocks /\ m.block \in Block /\ m.page \in Page
          /\ content[m.block][m.page] = l /\ InRange(m)
      BY <2>2, <1>2, <1>3, LocFacts DEF MappingConsistent, TypeOK
    <3>2. content' = [content EXCEPT ![m.block][m.page] = DeadPage]
      BY <3>1, <1>1 DEF InvalidateOld, Invalidated
    <3>3. \A b \in Block, p \in Page :
            content[b][p] = l => b = m.block /\ p = m.page
      BY LocFacts DEF MappingConsistent
    <3> HIDE DEF m
    <3>4. \A b \in Block, p \in Page :
            content'[b][p] = IF b = m.block /\ p = m.page THEN DeadPage
                             ELSE content[b][p]
      BY <3>1, <3>2 DEF TypeOK
    <3> QED BY <3>1, <3>3, <3>4, <1>3
  <2> QED BY <2>1, <2>2
<1>5. \A k \in LPN \ {l} : table'[k] = table[k]
  BY <1>1 DEF TypeOK
<1>6. MappingConsistent'
  <2> SUFFICES ASSUME NEW k \in LPN
               PROVE  /\ k \notin InFlight' /\ table'[k] # NoEntry
                           => /\ table'[k].block \in blocks'
                              /\ content'[table'[k].block][table'[k].page] = k
                      /\ \A b \in Block, p \in Page :
                           content'[b][p] = k =>
                             k \notin InFlight' /\ table'[k] = Loc(b, p)
    BY DEF MappingConsistent
  <2>1. CASE k = l
    BY <2>1, <1>2, <1>4
  <2>2. CASE k # l
    <3>1. table[k] # NoEntry => /\ table[k].block \in blocks
                                /\ table[k].block \in Block
                                /\ table[k].page \in Page
                                /\ content[table[k].block][table[k].page] = k
      BY <1>2, LocFacts DEF MappingConsistent, TypeOK
    <3>2. \A b \in Block, p \in Page : content[b][p] = k => table[k] = Loc(b, p)
      BY DEF MappingConsistent
    <3> QED BY <2>2, <3>1, <3>2, <1>1, <1>2, <1>4, <1>5
  <2> QED BY <2>1, <2>2
<1>7. CollectionOK'
  <2>1. table'[l] # NoEntry
    BY <1>1, LocFacts DEF TypeOK
  <2> QED BY <1>1, <1>2, <2>1 DEF CollectionOK, Copying
<1> QED BY <1>6, <1>7

(***************************************************************************)
(* The page of LPN l is written to page m of a block in use, where nothing *)
(* was, and its entry follows.                                             *)
(***************************************************************************)
LEMMA ProgramKeepsMapping ==
  ASSUME TypeOK, MappingConsistent, NEW l \in LPN,
         dest \in blocks, NextPage \in Page,
         NEW c \in [Block -> [Page -> Content]],
         InFlight \subseteq {l},
         \A b \in Block, p \in Page : c[b][p] # l,
         \A b \in Block, p \in Page, k \in LPN \ {l} :
           c[b][p] = k <=> content[b][p] = k,
         content[dest][NextPage] = ErasedPage,
         content' = [c EXCEPT ![dest][NextPage] = l],
         table' = [table EXCEPT ![l] = Loc(dest, NextPage)],
         blocks' = blocks, req' = NoReq
  PROVE  MappingConsistent'
<1>1. dest \in Block /\ InFlight' = {} /\ ErasedPage \notin LPN
  BY Constants DEF TypeOK, InFlight, ErasedPage
<1>2. \A b \in Block, p \in Page :
        content'[b][p] = IF b = dest /\ p = NextPage THEN l ELSE c[b][p]
  BY <1>1
<1>3. \A k \in LPN : table'[k] = IF k = l THEN Loc(dest, NextPage) ELSE table[k]
  BY DEF TypeOK
<1> SUFFICES ASSUME NEW k \in LPN
             PROVE  /\ table'[k] # NoEntry
                         => /\ table'[k].block \in blocks'
                            /\ content'[table'[k].block][table'[k].page] = k
                    /\ \A b \in Block, p \in Page :
                         content'[b][p] = k => table'[k] = Loc(b, p)
  BY <1>1 DEF MappingConsistent
<1>4. CASE k = l
  BY <1>1, <1>2, <1>3, <1>4, LocFacts
<1>5. CASE k # l
  <2>1. table[k] # NoEntry => /\ table[k].block \in blocks
                              /\ table[k].block \in Block
                              /\ table[k].page \in Page
                              /\ content[table[k].block][table[k].page] = k
    BY <1>5, LocFacts DEF MappingConsistent, TypeOK
  <2>2. \A b \in Block, p \in Page : content[b][p] = k => table[k] = Loc(b, p)
    BY DEF MappingConsistent
  <2>3. ASSUME table'[k] # NoEntry
        PROVE  /\ table'[k].block \in blocks'
               /\ content'[table'[k].block][table'[k].page] = k
    BY <2>1, <2>3, <1>1, <1>2, <1>3, <1>5
  <2>4. ASSUME NEW b \in Block, NEW p \in Page, content'[b][p] = k
        PROVE  table'[k] = Loc(b, p)
    BY <2>2, <2>4, <1>2, <1>3, <1>5
  <2> QED BY <2>3, <2>4
<1> QED BY <1>4, <1>5

(***************************************************************************)
(* Every step keeps the mapping, with one step of the proof per action.    *)
(***************************************************************************)
LEMMA NextMapInv ==
  ASSUME NoCmtNoFormat
  PROVE  MapInv /\ [Next]_vars => MapInv'
<1> SUFFICES ASSUME MapInv, [Next]_vars PROVE MapInv'
  OBVIOUS
<1> USE DEF MapInv, PoolInv, TypeInv, blockVars, poolVars, openVars, cmtVars
<1>p. PoolInv'
  BY NextPoolInv
<1>1. ASSUME NEW l \in LPN, NEW toPAL \in BOOLEAN, pc \in {"idle", "fill"},
             WriteLookup(l, toPAL)
      PROVE  MapInv'
  <2>1. req = NoReq
    BY <1>1 DEF ControlOK
  <2> QED BY <1>p, <1>1, <2>1, LookupKeepsMapping
<1>2. ASSUME NEW l \in LPN, FillWrite(l) PROVE MapInv'
  <2>1. pc = "fill" /\ WriteLookup(l, FALSE)
    BY <1>2 DEF FillWrite
  <2> QED BY <1>1, <2>1
<1>3. ASSUME NEW l \in LPN, Write(l) PROVE MapInv'
  <2>1. pc = "idle" /\ WriteLookup(l, TRUE)
    BY <1>3 DEF Write
  <2> QED BY <1>1, <2>1
<1>4. CASE FillDone
  <2>1. MappingConsistent'
    BY <1>4, MappingUnchanged DEF FillDone
  <2>2. CollectionOK'
    BY <1>4, QuietOK DEF FillDone, ControlOK
  <2> QED BY <1>p, <2>1, <2>2
<1>5. ASSUME pc = "alloc", TurnChannel, blocks \subseteq blocks',
             pc' \in {"program", "panic"}
      PROVE  MapInv'
  <2>1. UNCHANGED <<content, table, req, gc, nextWrite>>
    BY <1>5 DEF TurnChannel
  <2>2. MappingConsistent'
    BY <1>5, <2>1, MappingUnchanged
  <2>3. CollectionOK'
    BY <1>5, <2>1 DEF CollectionOK, Copying, Full, Victim
  <2> QED BY <1>p, <2>2, <2>3
<1>6. CASE UseOpenBlock
  BY <1>5, <1>6 DEF UseOpenBlock, Fail
<1>7. CASE ReplaceErasedBlock \/ ReplaceFullBlock
  <2>1. pc = "alloc" /\ TurnChannel /\ GetFreeBlock(NextChannel)
    BY <1>7 DEF ReplaceErasedBlock, ReplaceFullBlock
  <2>2. blocks \subseteq blocks' /\ pc' \in {"program", "panic"}
    BY <2>1 DEF GetFreeBlock, Fail
  <2> QED BY <1>5, <2>1, <2>2
<1>w. ASSUME pc = "program"
      PROVE  /\ Writable /\ NextPage \in Page /\ dest \in blocks /\ dest \in Block
             /\ ~Full(dest) /\ content[dest][NextPage] = ErasedPage
             /\ ErasedPage \notin LPN
  <2>1. ErasedPage \notin LPN
    BY Constants DEF ErasedPage
  <2> QED BY <1>w, <2>1, ProgramTarget
<1>8. CASE WritePage
  <2> DEFINE l == req.lpn
  <2>1. /\ pc = "program" /\ req # NoReq /\ l \in LPN /\ req.entry = l
        /\ req' = NoReq /\ blocks' = blocks
    BY <1>8 DEF WritePage, TypeOK, CollectionOK
  <2>2. /\ content' = [content EXCEPT ![dest][NextPage] = l]
        /\ table' = [table EXCEPT ![l] = Loc(dest, NextPage)]
        /\ AfterWrite
    BY <1>8, <2>1, <1>w DEF WritePage, Programmed
  <2>3. InFlight = {l}
    BY <2>1 DEF InFlight
  <2>4. \A b \in Block, p \in Page : content[b][p] # l
    BY <2>1, <2>3 DEF MappingConsistent
  <2>5. content \in [Block -> [Page -> Content]]
    BY DEF TypeOK
  <2> HIDE DEF l
  <2>6. MappingConsistent'
    BY <2>1, <2>2, <2>3, <2>4, <2>5, <1>w, ProgramKeepsMapping
  <2>7. pc' \in {"panic", "select", "idle", "fill"}
    BY <2>2 DEF AfterWrite, Fail
  <2>8. CollectionOK'
    BY <2>1, <2>7, QuietOK
  <2> QED BY <1>p, <2>6, <2>8
<1>9. CASE SelectVictimBlock
  <2>1. PICK list \in VictimLists : StartGC(list)
    BY <1>9 DEF SelectVictimBlock
  <2>2. list \in Seq(Candidates)
    BY VictimListsType
  <2>3. UNCHANGED <<content, table, req, blocks, nextWrite>> /\ req = NoReq
    BY <1>9 DEF SelectVictimBlock, ControlOK
  <2>4. MappingConsistent'
    BY <2>3, MappingUnchanged
  <2>5. CASE gcStopped \/ list = <<>>
    <3>1. pc' = "idle"
      BY <2>1, <2>5 DEF StartGC
    <3> QED BY <1>p, <2>3, <2>4, <3>1, QuietOK
  <2>6. CASE ~(gcStopped \/ list = <<>>)
    <3>1. pc' = "scan" /\ gc'.victims = list /\ gc'.at = 1 /\ gc'.page = 0
      BY <2>1, <2>6 DEF StartGC
    <3>2. \A i \in 1 .. Len(list) : list[i] \in blocks /\ Full(list[i])
      BY <2>2 DEF Candidates
    <3>3. \A p \in Page : ~(p < 0)
      BY Constants DEF Page
    <3>4. \A i \in 1 .. Len(list) : Full(list[i])'
      BY <2>3, <3>1, <3>2 DEF Full
    <3>5. CollectionOK'
      BY <2>3, <3>1, <3>2, <3>3 DEF CollectionOK, Copying, Full
    <3> QED BY <1>p, <2>4, <3>5
  <2> QED BY <2>5, <2>6
<1>10. CASE ScanVictim
  <2>1. /\ pc = "scan" /\ req = NoReq /\ Copying /\ Collecting
        /\ UNCHANGED <<content, table, req, blocks, nextWrite>>
    BY <1>10 DEF ScanVictim, ControlOK, Copying, Collecting
  <2>2. /\ gc.at \in 1 .. Len(gc.victims) /\ Len(gc.victims) \in Nat
        /\ gc = [victims |-> gc.victims, at |-> gc.at, page |-> gc.page]
        /\ gc.page \in Nat
    BY <2>1 DEF ControlOK, TypeOK
  <2>3. MappingConsistent'
    BY <2>1, MappingUnchanged
  <2>4. /\ \A i \in 1 .. Len(gc.victims) :
             gc.victims[i] \in blocks /\ Full(gc.victims[i])
        /\ \A i \in 1 .. gc.at - 1, p \in Page :
             content[gc.victims[i]][p] \notin LPN
        /\ \A p \in Page : p < gc.page => content[Victim][p] \notin LPN
    BY <2>1 DEF CollectionOK
  <2>5. Victim \in blocks /\ Victim = gc.victims[gc.at]
    BY <2>2, <2>4 DEF Victim
  <2>6. Page \subseteq Nat
    BY Constants DEF Page
  <2>7. CASE PagesLeft # {}
    <3>1. gc' = [gc EXCEPT !.page = Min(PagesLeft)] /\ pc' = "alloc"
      BY <1>10, <2>5, <2>7 DEF ScanVictim
    <3>2. gc'.victims = gc.victims /\ gc'.at = gc.at /\ gc'.page = Min(PagesLeft)
          /\ Victim' = Victim
      BY <3>1, <2>2 DEF Victim
    <3>3. PagesLeft \subseteq Nat /\ PagesLeft \subseteq Page
      BY <2>6 DEF PagesLeft, ValidPages
    <3>4. Min(PagesLeft) \in Nat /\ \A p \in PagesLeft : Min(PagesLeft) <= p
      BY <2>7, <3>3, MinLemma
    <3>5. ASSUME NEW p \in Page, p < Min(PagesLeft)
          PROVE  content[Victim][p] \notin LPN
      <4>1. p \notin PagesLeft
        BY <3>3, <3>4, <3>5, <2>6
      <4>2. p \in Nat
        BY <2>6
      <4> QED BY <4>1, <4>2, <2>2, <2>4 DEF PagesLeft, ValidPages
    <3>6. CollectionOK'
      BY <2>1, <2>4, <3>1, <3>2, <3>5 DEF CollectionOK, Copying, Full
    <3> QED BY <1>p, <2>3, <3>6
  <2>8. CASE PagesLeft = {}
    <3>1. \A p \in Page : content[Victim][p] \notin LPN
      BY <2>2, <2>4, <2>6, <2>8 DEF PagesLeft, ValidPages
    <3>2. CASE gc.at < Len(gc.victims)
      <4>1. gc' = NextVictim /\ pc' = "scan"
        BY <1>10, <2>5, <2>8, <3>2 DEF ScanVictim
      <4>2. gc'.victims = gc.victims /\ gc'.at = gc.at + 1 /\ gc'.page = 0
        BY <4>1, <2>2 DEF NextVictim
      <4>3. \A i \in 1 .. gc'.at - 1, p \in Page :
              content[gc.victims[i]][p] \notin LPN
        <5>1. \A i \in 1 .. gc.at : i \in 1 .. gc.at - 1 \/ i = gc.at
          BY <2>2
        <5>2. gc'.at - 1 = gc.at
          BY <2>2, <4>2
        <5> QED BY <2>4, <2>5, <3>1, <5>1, <5>2
      <4>4. \A p \in Page : ~(p < 0)
        BY <2>6
      <4>5. CollectionOK'
        BY <2>1, <2>4, <4>1, <4>2, <4>3, <4>4 DEF CollectionOK, Copying, Full
      <4> QED BY <1>p, <2>3, <4>5
    <3>3. CASE ~(gc.at < Len(gc.victims))
      <4>1. gc' = [gc EXCEPT !.at = 1, !.page = 0] /\ pc' = "erase"
        BY <1>10, <2>5, <2>8, <3>3 DEF ScanVictim
      <4>2. gc'.victims = gc.victims
        BY <4>1, <2>2
      <4>3. \A i \in 1 .. Len(gc.victims), p \in Page :
              content[gc.victims[i]][p] \notin LPN
        BY <2>2, <2>4, <2>5, <3>1, <3>3
      <4>4. CollectionOK'
        BY <2>1, <4>1, <4>2, <4>3 DEF CollectionOK, Copying
      <4> QED BY <1>p, <2>3, <4>4
    <3> QED BY <3>2, <3>3
  <2> QED BY <2>7, <2>8
<1>11. CASE CopyPage
  <2> DEFINE l == content[Victim][gc.page]
             c == Invalidated(content, Loc(Victim, gc.page))
  <2>1. /\ pc = "program" /\ req = NoReq /\ req' = NoReq /\ Copying /\ Collecting
        /\ blocks' = blocks /\ InFlight = {}
    BY <1>11 DEF CopyPage, Copying, Collecting, InFlight
  <2>2. Victim \in Block /\ gc.page \in Page /\ l \in LPN
    BY <2>1, VictimType DEF ControlOK, StepOK
  <2>3. table[l] = Loc(Victim, gc.page) /\ table[l] # NoEntry
    BY <2>2, LocFacts DEF MappingConsistent
  <2>4. /\ content' = [c EXCEPT ![dest][NextPage] = l]
        /\ nextWrite' = [nextWrite EXCEPT ![dest] = @ + 1]
        /\ table' = [table EXCEPT ![l] = Loc(dest, NextPage)]
        /\ gc' = [gc EXCEPT !.page = @ + 1]
        /\ pc' = "scan"
    BY <1>11, <2>1, <2>3, <1>w DEF CopyPage, Programmed
  <2>5. c = [content EXCEPT ![Victim][gc.page] = DeadPage]
    BY <2>2, LocFacts DEF Invalidated
  <2>6. DeadPage \in Content /\ DeadPage \notin LPN
    BY Constants DEF Content, DeadPage
  <2>l. l = content[Victim][gc.page]
    OBVIOUS
  <2> HIDE DEF c, l
  <2>7. /\ c \in [Block -> [Page -> Content]]
        /\ \A b \in Block, p \in Page :
             c[b][p] = IF b = Victim /\ p = gc.page THEN DeadPage ELSE content[b][p]
    BY <2>2, <2>5, <2>6 DEF TypeOK
  <2>8. \A b \in Block, p \in Page : content[b][p] = l =>
          b = Victim /\ p = gc.page
    BY <2>2, <2>3, LocFacts DEF MappingConsistent
  <2>9. /\ \A b \in Block, p \in Page : c[b][p] # l
        /\ \A b \in Block, p \in Page, k \in LPN \ {l} :
             c[b][p] = k <=> content[b][p] = k
    BY <2>2, <2>6, <2>7, <2>8, <2>l
  <2>10. MappingConsistent'
    <3>1. TypeOK /\ MappingConsistent /\ InFlight \subseteq {l}
      BY <2>1
    <3> HIDE DEF MapInv, PoolInv, TypeInv
    <3>2. /\ dest \in blocks /\ NextPage \in Page /\ l \in LPN
          /\ content[dest][NextPage] = ErasedPage
          /\ blocks' = blocks /\ req' = NoReq
          /\ content' = [c EXCEPT ![dest][NextPage] = l]
          /\ table' = [table EXCEPT ![l] = Loc(dest, NextPage)]
          /\ c \in [Block -> [Page -> Content]]
      BY <2>1, <2>2, <2>4, <2>7, <1>w
    <3> QED BY <3>1, <3>2, <2>9, ProgramKeepsMapping
  <2>11. /\ gc.at \in 1 .. Len(gc.victims) /\ gc.victims \in Seq(Block)
         /\ gc'.victims = gc.victims /\ gc'.at = gc.at /\ gc'.page = gc.page + 1
    BY <2>1, <2>4 DEF ControlOK, TypeOK
  <2>12. /\ \A i \in 1 .. Len(gc.victims) :
              gc.victims[i] \in blocks /\ Full(gc.victims[i])
         /\ \A i \in 1 .. gc.at - 1, p \in Page :
              content[gc.victims[i]][p] \notin LPN
         /\ \A p \in Page : p < gc.page => content[Victim][p] \notin LPN
    BY <2>1 DEF CollectionOK
  <2>13. \A i \in 1 .. Len(gc.victims) :
           gc.victims[i] # dest /\ gc.victims[i] \in Block
    BY <2>11, <2>12, <1>w, <2>1
  <2>14. \A i \in 1 .. Len(gc.victims) : nextWrite'[gc.victims[i]] = PagesInBlock
    BY <2>4, <2>12, <2>13, <1>w, <2>1 DEF Full, TypeOK
  <2>15. \A i \in 1 .. Len(gc.victims), p \in Page :
           content'[gc.victims[i]][p] =
             IF gc.victims[i] = Victim /\ p = gc.page THEN DeadPage
             ELSE content[gc.victims[i]][p]
    BY <2>1, <2>4, <2>7, <2>13, <1>w
  <2>16. Victim = gc.victims[gc.at] /\ Victim' = Victim
    BY <2>11 DEF Victim
  <2>17. \A p \in Page : p < gc.page + 1 => p < gc.page \/ p = gc.page
    BY <2>2, Constants DEF Page
  <2>18. \A i \in 1 .. gc.at - 1 : i \in 1 .. Len(gc.victims)
    BY <2>11
  <2>19. \A p \in Page : p < gc'.page => content'[Victim][p] \notin LPN
    BY <2>6, <2>11, <2>12, <2>15, <2>16, <2>17
  <2>20. \A i \in 1 .. gc.at - 1, p \in Page :
           content'[gc.victims[i]][p] \notin LPN
    BY <2>6, <2>12, <2>15, <2>18
  <2>21. CollectionOK'
    BY <2>1, <2>4, <2>11, <2>12, <2>14, <2>16, <2>19, <2>20
       DEF CollectionOK, Copying, Full
  <2> QED BY <1>p, <2>10, <2>21
<1>12. CASE EraseVictim
  <2>1. /\ pc = "erase" /\ req = NoReq /\ req' = NoReq /\ table' = table
        /\ Collecting /\ InFlight = {} /\ InFlight' = {}
    BY <1>12 DEF EraseVictim, ControlOK, Collecting, InFlight
  <2>2. /\ gc.at \in 1 .. Len(gc.victims) /\ gc.victims \in Seq(Block)
        /\ Victim = gc.victims[gc.at] /\ Victim \in Block
        /\ \A i \in 1 .. Len(gc.victims), p \in Page :
             content[gc.victims[i]][p] \notin LPN
    BY <2>1, VictimType DEF ControlOK, TypeOK, CollectionOK, Victim
  <2>3. CASE Victim \notin blocks
    <3>1. UNCHANGED <<content, table, req, blocks>> /\ pc' = "panic"
      BY <1>12, <2>3 DEF EraseVictim, Fail
    <3> QED BY <1>p, <2>1, <3>1, MappingUnchanged, QuietOK
  <2>4. CASE Victim \in blocks
    <3>1. /\ content' = [content EXCEPT ![Victim] = [p \in Page |-> ErasedPage]]
          /\ blocks' = blocks \ {Victim}
          /\ IF gc.at < Len(gc.victims)
             THEN gc' = [gc EXCEPT !.at = @ + 1] /\ pc' = "erase"
             ELSE gc' = NoGC /\ pc' = "idle"
      BY <1>12, <2>4 DEF EraseVictim
    <3>2. ErasedPage \notin LPN
      BY Constants DEF ErasedPage
    <3>3. \A b \in Block, p \in Page :
            content'[b][p] = IF b = Victim THEN ErasedPage ELSE content[b][p]
      BY <3>1, <2>2 DEF TypeOK
    <3>4. MappingConsistent'
      <4> SUFFICES ASSUME NEW k \in LPN
                   PROVE  /\ table[k] # NoEntry
                               => /\ table[k].block \in blocks'
                                  /\ content'[table[k].block][table[k].page] = k
                          /\ \A b \in Block, p \in Page :
                               content'[b][p] = k => table[k] = Loc(b, p)
        BY <2>1 DEF MappingConsistent
      <4>1. table[k] # NoEntry => /\ table[k].block \in blocks
                                  /\ table[k].block \in Block
                                  /\ table[k].page \in Page
                                  /\ content[table[k].block][table[k].page] = k
        BY <2>1, LocFacts DEF MappingConsistent, TypeOK
      <4>2. table[k] # NoEntry => table[k].block # Victim
        BY <4>1, <2>2
      <4>3. \A b \in Block, p \in Page : content[b][p] = k => table[k] = Loc(b, p)
        BY DEF MappingConsistent
      <4> QED BY <4>1, <4>2, <4>3, <3>1, <3>2, <3>3
    <3>5. CASE gc.at < Len(gc.victims)
      <4>1. pc' = "erase" /\ gc'.victims = gc.victims
        BY <3>1, <3>5 DEF TypeOK
      <4>2. \A i \in 1 .. Len(gc.victims), p \in Page :
              content'[gc.victims[i]][p] \notin LPN
        BY <2>2, <3>2, <3>3
      <4>3. CollectionOK'
        BY <2>1, <4>1, <4>2 DEF CollectionOK, Copying
      <4> QED BY <1>p, <3>4, <4>3
    <3>6. CASE ~(gc.at < Len(gc.victims))
      <4>1. pc' = "idle"
        BY <3>1, <3>6
      <4> QED BY <1>p, <2>1, <3>4, <4>1, QuietOK
    <3> QED BY <3>5, <3>6
  <2> QED BY <2>3, <2>4
<1>13. ASSUME NEW l \in LPN, WriteCmtHit(l) \/ ReadCmtHit(l) PROVE MapInv'
  BY <1>13 DEF WriteCmtHit, ReadCmtHit, NoCmtNoFormat
<1>14. ASSUME NEW l \in LPN, ReadTable(l) \/ UndoCached(l) PROVE MapInv'
  <2>1. /\ UNCHANGED <<content, table, req, blocks>> /\ req = NoReq
        /\ pc' \in {"idle", "panic"}
    BY <1>14 DEF ReadTable, UndoCached, ReadPage, Fail, ControlOK
  <2> QED BY <1>p, <2>1, MappingUnchanged, QuietOK
<1>15. ASSUME NEW l \in LPN, Trim(l) PROVE MapInv'
  <2> DEFINE m == table[l]
  <2>1. /\ pc = "idle" /\ req = NoReq /\ req' = NoReq /\ blocks' = blocks
        /\ InFlight = {} /\ InFlight' = {} /\ m # NoEntry
        /\ pc' \in {"idle", "panic"}
    BY <1>15 DEF Trim, ControlOK, InFlight, Fail
  <2>2. /\ m.block \in blocks /\ m.block \in Block /\ m.page \in Page
        /\ content[m.block][m.page] = l
    BY <2>1, LocFacts DEF MappingConsistent, TypeOK
  <2>3. /\ content' = [content EXCEPT ![m.block][m.page] = DeadPage]
        /\ table' = [table EXCEPT ![l] = NoEntry]
    BY <1>15, <2>2 DEF Trim, Invalidated
  <2>4. \A b \in Block, p \in Page :
          content[b][p] = l => b = m.block /\ p = m.page
    BY LocFacts DEF MappingConsistent
  <2> HIDE DEF m
  <2>5. \A b \in Block, p \in Page :
          content'[b][p] = IF b = m.block /\ p = m.page THEN DeadPage
                           ELSE content[b][p]
    BY <2>2, <2>3 DEF TypeOK
  <2>6. \A k \in LPN : table'[k] = IF k = l THEN NoEntry ELSE table[k]
    BY <2>3 DEF TypeOK
  <2>7. DeadPage \notin LPN
    BY Constants DEF DeadPage
  <2>8. MappingConsistent'
    <3> SUFFICES ASSUME NEW k \in LPN
                 PROVE  /\ table'[k] # NoEntry
                             => /\ table'[k].block \in blocks
                                /\ content'[table'[k].block][table'[k].page] = k
                        /\ \A b \in Block, p \in Page :
                             content'[b][p] = k => table'[k] = Loc(b, p)
      BY <2>1 DEF MappingConsistent
    <3>1. table[k] # NoEntry => /\ table[k].block \in blocks
                                /\ table[k].block \in Block
                                /\ table[k].page \in Page
                                /\ content[table[k].block][table[k].page] = k
      BY <2>1, LocFacts DEF MappingConsistent, TypeOK
    <3>2. \A b \in Block, p \in Page : content[b][p] = k => table[k] = Loc(b, p)
      BY DEF MappingConsistent
    <3> QED BY <3>1, <3>2, <2>2, <2>4, <2>5, <2>6, <2>7
  <2>9. CollectionOK'
    BY <2>1, QuietOK
  <2> QED BY <1>p, <2>8, <2>9
<1>16. CASE PassRequestLimit
  <2>1. /\ UNCHANGED <<content, table, req, blocks>> /\ req = NoReq
        /\ pc' = "idle"
    BY <1>16 DEF PassRequestLimit, ControlOK
  <2> QED BY <1>p, <2>1, MappingUnchanged, QuietOK
<1>17. CASE UNCHANGED vars
  <2>1. MappingConsistent'
    BY <1>17, MappingUnchanged DEF vars
  <2>2. CollectionOK'
    BY <1>17 DEF vars, CollectionOK, Copying, Full, Victim
  <2> QED BY <1>p, <2>1, <2>2
<1>18. CASE Internal
  BY <1>18, <1>2, <1>4, <1>6, <1>7, <1>8, <1>9, <1>10, <1>11, <1>12 DEF Internal
<1>19. CASE Call
  BY <1>19, <1>3, <1>13, <1>14, <1>15, <1>16, Constants DEF Call, NoCmtNoFormat
<1> QED BY <1>17, <1>18, <1>19 DEF Next

(***************************************************************************)
(* Table and flash agree in every state, for every geometry: no LPN has    *)
(* two live copies and no entry leads to dead or erased flash, not even in *)
(* the middle of a collection.                                             *)
(***************************************************************************)
THEOREM MappingIsConsistent ==
  ASSUME NoCmtNoFormat
  PROVE  Spec => []MappingConsistent
<1>1. MapInv => MappingConsistent
  BY DEF MapInv
<1> QED BY <1>1, InitMapInv, NextMapInv, PTL DEF Spec

(***************************************************************************)
(* eraseInternal is never called for a block that still holds a valid      *)
(* page: a collection loses no data.                                       *)
(***************************************************************************)
THEOREM CollectionLosesNothing ==
  ASSUME NoCmtNoFormat
  PROVE  Spec => []NoValidPageErased
<1>1. MapInv => NoValidPageErased
  <2> SUFFICES ASSUME MapInv, pc = "erase" PROVE ValidPages(Victim) = {}
    BY DEF NoValidPageErased
  <2>1. gc.at \in 1 .. Len(gc.victims)
    BY DEF MapInv, PoolInv, TypeInv, ControlOK, Collecting
  <2> QED BY <2>1 DEF MapInv, CollectionOK, ValidPages, Victim
<1> QED BY <1>1, InitMapInv, NextMapInv, PTL DEF Spec

(***************************************************************************)
(* The live pages are those the table has an entry for.                    *)
(***************************************************************************)
LiveMapped == LivePages = {l \in LPN : table[l] # NoEntry}

(***************************************************************************)
(* The pages that can be read are those the table has an entry for.        *)
(***************************************************************************)
LEMMA LiveIsMapped == MapInv => LiveMapped
<1> SUFFICES ASSUME MapInv PROVE LivePages = {l \in LPN : table[l] # NoEntry}
  BY DEF LiveMapped
<1> USE DEF MapInv, PoolInv, TypeInv
<1>1. ASSUME NEW l \in LivePages PROVE l \in LPN /\ table[l] # NoEntry
  <2>1. CASE l \in InFlight
    BY <2>1 DEF InFlight, CollectionOK, TypeOK
  <2>2. CASE l \notin InFlight
    <3>1. l \in LPN /\ \E b \in blocks, p \in Page : content[b][p] = l
      BY <1>1, <2>2 DEF LivePages
    <3>2. PICK b \in blocks, p \in Page : content[b][p] = l
      BY <3>1
    <3>3. b \in Block
      BY DEF TypeOK
    <3> QED BY <3>1, <3>2, <3>3, LocFacts DEF MappingConsistent
  <2> QED BY <2>1, <2>2
<1>2. ASSUME NEW l \in LPN, table[l] # NoEntry PROVE l \in LivePages
  <2>1. CASE l \in InFlight
    BY <2>1 DEF LivePages
  <2>2. CASE l \notin InFlight
    <3>1. /\ table[l].block \in blocks /\ table[l] \in Mapping
          /\ content[table[l].block][table[l].page] = l
      BY <1>2, <2>2 DEF MappingConsistent, TypeOK
    <3>2. table[l].page \in Page
      BY <3>1, LocFacts DEF TypeOK
    <3> QED BY <3>1, <3>2 DEF LivePages
  <2> QED BY <2>1, <2>2
<1> QED BY <1>1, <1>2

(***************************************************************************)
(* A step of the FTL is a write, a trim or a stuttering step of the store. *)
(***************************************************************************)
LEMMA NextIsStoreStep ==
  ASSUME NoCmtNoFormat
  PROVE  MapInv /\ LiveMapped /\ LiveMapped' /\ [Next]_vars
           => [Store!StoreNext]_<<LivePages, Ready>>
<1> SUFFICES ASSUME MapInv, LiveMapped, LiveMapped', [Next]_vars
             PROVE  Store!StoreNext
  OBVIOUS
<1>0. ASSUME LivePages' = LivePages PROVE Store!StoreNext
  BY <1>0 DEF Store!StoreNext, Store!StoreWork, Ready
<1> USE DEF blockVars, poolVars, openVars, cmtVars
<1>1. /\ LivePages = {l \in LPN : table[l] # NoEntry}
      /\ LivePages' = {l \in LPN : table'[l] # NoEntry}
  BY DEF LiveMapped
<1>2. table \in [LPN -> Mapping]
  BY DEF MapInv, PoolInv, TypeInv, TypeOK
<1>3. ASSUME table' = table PROVE Store!StoreNext
  BY <1>0, <1>1, <1>3
<1>4. ASSUME NEW l \in LPN, NEW toPAL \in BOOLEAN, pc \in {"idle", "fill"},
             WriteLookup(l, toPAL)
      PROVE  Store!StoreNext
  <2>1. table' = [table EXCEPT ![l] = IF @ = NoEntry THEN FreshEntry ELSE @]
    BY <1>4 DEF WriteLookup
  <2>2. \A k \in LPN : table'[k] # NoEntry <=> table[k] # NoEntry \/ k = l
    BY <2>1, <1>2, LocFacts
  <2>3. LivePages' = LivePages \cup {l}
    BY <1>1, <2>2
  <2>4. Ready = TRUE /\ Ready' = FALSE
    BY <1>4 DEF WriteLookup, Ready
  <2> QED BY <2>3, <2>4 DEF Store!StoreNext, Store!StoreWrite
<1>5. ASSUME NEW l \in LPN, table[l] # NoEntry,
             dest \in Block, NextPage \in Page,
             table' = [table EXCEPT ![l] = Loc(dest, NextPage)]
      PROVE  Store!StoreNext
  <2>1. \A k \in LPN : table'[k] # NoEntry <=> table[k] # NoEntry
    BY <1>2, <1>5, LocFacts
  <2> QED BY <1>0, <1>1, <2>1
<1>6. CASE WritePage
  <2>1. CASE Writable
    <3>1. /\ req # NoReq /\ NextPage \in Page /\ dest \in Block
          /\ table' = [table EXCEPT ![req.entry] = Loc(dest, NextPage)]
      BY <1>6, <2>1 DEF WritePage, Writable, MapInv, PoolInv, TypeInv, TypeOK
    <3>2. req.lpn \in LPN /\ req.entry = req.lpn /\ table[req.lpn] # NoEntry
      BY <3>1 DEF MapInv, CollectionOK, PoolInv, TypeInv, TypeOK
    <3> QED BY <3>1, <3>2, <1>5
  <2>2. CASE ~Writable
    BY <1>6, <2>2, <1>3 DEF WritePage
  <2> QED BY <2>1, <2>2
<1>7. CASE CopyPage
  <2> DEFINE l == content[Victim][gc.page]
  <2>1. CASE table[l] # NoEntry /\ Writable
    <3>1. /\ NextPage \in Page /\ dest \in Block
          /\ table' = [table EXCEPT ![l] = Loc(dest, NextPage)]
      BY <1>7, <2>1 DEF CopyPage, Writable, MapInv, PoolInv, TypeInv, TypeOK
    <3>2. l \in LPN
      BY <1>7 DEF CopyPage, MapInv, PoolInv, StepOK
    <3> HIDE DEF l
    <3> QED BY <2>1, <3>1, <3>2, <1>5
  <2>2. CASE ~(table[l] # NoEntry /\ Writable)
    BY <1>7, <2>2, <1>3 DEF CopyPage
  <2> QED BY <2>1, <2>2
<1>8. ASSUME NEW l \in LPN, Trim(l) PROVE Store!StoreNext
  <2>1. CASE table[l].block \in blocks
    <3>1. table' = [table EXCEPT ![l] = NoEntry]
      BY <1>8, <2>1 DEF Trim
    <3>2. LivePages' = LivePages \ {l}
      BY <3>1, <1>1, <1>2
    <3>3. Ready = TRUE /\ Ready' = TRUE
      BY <1>8, <2>1 DEF Trim, Ready
    <3> QED BY <3>2, <3>3 DEF Store!StoreNext, Store!StoreTrim
  <2>2. CASE table[l].block \notin blocks
    BY <1>8, <2>2, <1>3 DEF Trim
  <2> QED BY <2>1, <2>2
<1>9. CASE Internal
  <2>1. ASSUME NEW l \in LPN, FillWrite(l) PROVE Store!StoreNext
    <3>1. pc = "fill" /\ WriteLookup(l, FALSE)
      BY <2>1 DEF FillWrite
    <3>2. pc \in {"idle", "fill"}
      BY <3>1
    <3>3. WriteLookup(l, FALSE)
      BY <3>1
    <3> QED BY <3>2, <3>3, <1>4
  <2>2. CASE \/ FillDone \/ UseOpenBlock \/ ReplaceErasedBlock
             \/ ReplaceFullBlock \/ SelectVictimBlock \/ ScanVictim
             \/ EraseVictim
    BY <2>2, <1>3 DEF FillDone, UseOpenBlock, ReplaceErasedBlock,
       ReplaceFullBlock, TurnChannel, SelectVictimBlock, ScanVictim, EraseVictim
  <2>3. CASE \E l \in LPN : FillWrite(l)
    BY <2>1, <2>3
  <2> QED BY <1>9, <2>2, <2>3, <1>6, <1>7 DEF Internal
<1>10. CASE Call
  <2>1. ASSUME NEW l \in LPN, Write(l) PROVE Store!StoreNext
    <3>1. pc = "idle" /\ WriteLookup(l, TRUE)
      BY <2>1 DEF Write
    <3>2. pc \in {"idle", "fill"}
      BY <3>1
    <3>3. WriteLookup(l, TRUE)
      BY <3>1
    <3> QED BY <3>2, <3>3, <1>4
  <2>2. ASSUME NEW l \in LPN,
               WriteCmtHit(l) \/ ReadCmtHit(l) \/ ReadTable(l) \/ UndoCached(l)
        PROVE  Store!StoreNext
    BY <2>2, <1>3 DEF WriteCmtHit, ReadCmtHit, ReadTable, UndoCached
  <2>3. CASE PassRequestLimit
    BY <2>3, <1>3 DEF PassRequestLimit
  <2>4. CASE \E l \in LPN : Write(l) \/ WriteCmtHit(l)
    BY <2>1, <2>2, <2>4
  <2>5. CASE \E l \in HostReads : ReadCmtHit(l) \/ ReadTable(l) \/ UndoCached(l)
    BY <2>2, <2>5, Constants
  <2>6. CASE \E l \in HostTrims : Trim(l)
    BY <1>8, <2>6, Constants
  <2> QED BY <1>10, <2>3, <2>4, <2>5, <2>6 DEF Call, NoCmtNoFormat
<1>11. CASE UNCHANGED vars
  BY <1>11, <1>3 DEF vars
<1> QED BY <1>9, <1>10, <1>11 DEF Next

(***************************************************************************)
(* An empty flash is an empty store.                                       *)
(***************************************************************************)
LEMMA InitIsStoreInit == Init => Store!StoreInit
<1> SUFFICES ASSUME Init PROVE LivePages = {}
  BY DEF Store!StoreInit, Init, Ready
<1>1. LivePages = {l \in LPN : table[l] # NoEntry}
  BY InitMapInv, LiveIsMapped DEF LiveMapped
<1> QED BY <1>1 DEF Init

(***************************************************************************)
(* The FTL implements the abstract store: nothing but a trim ever makes a  *)
(* page that was written unreachable, whatever GC does behind the scenes.  *)
(***************************************************************************)
THEOREM FTLImplementsStore ==
  ASSUME NoCmtNoFormat
  PROVE  Spec => ImplementsStore
<1>1. Spec => []MapInv
  BY InitMapInv, NextMapInv, PTL DEF Spec
<1>2. MapInv /\ LiveMapped /\ LiveMapped' /\ [Next]_vars
        => [Store!StoreNext]_<<LivePages, Ready>>
  BY NextIsStoreStep
<1> QED BY <1>1, <1>2, LiveIsMapped, InitIsStoreInit, PTL
        DEF Spec, ImplementsStore, Store!StoreSpec

-----------------------------------------------------------------------------
(***************************************************************************)
(* The filling fits: initialize() is not asked to fill more pages than     *)
(* there are before GC starts, so that its subtraction does not wrap.      *)
(***************************************************************************)
FillFits ==
  PagesToWarmup <= MaxPagesBeforeGC /\ MaxPagesBeforeGC < WordSize

(***************************************************************************)
(* initialize() is at work; the blocks it has filled and left; the pages   *)
(* it has written.                                                         *)
(***************************************************************************)
Filling == pc = "fill" \/ (pc \in {"alloc", "program"} /\ ~req.toPAL)

Closed == {b \in blocks : \A c \in Chan : lastFreeBlock[c] # b}

Written == {w \in Block \X Page : w[2] < nextWrite[w[1]]}

(***************************************************************************)
(* The account initialize() implicitly keeps: a free block is taken for    *)
(* each one filled, and each write takes one page.                         *)
(***************************************************************************)
FillOK ==
  Filling =>
    /\ erasedIds = {}
    /\ filled <= FillTarget
    /\ \A b \in Closed : Full(b)
    /\ Cardinality(Closed) = TotalPhysicalBlocks - PageCountToMaxPerf - nFreeBlocks
    /\ Cardinality(Written) = IF pc = "fill" THEN filled ELSE filled - 1

AbortInv == MapInv /\ SpareInv /\ FillOK /\ OnlyOutOfSpacePanics

(***************************************************************************)
(* initialize() writes at most the pages there are before GC starts.       *)
(***************************************************************************)
LEMMA FillTargetBound ==
  ASSUME FillFits
  PROVE  FillTarget \in Nat /\ FillTarget <= MaxPagesBeforeGC
         /\ MaxPagesBeforeGC \in Nat
<1>1. PagesToWarmup \in Nat /\ PagesToInvalidate \in Nat /\ WordSize \in Nat
      /\ WordSize > 0 /\ GCFreeBlocks \in Nat
  BY OptionAssumption
<1>2. MaxPagesBeforeGC \in Int
  <2>1. TotalPhysicalBlocks - GCFreeBlocks - PageCountToMaxPerf \in Int
    BY <1>1, Constants
  <2> QED BY <2>1, Constants DEF MaxPagesBeforeGC
<1> HIDE DEF MaxPagesBeforeGC
<1>3. /\ PagesToWarmup <= MaxPagesBeforeGC /\ MaxPagesBeforeGC < WordSize
      /\ MaxPagesBeforeGC \in Nat
  BY <1>1, <1>2 DEF FillFits
<1>4. (MaxPagesBeforeGC - PagesToWarmup) % WordSize
        = MaxPagesBeforeGC - PagesToWarmup
  BY <1>1, <1>3
<1> QED BY <1>1, <1>3, <1>4 DEF FillTarget

(***************************************************************************)
(* The pages written since their erase can be counted.                     *)
(***************************************************************************)
LEMMA FiniteWritten ==
  /\ IsFiniteSet(Written) /\ Cardinality(Written) \in Nat
  /\ IsFiniteSet(Written') /\ Cardinality(Written') \in Nat
<1> DEFINE lastBlock == TotalPhysicalBlocks - 1
           lastPage == PagesInBlock - 1
<1>0. lastBlock \in Int /\ lastPage \in Int
  BY Constants
<1>1. IsFiniteSet(Block) /\ IsFiniteSet(Page)
  <2> HIDE DEF lastBlock, lastPage
  <2>1. IsFiniteSet(0 .. lastBlock) /\ IsFiniteSet(0 .. lastPage)
    BY <1>0, FS_Interval
  <2> QED BY <2>1 DEF Block, Page, lastBlock, lastPage
<1>2. IsFiniteSet(Block \X Page)
  BY <1>1, FS_Product
<1>3. Written \in SUBSET (Block \X Page) /\ Written' \in SUBSET (Block \X Page)
  BY DEF Written
<1> QED BY <1>2, <1>3, FS_Subset, FS_CardinalityType

(***************************************************************************)
(* A product by the number of pages of a block can be compared by its      *)
(* other factor.                                                           *)
(***************************************************************************)
LEMMA FewerBlocks ==
  ASSUME NEW k \in Int, NEW m \in Int, NEW n \in Nat, n > 0, k * n <= n * m
  PROVE  k <= m
<1> SUFFICES ASSUME k > m PROVE FALSE
  OBVIOUS
<1>1. PICK e \in Nat : k = m + 1 + e
  <2>1. k - m - 1 \in Nat /\ k = m + 1 + (k - m - 1)
    OBVIOUS
  <2> QED BY <2>1
<1>2. n * e \in Nat /\ n * m \in Int
  OBVIOUS
<1>3. k * n = n * m + n + n * e
  BY <1>1
<1> QED BY <1>2, <1>3

(***************************************************************************)
(* While initialize() fills pages that fit, GC is not due.                 *)
(***************************************************************************)
LEMMA FillNeedsNoGC ==
  ASSUME FillFits, TypeOK, filled <= FillTarget,
         \A b \in Closed : Full(b),
         Cardinality(Closed) = TotalPhysicalBlocks - PageCountToMaxPerf - nFreeBlocks,
         Cardinality(Written) <= filled
  PROVE  ~NeedsGC
<1>1. /\ TotalPhysicalBlocks \in Nat /\ PageCountToMaxPerf \in Nat
      /\ PagesInBlock \in Nat /\ PagesInBlock > 0 /\ GCFreeBlocks \in Nat
      /\ nFreeBlocks \in Nat /\ filled \in Nat
  BY Constants, OptionAssumption DEF TypeOK
<1>2. Closed \subseteq Block /\ blocks \subseteq Block
  BY DEF Closed, TypeOK
<1>3. IsFiniteSet(Closed) /\ Cardinality(Closed) \in Nat
  BY <1>2, FiniteBlocks
<1>4. IsFiniteSet(Page) /\ Cardinality(Page) = PagesInBlock
  BY FS_Interval, <1>1 DEF Page
<1>5. Closed \X Page \in SUBSET Written
  <2> SUFFICES ASSUME NEW b \in Closed, NEW p \in Page
               PROVE  p < nextWrite[b] /\ b \in Block
    BY DEF Written
  <2>1. nextWrite[b] = PagesInBlock
    BY DEF Full
  <2> QED BY <2>1, <1>1, <1>2 DEF Page
<1>6. Cardinality(Closed \X Page) = Cardinality(Closed) * PagesInBlock
  BY <1>3, <1>4, FS_Product
<1>7. Cardinality(Closed \X Page) <= Cardinality(Written)
  BY <1>5, FiniteWritten, FS_Subset
<1> DEFINE k == Cardinality(Closed)
           m == TotalPhysicalBlocks - GCFreeBlocks - PageCountToMaxPerf
<1>8. k * PagesInBlock <= PagesInBlock * m
  <2>1. FillTarget \in Nat /\ FillTarget <= MaxPagesBeforeGC
        /\ MaxPagesBeforeGC \in Nat
    BY FillTargetBound
  <2>2. MaxPagesBeforeGC = PagesInBlock * m
    BY DEF MaxPagesBeforeGC
  <2>3. k * PagesInBlock \in Nat /\ Cardinality(Written) \in Nat
    BY <1>1, <1>3, FiniteWritten
  <2>4. k * PagesInBlock <= Cardinality(Written)
    BY <1>6, <1>7
  <2> HIDE DEF k, m
  <2> QED BY <1>1, <2>1, <2>2, <2>3, <2>4
<1>9. k \in Int /\ m \in Int
  BY <1>1, <1>3
<1> HIDE DEF k, m
<1>10. k <= m
  BY <1>1, <1>8, <1>9, FewerBlocks
<1> QED BY <1>1, <1>10 DEF k, m, NeedsGC

(***************************************************************************)
(* The account starts with nothing written and nothing closed.             *)
(***************************************************************************)
LEMMA InitAbortInv ==
  ASSUME FillFits
  PROVE  Init => AbortInv
<1> SUFFICES ASSUME Init PROVE AbortInv
  OBVIOUS
<1>1. MapInv /\ SpareInv
  BY InitMapInv, InitSpareInv
<1>2. Closed = {}
  BY DEF Init, Closed
<1>3. Written = {}
  <2>1. \A w \in Block \X Page : w[1] \in Block /\ w[2] \in Nat
    BY Constants DEF Page
  <2>2. \A b \in Block : nextWrite[b] = 0
    BY DEF Init
  <2> QED BY <2>1, <2>2 DEF Written
<1>4. FillOK
  BY <1>2, <1>3, FS_EmptySet, FillTargetBound, Constants DEF Init, FillOK
<1> QED BY <1>1, <1>4 DEF AbortInv, Init, OnlyOutOfSpacePanics

(***************************************************************************)
(* The account is balanced while a write of initialize() looks for its     *)
(* block.                                                                  *)
(***************************************************************************)
LEMMA FillTurns ==
  ASSUME AbortInv, Filling, pc = "alloc",
         UseOpenBlock \/ ReplaceErasedBlock \/ ReplaceFullBlock
  PROVE  FillOK'
<1> USE DEF AbortInv, MapInv, SpareInv, PoolInv, TypeInv
<1>0. /\ erasedIds = {} /\ filled <= FillTarget
      /\ \A b \in Closed : Full(b)
      /\ Cardinality(Closed) = TotalPhysicalBlocks - PageCountToMaxPerf - nFreeBlocks
      /\ Cardinality(Written) = filled - 1
  BY DEF FillOK
<1>1. UNCHANGED <<nextWrite, filled>> /\ TurnChannel
  BY DEF UseOpenBlock, ReplaceErasedBlock, ReplaceFullBlock, TurnChannel, blockVars
<1>2. Written' = Written /\ pc' \in {"program", "panic"}
  <2>1. pc' \in {"program", "panic"}
    BY DEF UseOpenBlock, ReplaceErasedBlock, ReplaceFullBlock, GetFreeBlock, Fail
  <2> QED BY <1>1, <2>1 DEF Written
<1>3. CASE UseOpenBlock
  <2>1. UNCHANGED <<blocks, nFreeBlocks, lastFreeBlock, erasedIds>>
    BY <1>3 DEF UseOpenBlock, poolVars
  <2>2. Closed' = Closed
    BY <2>1 DEF Closed
  <2>3. FillTarget' = FillTarget
    BY DEF FillTarget, MaxPagesBeforeGC
  <2> QED BY <1>0, <1>1, <1>2, <2>1, <2>2, <2>3 DEF FillOK, Full
<1>4. CASE ReplaceErasedBlock
  BY <1>4, <1>0 DEF ReplaceErasedBlock
<1>5. CASE ReplaceFullBlock
  <2>1. CASE pc' = "panic"
    BY <2>1 DEF FillOK, Filling
  <2>2. CASE pc' = "program"
    <3> DEFINE c == NextChannel
               b == lastFreeBlock[c]
               d == freeBlocks[FreePosition(c)]
    <3>1. /\ GetFreeBlock(c) /\ b \in blocks /\ Full(b) /\ erasedIds' = erasedIds
      BY <1>5 DEF ReplaceFullBlock
    <3>2. /\ blocks' = blocks \cup {d} /\ nFreeBlocks' = nFreeBlocks - 1
          /\ lastFreeBlock' = [lastFreeBlock EXCEPT ![c] = d] /\ d \notin blocks
      BY <3>1, <2>2 DEF GetFreeBlock, Fail
    <3>3. c \in Chan
      BY NextChannelType
    <3>4. \A e \in Chan : e # c => lastFreeBlock[e] # b
      BY <3>3, <1>0 DEF OpenOK
    <3>5. b # d
      BY <3>1, <3>2
    <3>b. b = lastFreeBlock[c]
      OBVIOUS
    <3> HIDE DEF c, b, d
    <3>6. /\ lastFreeBlock'[c] = d
          /\ \A e \in Chan : e # c => lastFreeBlock'[e] = lastFreeBlock[e]
      BY <3>2, <3>3 DEF TypeOK
    <3>7. Closed' = Closed \cup {b} /\ b \notin Closed
      <4>1. b \notin Closed
        BY <3>3, <3>b DEF Closed
      <4>2. ASSUME NEW x PROVE x \in Closed' <=> x \in Closed \cup {b}
        <5>1. CASE x = d
          BY <5>1, <3>2, <3>3, <3>5, <3>6 DEF Closed
        <5>2. CASE x = b
          BY <5>2, <3>1, <3>2, <3>4, <3>5, <3>6 DEF Closed
        <5>3. CASE x # d /\ x # b
          <6>1. x \in blocks' <=> x \in blocks
            BY <5>3, <3>2
          <6>2. \A e \in Chan : lastFreeBlock'[e] = x <=> lastFreeBlock[e] = x
            BY <5>3, <3>b, <3>6
          <6> QED BY <5>3, <6>1, <6>2 DEF Closed
        <5> QED BY <5>1, <5>2, <5>3
      <4> QED BY <4>1, <4>2
    <3>8. IsFiniteSet(Closed) /\ Cardinality(Closed) \in Nat
      <4>1. Closed \subseteq Block
        BY DEF Closed, TypeOK
      <4> QED BY <4>1, FiniteBlocks
    <3>9. Cardinality(Closed') = Cardinality(Closed) + 1
      BY <3>7, <3>8, FS_AddElement
    <3>10. Cardinality(Closed') =
             TotalPhysicalBlocks - PageCountToMaxPerf - nFreeBlocks'
      BY <3>9, <3>2, <1>0, Constants DEF TypeOK
    <3>11. \A x \in Closed' : Full(x)'
      BY <3>1, <3>7, <1>0, <1>1 DEF Full
    <3>12. FillTarget' = FillTarget
      BY DEF FillTarget, MaxPagesBeforeGC
    <3> QED BY <1>0, <1>1, <1>2, <2>2, <3>1, <3>10, <3>11, <3>12 DEF FillOK
  <2> QED BY <2>1, <2>2, <1>2
<1> QED BY <1>3, <1>4, <1>5

(***************************************************************************)
(* The page a write of initialize() takes balances the account, and GC is  *)
(* not due then.                                                           *)
(***************************************************************************)
LEMMA FillWrites ==
  ASSUME FillFits, AbortInv, Filling, WritePage
  PROVE  FillOK' /\ panic' = panic
<1> USE DEF AbortInv, MapInv, SpareInv, PoolInv, TypeInv
<1>1. pc = "program" /\ ~req.toPAL
  BY DEF WritePage, Filling
<1>2. /\ Writable /\ NextPage \in Page /\ dest \in Block /\ ~Full(dest)
  BY <1>1, ProgramTarget
<1>3. /\ nextWrite' = [nextWrite EXCEPT ![dest] = @ + 1] /\ AfterWrite
      /\ UNCHANGED <<blocks, erasedIds, lastFreeBlock, nFreeBlocks, filled>>
  BY <1>2 DEF WritePage, poolVars, openVars
<1>4. /\ erasedIds = {} /\ filled <= FillTarget
      /\ \A b \in Closed : Full(b)
      /\ Cardinality(Closed) = TotalPhysicalBlocks - PageCountToMaxPerf - nFreeBlocks
      /\ Cardinality(Written) = filled - 1
  BY <1>1 DEF FillOK
<1>5. Closed' = Closed /\ Closed \subseteq Block
  BY <1>3 DEF Closed, TypeOK
<1>6. \A b \in Closed : Full(b)'
  BY <1>2, <1>3, <1>4, <1>5 DEF Full, TypeOK
<1>7. Cardinality(Written') = filled
  <2> DEFINE w == <<dest, NextPage>>
  <2>1. NextPage = nextWrite[dest] /\ nextWrite[dest] \in Nat
    BY <1>2 DEF NextPage, TypeOK
  <2>2. w \notin Written
    BY <1>2, <2>1 DEF Written
  <2>3. Written' = Written \cup {w}
    <3>1. ASSUME NEW b \in Block, NEW p \in Page
          PROVE  p < nextWrite'[b] <=> p < nextWrite[b] \/ (b = dest /\ p = NextPage)
      <4>1. p \in Int /\ nextWrite[b] \in Int
        BY Constants DEF Page, TypeOK
      <4>2. CASE b = dest
        BY <4>1, <4>2, <2>1, <1>3 DEF TypeOK
      <4>3. CASE b # dest
        BY <4>3, <1>3 DEF TypeOK
      <4> QED BY <4>2, <4>3
    <3>2. ASSUME NEW x PROVE x \in Written' <=> x \in Written \cup {w}
      <4>1. CASE x \in Block \X Page
        <5>1. PICK b \in Block, p \in Page : x = <<b, p>>
          BY <4>1
        <5>2. x \in Written' <=> p < nextWrite'[b]
          BY <5>1 DEF Written
        <5>3. x \in Written <=> p < nextWrite[b]
          BY <5>1 DEF Written
        <5>4. x = w <=> b = dest /\ p = NextPage
          BY <5>1
        <5> HIDE DEF w
        <5> QED BY <3>1, <5>2, <5>3, <5>4
      <4>2. CASE x \notin Block \X Page
        BY <4>2, <1>2 DEF Written
      <4> QED BY <4>1, <4>2
    <3> QED BY <3>2
  <2> HIDE DEF w
  <2>4. Cardinality(Written') = Cardinality(Written) + 1
    BY <2>2, <2>3, FiniteWritten, FS_AddElement
  <2> QED BY <2>4, <1>4, FiniteWritten DEF TypeOK
<1>8. ~NeedsGC
  <2>1. TypeOK /\ filled \in Nat
    BY DEF TypeOK
  <2>2. Cardinality(Written) <= filled
    BY <1>4, <2>1
  <2> QED BY <1>4, <2>1, <2>2, FillNeedsNoGC
<1>9. pc' = "fill" /\ panic' = panic
  BY <1>1, <1>3, <1>8 DEF AfterWrite
<1>10. FillTarget' = FillTarget
  BY DEF FillTarget, MaxPagesBeforeGC
<1> QED BY <1>3, <1>4, <1>5, <1>6, <1>7, <1>9, <1>10 DEF FillOK

(***************************************************************************)
(* Every step keeps the account and aborts only for want of a free block,  *)
(* with one step of the proof per action.                                  *)
(***************************************************************************)
LEMMA NextAbortInv ==
  ASSUME NoCmtNoFormat, SingleVictims, OpenBlocksSpared, FillFits
  PROVE  AbortInv /\ [Next]_vars => AbortInv'
<1> SUFFICES ASSUME AbortInv, [Next]_vars PROVE AbortInv'
  OBVIOUS
<1>m. MapInv /\ MapInv' /\ SpareInv /\ SpareInv'
  BY NextMapInv, NextSpareInv DEF AbortInv
<1>t. /\ TypeOK /\ ControlOK /\ StepOK /\ MappingConsistent
      /\ PoolNeverCorrupted /\ PoolNeverCorrupted'
      /\ OnlyOutOfSpacePanics /\ FillOK
  BY <1>m DEF AbortInv, MapInv, SpareInv, PoolInv, TypeInv
\* A step that ends outside the filling has nothing to keep account of.
<1>q. ASSUME ~Filling', panic' \in {panic, "No free block left", "Corrupted",
               "Invalid block", "No such block", "Write to non erased page"}
      PROVE  AbortInv'
  <2>1. FillOK'
    BY <1>q DEF FillOK
  <2>2. OnlyOutOfSpacePanics'
    BY <1>q, <1>t DEF OnlyOutOfSpacePanics, PoolNeverCorrupted
  <2> QED BY <1>m, <2>1, <2>2 DEF AbortInv
\* An entry of the table leads to a block in use.
<1>e. ASSUME NEW l \in LPN, pc = "idle", table[l] # NoEntry
      PROVE  table[l].block \in blocks
  <2>1. l \notin InFlight
    BY <1>e, <1>t DEF ControlOK, InFlight
  <2> QED BY <1>e, <2>1, <1>t DEF MappingConsistent
<1>2. ASSUME NEW l \in LPN, FillWrite(l) PROVE AbortInv'
  <2>1. /\ pc = "fill" /\ filled < FillTarget /\ filled' = filled + 1
        /\ UNCHANGED <<blocks, nFreeBlocks, erasedIds, nextWrite, lastFreeBlock,
                       panic>>
        /\ pc' = "alloc"
    BY <1>2 DEF FillWrite, WriteLookup, poolVars, openVars
  <2>2. Closed' = Closed /\ Written' = Written /\ FillTarget' = FillTarget
        /\ \A b \in Closed : Full(b)' = Full(b)
    BY <2>1 DEF Closed, Written, FillTarget, MaxPagesBeforeGC, Full
  <2>3. FillTarget \in Nat /\ filled \in Nat
    BY <1>t, FillTargetBound DEF TypeOK
  <2>4. FillOK'
    BY <1>t, <2>1, <2>2, <2>3 DEF FillOK, Filling
  <2> QED BY <1>m, <1>t, <2>1, <2>4 DEF AbortInv, OnlyOutOfSpacePanics
<1>3. ASSUME NEW l \in LPN, Write(l) PROVE AbortInv'
  <2>1. pc' = "alloc" /\ req' = [lpn |-> l, entry |-> l, toPAL |-> TRUE]
        /\ panic' = panic
    BY <1>3 DEF Write, WriteLookup
  <2>2. ~Filling'
    BY <2>1 DEF Filling
  <2> QED BY <1>q, <2>1, <2>2
<1>4. CASE FillDone
  BY <1>4, <1>q DEF FillDone, Filling
<1>5. CASE UseOpenBlock \/ ReplaceErasedBlock \/ ReplaceFullBlock
  <2>1. pc = "alloc" /\ pc' \in {"program", "panic"} /\ req' = req
        /\ panic' \in {panic, "No free block left", "Corrupted"}
    BY <1>5 DEF UseOpenBlock, ReplaceErasedBlock, ReplaceFullBlock, TurnChannel,
                GetFreeBlock, Fail
  <2>2. CASE Filling
    <3>1. FillOK'
      BY <1>5, <2>1, <2>2, FillTurns
    <3>2. OnlyOutOfSpacePanics'
      BY <2>1, <1>t DEF OnlyOutOfSpacePanics, PoolNeverCorrupted
    <3> QED BY <1>m, <3>1, <3>2 DEF AbortInv
  <2>3. CASE ~Filling
    BY <2>1, <2>3, <1>q DEF Filling
  <2> QED BY <2>2, <2>3
<1>6. CASE WritePage
  <2>1. CASE Filling
    <3>1. FillOK' /\ panic' = panic
      BY <1>6, <2>1, FillWrites
    <3> QED BY <1>m, <1>t, <3>1 DEF AbortInv, OnlyOutOfSpacePanics
  <2>2. CASE ~Filling
    <3>1. pc = "program" /\ req.toPAL
      BY <1>6, <2>2 DEF WritePage, Filling
    <3>2. Writable
      BY <1>m, <3>1, ProgramTarget DEF SpareInv
    <3>3. panic' = panic /\ pc' \in {"select", "idle"}
      BY <1>6, <3>1, <3>2 DEF WritePage, AfterWrite
    <3> QED BY <3>3, <1>q DEF Filling
  <2> QED BY <2>1, <2>2
<1>7. CASE SelectVictimBlock
  BY <1>7, <1>q DEF SelectVictimBlock, StartGC, Filling
<1>8. CASE ScanVictim
  <2>1. req' = NoReq
    BY <1>8, <1>t DEF ScanVictim, ControlOK
  <2>2. panic' \in {panic, "Invalid block"}
        /\ pc' \in {"panic", "alloc", "scan", "erase"}
    BY <1>8 DEF ScanVictim, Fail
  <2>3. ~Filling'
    BY <2>1, <2>2 DEF Filling, NoReq
  <2> QED BY <2>2, <2>3, <1>q
<1>9. CASE CopyPage
  <2>1. pc = "program" /\ req = NoReq
    BY <1>9 DEF CopyPage
  <2>2. content[Victim][gc.page] \in LPN
    BY <2>1, <1>t DEF StepOK
  <2>3. Victim \in Block /\ gc.page \in Page
    <3>1. Collecting /\ TypeInv
      BY <2>1, <1>t DEF Collecting, TypeInv
    <3> QED BY <2>1, <3>1, <1>t, VictimType DEF ControlOK
  <2>4. table[content[Victim][gc.page]] # NoEntry
    <3>1. table[content[Victim][gc.page]] = Loc(Victim, gc.page)
      BY <2>2, <2>3, <1>t DEF MappingConsistent
    <3> QED BY <2>3, <3>1, Constants DEF Loc, NoEntry
  <2>5. panic' \in {panic, "Write to non erased page"} /\ pc' \in {"scan", "panic"}
    BY <1>9, <2>4 DEF CopyPage, Fail
  <2> QED BY <2>5, <1>q DEF Filling
<1>10. CASE EraseVictim
  <2>1. panic' \in {panic, "No such block"} /\ pc' \in {"erase", "idle", "panic"}
    BY <1>10 DEF EraseVictim, Fail
  <2> QED BY <2>1, <1>q DEF Filling
<1>11. ASSUME NEW l \in LPN, WriteCmtHit(l) \/ ReadCmtHit(l) PROVE AbortInv'
  BY <1>11 DEF WriteCmtHit, ReadCmtHit, NoCmtNoFormat
<1>12. ASSUME NEW l \in LPN, ReadTable(l) PROVE AbortInv'
  <2>1. table[l].block \in blocks
    BY <1>12, <1>e DEF ReadTable
  <2>2. UNCHANGED <<pc, panic>> /\ pc = "idle"
    BY <1>12, <2>1 DEF ReadTable, ReadPage
  <2> QED BY <2>2, <1>q DEF Filling
<1>13. ASSUME NEW l \in LPN, UndoCached(l) PROVE AbortInv'
  BY <1>13, <1>q DEF UndoCached, Filling
<1>14. ASSUME NEW l \in LPN, Trim(l) PROVE AbortInv'
  <2>1. table[l].block \in blocks
    BY <1>14, <1>e DEF Trim
  <2>2. UNCHANGED <<pc, panic>> /\ pc = "idle"
    BY <1>14, <2>1 DEF Trim
  <2> QED BY <2>2, <1>q DEF Filling
<1>15. CASE PassRequestLimit
  BY <1>15, <1>q DEF PassRequestLimit, Filling
<1>16. CASE UNCHANGED vars
  <2>1. FillOK'
    <3>1. UNCHANGED <<pc, req, erasedIds, filled, blocks, lastFreeBlock,
                      nextWrite, nFreeBlocks, panic>>
      BY <1>16 DEF vars, blockVars, poolVars, openVars
    <3>2. Closed' = Closed /\ Written' = Written /\ FillTarget' = FillTarget
      BY <3>1 DEF Closed, Written, FillTarget, MaxPagesBeforeGC
    <3> QED BY <3>1, <3>2, <1>t DEF FillOK, Filling, Full
  <2> QED BY <1>16, <1>m, <1>t, <2>1 DEF AbortInv, OnlyOutOfSpacePanics, vars
<1>17. CASE Internal
  BY <1>17, <1>2, <1>4, <1>5, <1>6, <1>7, <1>8, <1>9, <1>10 DEF Internal
<1>18. CASE Call
  BY <1>18, <1>3, <1>11, <1>12, <1>13, <1>14, <1>15, Constants
     DEF Call, NoCmtNoFormat
<1> QED BY <1>16, <1>17, <1>18 DEF Next

(***************************************************************************)
(* The one way a call of the FTL can abort the process is that no free     *)
(* block is left: no read, trim or page copy meets a mapping that leads    *)
(* nowhere, initialize() never fills so much that GC would be due, and     *)
(* none of the checks of the block pool fails.                             *)
(***************************************************************************)
THEOREM AbortsOnlyOutOfSpace ==
  ASSUME NoCmtNoFormat, SingleVictims, OpenBlocksSpared, FillFits
  PROVE  Spec => []OnlyOutOfSpacePanics
<1>1. AbortInv => OnlyOutOfSpacePanics
  BY DEF AbortInv
<1> QED BY <1>1, InitAbortInv, NextAbortInv, PTL DEF Spec
=============================================================================
