----------------------------- MODULE PALProofs ------------------------------
(***************************************************************************)
(* Proofs about the parallelism abstraction layer: the scheduler hands out *)
(* a channel's and a die's time once, and no two super pages share a page. *)
(***************************************************************************)
EXTENDS PAL, SequenceLemmas

-----------------------------------------------------------------------------
(* The inductive invariant.                                                *)

Classes(classes) == classes \subseteq Nat \ {0} /\ classes # {}

SlotSet == [class : Nat, from : Nat, to : Nat]

\* A slot is in the class of its length.
WellClassed(s, classes) ==
  /\ Below(classes, s.to - s.from + 1) # {}
  /\ s.class = Max(Below(classes, s.to - s.from + 1))

\* The free time of a channel or of a die.
Resource(slots, start, classes) ==
  /\ start \in Nat
  /\ slots \subseteq SlotSet
  /\ \A s \in slots : s.from <= s.to /\ s.to < start /\ WellClassed(s, classes)
  /\ \A s, t \in slots : s # t => Disjoint(s.from, s.to, t.from, t.to)

\* The time [a, b] was handed out.
Taken(slots, start, a, b) ==
  /\ b < start
  /\ \A s \in slots : Disjoint(s.from, s.to, a, b)

\* The time [tick, tick + len - 1] is free, in the slot that begins here.
FitsAt(slots, start, len, tick, slot) ==
  /\ slot <= tick
  /\ slot = start \/ \E s \in slots : s.from = slot /\ tick + len - 1 <= s.to

Busy(o) == {<<o.dma0, o.dma0end>>, <<o.dma1, o.dma1end>>}

OpTypes(o) ==
  /\ {o.request, o.arrived, o.dma0, o.mem, o.dma1} \subseteq Nat
  /\ {o.dma0end, o.dma1end, o.memend} \subseteq Int
  /\ o.dma0 <= o.dma0end

ChannelInv(c) ==
  /\ Resource(chSlots[c], chStart[c], ChClasses)
  /\ \A o \in OfChannel(c) : \A b \in Busy(o) :
       Taken(chSlots[c], chStart[c], b[1], b[2])
  /\ \A o \in OfChannel(c) : \A p \in OfChannel(c) \ {o} :
       \A b \in Busy(o), x \in Busy(p) : Disjoint(b[1], b[2], x[1], x[2])

DieInv(d) ==
  /\ Resource(dieSlots[d], dieStart[d], DieClasses)
  /\ \A o \in OfDie(d) : Taken(dieSlots[d], dieStart[d], o.dma0, o.memend)
  /\ \A o \in OfDie(d) : \A p \in OfDie(d) \ {o} :
       Disjoint(o.dma0, o.memend, p.dma0, p.memend)

TimeInv ==
  /\ ~asserted
  /\ \A o \in ops : /\ OpTypes(o)
                    /\ o.dma0 >= o.arrived
                    /\ o.dma1 > o.dma0end + o.mem
                    /\ o.memend = o.dma1end

\* The end of a request that is under way, and those of the answered ones.
Ends(r) == {o.dma1end : o \in {p \in ops : p.request = r}}
AnswerInv ==
  /\ answered \in Seq(Int)
  /\ \A r \in 1 .. Len(answered) :
       answered[r] \in Ends(r) /\ \A e \in Ends(r) : e <= answered[r]
  /\ \A o \in ops : o.request <= Len(answered) + 1
  /\ IF job = Idle THEN Ends(Len(answered) + 1) = {}
     ELSE /\ job.finishedAt \in Ends(Len(answered) + 1) \cup {job.arrived}
          /\ \A e \in Ends(Len(answered) + 1) :
               e <= job.finishedAt /\ job.arrived <= e

\* What the search has found holds where it stands.
JobInv ==
  \/ job = Idle
  \/ /\ job = [pc |-> job.pc, op |-> job.op, page |-> job.page,
               block |-> job.block, arrived |-> job.arrived, list |-> job.list,
               finishedAt |-> job.finishedAt, from |-> job.from,
               slot0 |-> job.slot0, mem |-> job.mem, turn |-> job.turn]
     /\ job.pc \in {"dma0", "dma1"} /\ job.turn \in BOOLEAN
     /\ job.op \in DOMAIN Timing /\ job.page \in DOMAIN Timing[job.op]
     /\ job.block \in 0 .. SuperBlocks - 1
     /\ {job.arrived, job.from, job.slot0, job.mem} \subseteq Nat
     /\ job.finishedAt \in Int
     /\ job.from >= job.arrived
     /\ job.pc = "dma1" =>
          /\ FitsAt(chSlots[Channel], chStart[Channel], Lat.dma0, job.from, job.slot0)
          /\ FitsAt(dieSlots[Die], dieStart[Die], Lat.dma0 + Lat.mem, job.from, job.mem)

\* The addresses of a request that are left are those of later pages.
Addresses(block, page) == {Address(block, page, i) : i \in 0 .. PagesInSuperPage - 1}
AddressInv ==
  /\ \A o \in ops : /\ o.block \in 0 .. SuperBlocks - 1
                    /\ o.address \in Addresses(o.block, o.address.page)
  /\ \A o, p \in ops : o # p /\ o.request = p.request => o.address # p.address
  /\ job # Idle =>
       /\ job.list \in Seq(Addresses(job.block, job.page)) /\ job.list # <<>>
       /\ \A i, j \in 1 .. Len(job.list) : i # j => job.list[i] # job.list[j]
       /\ \A o \in ops : o.request = Len(answered) + 1 =>
            \A i \in 1 .. Len(job.list) : o.address # job.list[i]

ShapeInv ==
  /\ layout \in Layouts
  /\ chSlots = [c \in Channels |-> chSlots[c]]
  /\ chStart = [c \in Channels |-> chStart[c]]
  /\ dieSlots = [d \in Dies |-> dieSlots[d]]
  /\ dieStart = [d \in Dies |-> dieStart[d]]

IInv ==
  /\ ShapeInv
  /\ \A c \in Channels : ChannelInv(c)
  /\ \A d \in Dies : DieInv(d)
  /\ TimeInv
  /\ AnswerInv
  /\ JobInv
  /\ AddressInv

-----------------------------------------------------------------------------
(* Numbers.                                                                *)

(***************************************************************************)
(* Max is the element that no other one exceeds.                           *)
(***************************************************************************)
LEMMA MaxIs ==
  ASSUME NEW T, T \subseteq Int, NEW x \in T, \A y \in T : y <= x
  PROVE  Max(T) = x
<1>1. \A y \in T : (\A z \in T : z <= y) => y = x
  OBVIOUS
<1> QED BY <1>1 DEF Max

LEMMA MaxOfTwo ==
  ASSUME NEW a \in Int, NEW b \in Int
  PROVE  Max({a, b}) = IF a <= b THEN b ELSE a
<1>1. CASE a <= b
  BY <1>1, MaxIs
<1>2. CASE ~(a <= b)
  BY <1>2, MaxIs
<1> QED BY <1>1, <1>2

-----------------------------------------------------------------------------
(* Classes of slots.                                                       *)

(***************************************************************************)
(* The classes a length reaches: the largest of them is there if any is.   *)
(***************************************************************************)
LEMMA BelowLemma ==
  ASSUME NEW classes, Classes(classes), NEW len \in Int, Below(classes, len) # {}
  PROVE  /\ Max(Below(classes, len)) \in classes
         /\ Max(Below(classes, len)) <= len
         /\ \A c \in Below(classes, len) : c <= Max(Below(classes, len))
<1>1. \A c \in Below(classes, len) : c \in classes /\ c \in Nat \ {0} /\ c <= len
  BY DEF Below, Classes
<1>2. len \in Nat
  BY <1>1
<1>3. Below(classes, len) \subseteq 1 .. len
  BY <1>1, <1>2
<1>4. /\ Max(Below(classes, len)) \in Below(classes, len)
      /\ \A c \in Below(classes, len) : c <= Max(Below(classes, len))
  BY <1>2, <1>3, MaxLemma
<1> QED BY <1>1, <1>4

(***************************************************************************)
(* What is no longer than one of the classes is dropped, never what is.    *)
(***************************************************************************)
LEMMA LongEnoughIsKept ==
  ASSUME NEW classes, Classes(classes), NEW len \in Int, Min(classes) <= len
  PROVE  Below(classes, len) # {}
<1>1. Min(classes) \in classes
  BY MinLemma DEF Classes
<1> QED BY <1>1 DEF Below

(***************************************************************************)
(* A search for a length begins at no class above that of a longer slot.   *)
(***************************************************************************)
LEMMA FirstClassLemma ==
  ASSUME NEW classes, Classes(classes), NEW s \in SlotSet, WellClassed(s, classes),
         NEW len \in Int, len <= s.to - s.from + 1
  PROVE  s.class >= FirstClass(classes, len)
<1> DEFINE own == Below(classes, s.to - s.from + 1)
           sought == Below(classes, len)
<1>1. s.to - s.from + 1 \in Int /\ own # {} /\ s.class = Max(own)
  BY DEF WellClassed, SlotSet
<1>2. Max(own) \in classes /\ \A c \in own : c <= Max(own)
  BY <1>1, BelowLemma
<1>3. classes \subseteq Nat
  BY DEF Classes
<1>4. CASE sought = {}
  <2>1. \A y \in classes : Min(classes) <= y
    BY <1>3, MinLemma DEF Classes
  <2>2. FirstClass(classes, len) = Min(classes)
    BY <1>4 DEF FirstClass
  <2>3. Min(classes) \in Nat
    BY <1>3, MinLemma DEF Classes
  <2> QED BY ONLY <1>1, <1>2, <1>3, <2>1, <2>2, <2>3
<1>5. CASE sought # {}
  <2>1. Max(sought) \in classes /\ Max(sought) <= len
    BY <1>5, BelowLemma
  <2>2. Max(sought) \in own
    <3>1. PICK c : c = Max(sought)
      OBVIOUS
    <3>2. c \in Nat /\ s.to \in Nat /\ s.from \in Nat
      BY <2>1, <3>1, <1>3 DEF SlotSet
    <3>3. c <= s.to - s.from + 1
      BY <2>1, <3>1, <3>2
    <3> QED BY <2>1, <3>1, <3>3 DEF Below
  <2>3. FirstClass(classes, len) = Max(sought)
    BY <1>5 DEF FirstClass
  <2> QED BY ONLY <1>1, <1>2, <1>3, <2>1, <2>2, <2>3
<1> QED BY <1>4, <1>5

-----------------------------------------------------------------------------
(* Searching for free time.                                                *)

(***************************************************************************)
(* Of one slot the lowest is that one.                                     *)
(***************************************************************************)
LEMMA LowestOfOne ==
  ASSUME NEW s, s.class \in Nat
  PROVE  Lowest({s}) = s
<1>1. s.class <= s.class
  OBVIOUS
<1> QED BY <1>1 DEF Lowest

(***************************************************************************)
(* A slot that holds the time is the one the search takes at its tick.     *)
(***************************************************************************)
LEMMA ContainingLemma ==
  ASSUME NEW slots, NEW start, NEW classes, Classes(classes),
         Resource(slots, start, classes),
         NEW len \in Nat \ {0}, NEW tick \in Nat,
         NEW s \in slots, s.from <= tick, tick + len - 1 <= s.to
  PROVE  Containing(slots, classes, len, tick) = {s}
<1>1. \A t \in slots : t \in SlotSet /\ WellClassed(t, classes) /\ t.from <= t.to
  BY DEF Resource
<1>2. \A t \in slots : t.from \in Nat /\ t.to \in Nat
  BY <1>1 DEF SlotSet
<1>3. \A t \in slots : t # s => Disjoint(t.from, t.to, s.from, s.to)
  BY DEF Resource
<1>4. s \in Containing(slots, classes, len, tick)
  <2>1. s.class >= FirstClass(classes, len)
    <3>1. len <= s.to - s.from + 1
      BY <1>2
    <3> QED BY <1>1, <3>1, FirstClassLemma
  <2>2. \A t \in slots : t.from <= tick => t.from <= s.from
    <3> TAKE t \in slots
    <3>1. CASE t = s
      BY <3>1, <1>2
    <3>2. CASE t # s
      BY <3>2, <1>1, <1>2, <1>3 DEF Disjoint
    <3> QED BY <3>1, <3>2
  <2>3. s.to >= len + tick - 1
    BY <1>2
  <2> QED BY <2>1, <2>2, <2>3 DEF Containing
<1>5. ASSUME NEW t \in Containing(slots, classes, len, tick)
      PROVE  t = s
  <2>1. t \in slots /\ t.from <= tick /\ t.to >= len + tick - 1
    BY DEF Containing
  <2>2. ~Disjoint(t.from, t.to, s.from, s.to)
    BY <2>1, <1>2 DEF Disjoint
  <2> QED BY <2>1, <2>2, <1>3
<1> QED BY <1>4, <1>5

(***************************************************************************)
(* FindFreeTime and what its callers make of its answer: the time from     *)
(* there on is free, in the slot that is named, and not before the tick    *)
(* that was asked for.                                                     *)
(***************************************************************************)
LEMMA FitResult ==
  ASSUME NEW slots, NEW start, NEW classes, Classes(classes),
         Resource(slots, start, classes),
         NEW len \in Nat \ {0}, NEW from \in Nat,
         NEW r, r = Fit(slots, classes, start, len, from)
  PROVE  /\ r.slot \in Nat /\ r.at \in Nat /\ r.at >= from
         /\ FitsAt(slots, start, len, r.at, r.slot)
         /\ r.slot <= from => r.at = from
<1> DEFINE here == Containing(slots, classes, len, from)
           later == LongEnoughLater(slots, classes, len, from)
           ticks == {s.from : s \in later}
<1>1. \A t \in slots : t.from \in Nat /\ t.to \in Nat /\ t.class \in Nat
  BY DEF Resource, SlotSet
<1>2. start \in Nat
  BY DEF Resource
<1>3. CASE here # {}
  <2>1. PICK s \in here : TRUE
    BY <1>3
  <2>2. s \in slots /\ s.from <= from /\ from + len - 1 <= s.to
    BY <1>1 DEF Containing
  <2>3. here = {s}
    BY <2>2, ContainingLemma
  <2>4. Lowest(here) = s
    BY <2>3, <2>2, LowestOfOne DEF Resource, SlotSet
  <2>5. FindFreeTime(slots, classes, len, from)
          = [found |-> TRUE, tick |-> s.from, conflicts |-> FALSE]
    BY <1>3, <2>4 DEF FindFreeTime
  <2>6. r = [slot |-> s.from, at |-> from]
    BY <2>5 DEF Fit
  <2>7. r.slot = s.from /\ r.at = from
    BY <2>6
  <2> QED BY ONLY <2>7, <2>2, <1>1, from \in Nat DEF FitsAt
<1>4. CASE here = {} /\ later # {}
  <2>1. ticks \subseteq Nat /\ ticks # {}
    BY <1>4, <1>1 DEF LongEnoughLater
  <2>2. Min(ticks) \in ticks
    BY <2>1, MinLemma
  <2>3. PICK s \in later : s.from = Min(ticks)
    BY <2>2
  <2>4. s \in slots /\ s.from > from /\ s.from + len - 1 <= s.to
    BY <1>1 DEF LongEnoughLater
  <2>5. FindFreeTime(slots, classes, len, from)
          = [found |-> TRUE, tick |-> s.from, conflicts |-> TRUE]
    BY <1>4, <2>3 DEF FindFreeTime
  <2>6. r = [slot |-> s.from, at |-> s.from]
    BY <2>5 DEF Fit
  <2>7. r.slot = s.from /\ r.at = s.from
    BY <2>6
  <2> QED BY ONLY <2>7, <2>4, <1>1, from \in Nat DEF FitsAt
<1>5. CASE here = {} /\ later = {}
  <2>1. FindFreeTime(slots, classes, len, from)
          = [found |-> FALSE, tick |-> 0, conflicts |-> FALSE]
    BY <1>5 DEF FindFreeTime
  <2>2. r = [slot |-> start, at |-> Max({from, start})]
    BY <2>1 DEF Fit
  <2>3. r.slot = start /\ r.at = Max({from, start})
    BY <2>2
  <2>4. Max({from, start}) = IF from <= start THEN start ELSE from
    BY <1>2, MaxOfTwo
  <2> QED BY ONLY <2>3, <2>4, <1>2, from \in Nat DEF FitsAt
<1> QED BY <1>3, <1>4, <1>5

(***************************************************************************)
(* Where the time is free, a search from there stays there.                *)
(***************************************************************************)
LEMMA FitStays ==
  ASSUME NEW slots, NEW start, NEW classes, Classes(classes),
         Resource(slots, start, classes),
         NEW len \in Nat \ {0}, NEW tick \in Nat, NEW slot,
         FitsAt(slots, start, len, tick, slot)
  PROVE  Fit(slots, classes, start, len, tick) = [slot |-> slot, at |-> tick]
<1>1. \A t \in slots : t.from \in Nat /\ t.to \in Nat /\ t.to < start
  BY DEF Resource, SlotSet
<1>2. start \in Nat
  BY DEF Resource
<1>3. CASE \E s \in slots : s.from = slot /\ tick + len - 1 <= s.to
  <2>1. PICK s \in slots : s.from = slot /\ tick + len - 1 <= s.to
    BY <1>3
  <2>2. Containing(slots, classes, len, tick) = {s}
    BY <2>1, ContainingLemma DEF FitsAt
  <2>3. FindFreeTime(slots, classes, len, tick)
          = [found |-> TRUE, tick |-> s.from, conflicts |-> FALSE]
    <3>1. Lowest({s}) = s
      BY <2>1, LowestOfOne DEF Resource, SlotSet
    <3> QED BY <2>2, <3>1 DEF FindFreeTime
  <2> QED BY <2>1, <2>3 DEF Fit
<1>4. CASE slot = start
  <2>1. start <= tick
    BY <1>4 DEF FitsAt
  <2>2. Containing(slots, classes, len, tick) = {}
    <3> SUFFICES ASSUME NEW s \in Containing(slots, classes, len, tick)
                 PROVE FALSE
      OBVIOUS
    <3>1. s \in slots /\ s.to >= len + tick - 1
      BY DEF Containing
    <3> QED BY <3>1, <2>1, <1>1, <1>2
  <2>3. LongEnoughLater(slots, classes, len, tick) = {}
    <3> SUFFICES ASSUME NEW s \in LongEnoughLater(slots, classes, len, tick)
                 PROVE FALSE
      OBVIOUS
    <3>1. s \in slots /\ s.from > tick /\ s.to >= len + s.from - 1
      BY DEF LongEnoughLater
    <3> QED BY <3>1, <2>1, <1>1, <1>2
  <2>4. FindFreeTime(slots, classes, len, tick)
          = [found |-> FALSE, tick |-> 0, conflicts |-> FALSE]
    BY <2>2, <2>3 DEF FindFreeTime
  <2>5. Max({tick, start}) = tick
    <3>1. Max({tick, start}) = IF tick <= start THEN start ELSE tick
      BY <1>2, MaxOfTwo
    <3> QED BY <3>1, <2>1, <1>2
  <2> QED BY <2>4, <2>5, <1>4 DEF Fit
<1> QED BY <1>3, <1>4 DEF FitsAt

(***************************************************************************)
(* A tick lies in one slot only.                                           *)
(***************************************************************************)
LEMMA FitsInOneSlot ==
  ASSUME NEW slots, NEW start, NEW classes, Classes(classes),
         Resource(slots, start, classes), NEW tick \in Nat,
         NEW n \in Nat \ {0}, NEW slot, FitsAt(slots, start, n, tick, slot),
         NEW m \in Nat \ {0}, NEW other, FitsAt(slots, start, m, tick, other)
  PROVE  slot = other
<1>1. Fit(slots, classes, start, 1, tick) = [slot |-> slot, at |-> tick]
  <2>1. FitsAt(slots, start, 1, tick, slot)
    <3>1. \A s \in slots : s.to \in Nat
      BY DEF Resource, SlotSet
    <3> QED BY <3>1 DEF FitsAt
  <2> QED BY <2>1, FitStays
<1>2. Fit(slots, classes, start, 1, tick) = [slot |-> other, at |-> tick]
  <2>1. FitsAt(slots, start, 1, tick, other)
    <3>1. \A s \in slots : s.to \in Nat
      BY DEF Resource, SlotSet
    <3> QED BY <3>1 DEF FitsAt
  <2> QED BY <2>1, FitStays
<1>3. [slot |-> slot, at |-> tick].slot = [slot |-> other, at |-> tick].slot
  BY <1>1, <1>2
<1> QED BY <1>3

-----------------------------------------------------------------------------
(* Taking time out of a slot.                                              *)

\* Nothing but a slot of these bounds was added.
Added(slots, r, a, b) ==
  /\ slots \subseteq r
  /\ \A t \in r : t \in slots \/ (t.from = a /\ t.to = b)

\* Nobody has this time as free: it may become a slot.
Spare(slots, a, b) == \A s \in slots : Disjoint(s.from, s.to, a, b)

(***************************************************************************)
(* AddFreeSlot keeps the slots apart and in their classes, and keeps every *)
(* piece that is as long as the smallest class.                            *)
(***************************************************************************)
LEMMA AddLemma ==
  ASSUME NEW slots, NEW start, NEW classes, Classes(classes),
         Resource(slots, start, classes),
         NEW len \in Nat, NEW from \in Nat, NEW end, end = from + len - 1,
         Spare(slots, from, end),
         NEW start2 \in Nat, start <= start2, end < start2,
         NEW r, r = AddFreeSlot(slots, classes, len, from)
  PROVE  /\ Resource(r, start2, classes)
         /\ Added(slots, r, from, end)
         /\ Min(classes) <= len => \E t \in r : t.from = from /\ t.to = end
<1> DEFINE c == Max(Below(classes, len))
           new == [class |-> c, from |-> from, to |-> end]
<1>1. /\ start \in Nat
      /\ \A s \in slots : /\ s \in SlotSet /\ s.from \in Nat /\ s.to \in Nat
                          /\ s.from <= s.to /\ s.to < start
                          /\ WellClassed(s, classes)
      /\ \A s, t \in slots : s # t => Disjoint(s.from, s.to, t.from, t.to)
  BY DEF Resource, SlotSet
<1>2. CASE Below(classes, len) = {}
  <2>1. r = slots
    BY <1>2 DEF AddFreeSlot
  <2>2. ~(Min(classes) <= len)
    BY <1>2, LongEnoughIsKept
  <2>3. Resource(slots, start2, classes)
    <3>1. slots \subseteq SlotSet
      BY <1>1
    <3>2. \A s \in slots : s.to < start2
      BY <1>1
    <3> QED BY ONLY <1>1, <3>1, <3>2, start2 \in Nat DEF Resource
  <2> QED BY <2>1, <2>2, <2>3 DEF Added
<1>3. CASE Below(classes, len) # {}
  <2>1. c \in Nat \ {0} /\ c <= len
    <3>1. c \in classes /\ c <= len
      BY <1>3, BelowLemma
    <3>2. classes \subseteq Nat \ {0}
      BY DEF Classes
    <3> QED BY ONLY <3>1, <3>2
  <2>2. from <= end /\ end \in Nat
    BY <2>1
  <2>3. ~\E s \in slots : s.class = c /\ s.from = from
    BY <1>1, <2>2 DEF Spare, Disjoint
  <2>4. r = slots \cup {new}
    BY <1>3, <2>3 DEF AddFreeSlot
  <2>5. new.class = c /\ new.from = from /\ new.to = end /\ new \in SlotSet
    BY <2>1, <2>2 DEF SlotSet
  <2>6. WellClassed(new, classes)
    <3>1. end - from + 1 = len
      OBVIOUS
    <3> QED BY ONLY <2>5, <3>1, <1>3 DEF WellClassed
  <2> HIDE DEF new
  <2>7. Resource(r, start2, classes)
    <3>1. r \subseteq SlotSet
      BY <2>4, <2>5, <1>1
    <3>2. \A s \in r : s.from <= s.to /\ s.to < start2 /\ WellClassed(s, classes)
      <4>1. \A s \in slots : s.to < start2
        BY <1>1
      <4> QED BY ONLY <4>1, <2>2, <2>4, <2>5, <2>6, <1>1, end < start2
    <3>3. ASSUME NEW s \in r, NEW t \in r, s # t
          PROVE  Disjoint(s.from, s.to, t.from, t.to)
      <4>1. CASE s \in slots /\ t \in slots
        BY <4>1, <3>3, <1>1
      <4>2. CASE s = new /\ t \in slots
        BY <4>2, <2>5 DEF Spare, Disjoint
      <4>3. CASE s \in slots /\ t = new
        BY <4>3, <2>5 DEF Spare, Disjoint
      <4> QED BY <4>1, <4>2, <4>3, <3>3, <2>4
    <3> QED BY ONLY <3>1, <3>2, <3>3, start2 \in Nat DEF Resource
  <2>8. Added(slots, r, from, end)
    BY ONLY <2>4, <2>5 DEF Added
  <2> QED BY <2>4, <2>5, <2>7, <2>8
<1> QED BY <1>2, <1>3

(***************************************************************************)
(* Fewer slots are a resource still.                                       *)
(***************************************************************************)
LEMMA FewerSlots ==
  ASSUME NEW slots, NEW start, NEW classes, Resource(slots, start, classes),
         NEW r \in SUBSET slots
  PROVE  /\ Resource(r, start, classes)
         /\ \A a, b : Taken(slots, start, a, b) => Taken(r, start, a, b)
BY DEF Resource, Taken

\* What InsertFreeSlot does to the free time.  Every slot lies in old free
\* time, the time is not free any more unless it was only split off, and a
\* later time that fitted fits still.
Inserted(slots, start, classes, len, from, split, r) ==
  /\ r.ok
  /\ Resource(r.slots, r.start, classes)
  /\ start <= r.start /\ from + len - 1 < r.start
  /\ \A t \in r.slots :
       start <= t.from \/ \E s \in slots : s.from <= t.from /\ t.to <= s.to
  /\ ~split => Spare(r.slots, from, from + len - 1)
  /\ \A n \in Nat, at \in Nat, x \in Nat :
       Min(classes) <= n /\ from + len <= at /\ FitsAt(slots, start, n, at, x)
         => \E y \in Nat : FitsAt(r.slots, r.start, n, at, y)

(***************************************************************************)
(* A piece that is added on a condition only.                              *)
(***************************************************************************)
LEMMA MaybeAdd ==
  ASSUME NEW slots, NEW start, NEW classes, Classes(classes),
         Resource(slots, start, classes),
         NEW P \in BOOLEAN, NEW len, P => len \in Nat, NEW from \in Nat,
         NEW end, P => end = from + len - 1,
         P => Spare(slots, from, end),
         NEW start2 \in Nat, start <= start2, P => end < start2,
         NEW r, r = IF P THEN AddFreeSlot(slots, classes, len, from) ELSE slots
  PROVE  /\ Resource(r, start2, classes)
         /\ Added(slots, r, from, end)
         /\ ~P => r = slots
         /\ P /\ Min(classes) <= len => \E t \in r : t.from = from /\ t.to = end
<1>1. CASE P
  <2>1. r = AddFreeSlot(slots, classes, len, from)
    BY <1>1
  <2>2. /\ Resource(r, start2, classes)
        /\ Added(slots, r, from, end)
        /\ Min(classes) <= len => \E t \in r : t.from = from /\ t.to = end
    BY <1>1, <2>1, AddLemma
  <2> QED BY <1>1, <2>2
<1>2. CASE ~P
  <2>1. r = slots
    BY <1>2
  <2>2. Added(slots, slots, from, end)
    BY DEF Added
  <2>3. Resource(slots, start2, classes)
    <3>1. \A s \in slots : s.to \in Nat
      BY DEF Resource, SlotSet
    <3>2. start \in Nat
      BY DEF Resource
    <3>3. \A s \in slots : s.to < start2
      BY <3>1, <3>2 DEF Resource
    <3> QED BY <3>3 DEF Resource
  <2> QED BY <1>2, <2>1, <2>2, <2>3
<1> QED BY <1>1, <1>2

(***************************************************************************)
(* InsertFreeSlot behind the start point.                                  *)
(***************************************************************************)
LEMMA InsertAtStart ==
  ASSUME NEW slots, NEW start, NEW classes, Classes(classes),
         Resource(slots, start, classes),
         NEW len \in Nat, NEW from \in Nat, start <= from,
         NEW split \in BOOLEAN, NEW r,
         r = InsertFreeSlot(slots, classes, start, len, from, start, split)
  PROVE  Inserted(slots, start, classes, len, from, split, r)
<1>1. /\ start \in Nat
      /\ \A s \in slots : s.from \in Nat /\ s.to \in Nat /\ s.from <= s.to /\ s.to < start
  BY DEF Resource, SlotSet
<1>2. PICK end : end = from + len - 1
  OBVIOUS
<1>3. PICK kept : kept = AddSplit(slots, classes, len, from, split)
  OBVIOUS
<1>4. Spare(slots, from, end)
  BY <1>1, <1>2 DEF Spare, Disjoint
<1>5. PICK start2 \in Nat : start2 = from + len
  OBVIOUS
<1>6. /\ Resource(kept, start2, classes)
      /\ Added(slots, kept, from, end)
      /\ ~split => kept = slots
  <2>1. start <= start2 /\ end < start2
    BY <1>1, <1>2, <1>5
  <2>2. kept = IF split THEN AddFreeSlot(slots, classes, len, from) ELSE slots
    BY <1>3 DEF AddSplit
  <2> QED BY <1>2, <1>4, <1>5, <2>1, <2>2, MaybeAdd
<1>7. PICK all : all = AddFront(kept, classes, from, start)
  OBVIOUS
<1>8. r = [slots |-> all, start |-> start2, ok |-> from >= start]
  BY <1>3, <1>5, <1>7 DEF InsertFreeSlot
<1>9. r.slots = all /\ r.start = start2 /\ r.ok
  <2>1. (from >= start) = TRUE
    BY <1>1
  <2>2. r = [slots |-> all, start |-> start2, ok |-> TRUE]
    BY ONLY <1>8, <2>1
  <2> QED BY ONLY <2>2
<1>10. Resource(all, start2, classes) /\ Added(kept, all, start, from - 1)
  <2> DEFINE P == start < from
             n == from - start
             last == from - 1
  <2>2. P => n \in Nat /\ last = start + n - 1 /\ last < start2
    BY <1>1, <1>5
  <2>3. Spare(kept, start, from - 1)
    <3> SUFFICES ASSUME NEW t \in kept PROVE Disjoint(t.from, t.to, start, from - 1)
      BY DEF Spare
    <3>1. t \in slots \/ t.from = from
      BY <1>6 DEF Added
    <3> QED BY <3>1, <1>1 DEF Disjoint
  <2>4. Spare(kept, start, last)
    BY <2>3
  <2>5. all = IF P THEN AddFreeSlot(kept, classes, n, start) ELSE kept
    BY <1>7 DEF AddFront
  <2>6. start2 <= start2 /\ start \in Nat /\ P \in BOOLEAN
    BY <1>1
  <2> HIDE DEF P, n, last
  <2>7. Resource(all, start2, classes) /\ Added(kept, all, start, last)
    BY ONLY <2>2, <2>4, <2>5, <2>6, <1>6,  start2 \in Nat,
            Classes(classes), MaybeAdd
  <2> QED BY <2>7 DEF last
<1>11. \A t \in all : t \in slots \/ (t.from = from /\ t.to = end)
                      \/ (t.from = start /\ t.to = from - 1)
  BY <1>6, <1>10 DEF Added
<1>12. start <= start2 /\ from + len - 1 < start2
  BY <1>1, <1>5
<1>13. \A t \in all :
         start <= t.from \/ \E s \in slots : s.from <= t.from /\ t.to <= s.to
  BY <1>1, <1>11
<1>14. ~split => Spare(all, from, from + len - 1)
  <2> SUFFICES ASSUME ~split, NEW t \in all
               PROVE  Disjoint(t.from, t.to, from, from + len - 1)
    BY DEF Spare
  <2>1. t \in slots \/ (t.from = start /\ t.to = from - 1)
    BY <1>6, <1>10 DEF Added
  <2> QED BY <2>1, <1>1 DEF Disjoint
<1>15. ASSUME NEW n \in Nat, NEW at \in Nat, NEW x \in Nat,
              Min(classes) <= n, from + len <= at, FitsAt(slots, start, n, at, x)
       PROVE  \E y \in Nat : FitsAt(all, start2, n, at, y)
  BY <1>15, <1>5 DEF FitsAt
<1> QED BY ONLY <1>9, <1>10, <1>12, <1>13, <1>14, <1>15 DEF Inserted

(***************************************************************************)
(* Taking the time out of a slot it lies in.                               *)
(***************************************************************************)
LEMMA TakeOutLemma ==
  ASSUME NEW slots, NEW start, NEW classes, Classes(classes),
         Resource(slots, start, classes),
         NEW len \in Nat, NEW from \in Nat,
         NEW s \in slots, s.from <= from, from + len - 1 <= s.to,
         NEW split \in BOOLEAN, NEW r,
         r = TakeOut(slots, classes, len, from, s, split)
  PROVE  /\ Resource(r, start, classes)
         /\ slots \ {s} \subseteq r
         /\ \A t \in r : \E u \in slots : u.from <= t.from /\ t.to <= u.to
         /\ ~split => Spare(r, from, from + len - 1)
         /\ Min(classes) <= s.to - (from + len - 1)
              => \E t \in r : t.from = from + len /\ t.to = s.to
<1> DEFINE without == slots \ {s}
           end == from + len - 1
           P == s.from < from
           n == from - s.from
           Q == s.to > len + from - 1
           m == s.to - end
           next == from + len
           left == AddFront(without, classes, from, s.from)
           rest == AddSplit(left, classes, len, from, split)
<1>1. /\ start \in Nat
      /\ \A t \in slots : t.from \in Nat /\ t.to \in Nat /\ t.from <= t.to /\ t.to < start
      /\ \A t \in without : Disjoint(t.from, t.to, s.from, s.to)
  BY DEF Resource, SlotSet
<1>2. /\ s.from \in Nat /\ s.to \in Nat /\ s.to < start /\ s.from <= s.to
      /\ start \in Nat /\ len \in Nat /\ from \in Nat
      /\ s.from <= from /\ from + len - 1 <= s.to
  BY <1>1
<1>3. Resource(without, start, classes)
  BY FewerSlots
<1>4. Resource(left, start, classes) /\ Added(without, left, s.from, from - 1)
  <2> DEFINE last == from - 1
  <2>1. P => n \in Nat /\ last = s.from + n - 1 /\ last < start
    BY ONLY <1>2
  <2>2. Spare(without, s.from, last)
    BY <1>1, <1>2 DEF Spare, Disjoint
  <2>3. left = IF P THEN AddFreeSlot(without, classes, n, s.from) ELSE without
    BY DEF AddFront
  <2>4. start <= start /\ P \in BOOLEAN
    BY <1>1, <1>2
  <2> HIDE DEF P, n, last, left, without
  <2>5. Resource(left, start, classes) /\ Added(without, left, s.from, last)
    BY ONLY <2>1, <2>2, <2>3, <2>4, <1>1, <1>2, <1>3, Classes(classes), MaybeAdd
  <2> QED BY <2>5 DEF last
<1>5. /\ Resource(rest, start, classes) /\ Added(left, rest, from, end)
      /\ ~split => rest = left
  <2>1. end < start
    BY ONLY <1>2
  <2>2. Spare(left, from, end)
    <3> SUFFICES ASSUME NEW t \in left PROVE Disjoint(t.from, t.to, from, end)
      BY DEF Spare
    <3>1. t \in without \/ t.to = from - 1
      BY <1>4 DEF Added
    <3>2. CASE t \in without
      BY <3>2, <1>1, <1>2 DEF Disjoint
    <3>3. CASE t.to = from - 1
      BY <3>3 DEF Disjoint
    <3> QED BY <3>1, <3>2, <3>3
  <2> DEFINE K == split
  <2>3. rest = IF K THEN AddFreeSlot(left, classes, len, from) ELSE left
    BY DEF AddSplit
  <2>4. /\ start <= start /\ K \in BOOLEAN /\ start \in Nat /\ from \in Nat
        /\ K => len \in Nat /\ end = from + len - 1 /\ end < start
    BY ONLY <1>2, <2>1, split \in BOOLEAN
  <2> HIDE DEF left, end, rest, K
  <2>5. /\ Resource(rest, start, classes) /\ Added(left, rest, from, end)
        /\ ~K => rest = left
    BY ONLY <2>2, <2>3, <2>4, <1>4, Classes(classes), MaybeAdd
  <2> QED BY <2>5 DEF K
<1>6. /\ Resource(r, start, classes) /\ Added(rest, r, next, s.to)
      /\ Q /\ Min(classes) <= m => \E t \in r : t.from = next /\ t.to = s.to
  <2>1. Q => m \in Nat /\ s.to = next + m - 1 /\ s.to < start
    BY <1>2
  <2>2. Spare(rest, next, s.to)
    <3> SUFFICES ASSUME NEW t \in rest PROVE Disjoint(t.from, t.to, next, s.to)
      BY DEF Spare
    <3>1. t \in without \/ t.to = from - 1 \/ t.to = end
      BY <1>4, <1>5 DEF Added
    <3>2. CASE t \in without
      BY <3>2, <1>1, <1>2 DEF Disjoint
    <3>3. CASE t.to = from - 1 \/ t.to = end
      BY <3>3 DEF Disjoint
    <3> QED BY <3>1, <3>2, <3>3
  <2>3. r = IF Q THEN AddFreeSlot(rest, classes, m, next) ELSE rest
    BY DEF TakeOut
  <2>4. start <= start /\ Q \in BOOLEAN /\ next \in Nat
    BY <1>1, <1>2
  <2> HIDE DEF Q, m, next, rest
  <2> QED BY ONLY <2>1, <2>2, <2>3, <2>4, <1>1, <1>5, Classes(classes), MaybeAdd
<1>7. \A t \in r : t \in without \/ (t.from = s.from /\ t.to = from - 1)
                   \/ (t.from = from /\ t.to = end) \/ (t.from = next /\ t.to = s.to)
  BY <1>4, <1>5, <1>6 DEF Added
<1>8. without \subseteq r
  BY <1>4, <1>5, <1>6 DEF Added
<1>9. \A t \in r : \E u \in slots : u.from <= t.from /\ t.to <= u.to
  <2> TAKE t \in r
  <2>1. CASE t \in without
    <3>1. t \in slots /\ t.from <= t.from /\ t.to <= t.to
      BY <2>1, <1>1
    <3> QED BY <3>1
  <2>2. CASE t \notin without
    <3>1. s.from <= t.from /\ t.to <= s.to
      BY <2>2, <1>2, <1>7
    <3> QED BY <3>1
  <2> QED BY <2>1, <2>2
<1>10. ASSUME ~split
       PROVE  Spare(r, from, end)
  <2> SUFFICES ASSUME NEW t \in r
               PROVE  Disjoint(t.from, t.to, from, end)
    BY DEF Spare
  <2>1. t \in without \/ t.to = from - 1 \/ t.from = next
    BY <1>10, <1>4, <1>5, <1>6 DEF Added
  <2>2. CASE t \in without
    BY <2>2, <1>1, <1>2 DEF Disjoint
  <2>3. CASE t.to = from - 1 \/ t.from = next
    BY <2>3 DEF Disjoint
  <2> QED BY <2>1, <2>2, <2>3
<1>11. Min(classes) <= m => Q
  <2>1. Min(classes) \in Nat \ {0}
    BY MinLemma DEF Classes
  <2> QED BY <2>1, <1>2
<1> QED BY <1>6, <1>8, <1>9, <1>10, <1>11

(***************************************************************************)
(* InsertFreeSlot, of a time that fits.                                    *)
(***************************************************************************)
LEMMA InsertLemma ==
  ASSUME NEW slots, NEW start, NEW classes, Classes(classes),
         Resource(slots, start, classes),
         NEW len \in Nat, NEW from \in Nat, NEW tick \in Nat,
         FitsAt(slots, start, len, from, tick),
         NEW split \in BOOLEAN, NEW r,
         r = InsertFreeSlot(slots, classes, start, len, from, tick, split)
  PROVE  Inserted(slots, start, classes, len, from, split, r)
<1>1. CASE tick = start
  BY <1>1, InsertAtStart DEF FitsAt
<1>2. CASE tick # start
  <2>1. PICK s \in slots : s.from = tick /\ from + len - 1 <= s.to
    BY <1>2 DEF FitsAt
  <2>2. tick <= from
    BY DEF FitsAt
  <2>3. /\ start \in Nat
        /\ \A t \in slots : /\ t.from \in Nat /\ t.to \in Nat
                            /\ t.from <= t.to /\ t.to < start
        /\ \A t \in slots : t # s => Disjoint(t.from, t.to, s.from, s.to)
        /\ s \in SlotSet /\ WellClassed(s, classes)
    BY DEF Resource, SlotSet
  <2>4. SlotsFrom(slots, classes, len, tick) = {s}
    <3>1. s \in SlotsFrom(slots, classes, len, tick)
      <4>1. len <= s.to - s.from + 1
        BY <2>1, <2>2, <2>3
      <4>2. s.class >= FirstClass(classes, len)
        BY <2>3, <4>1, FirstClassLemma
      <4> QED BY <2>1, <4>2 DEF SlotsFrom
    <3>2. ASSUME NEW t \in SlotsFrom(slots, classes, len, tick)
          PROVE  t = s
      <4>1. t \in slots /\ t.from = s.from
        BY <2>1 DEF SlotsFrom
      <4> QED BY <4>1, <2>3 DEF Disjoint
    <3> QED BY <3>1, <3>2
  <2>5. Lowest(SlotsFrom(slots, classes, len, tick)) = s
    BY <2>3, <2>4, LowestOfOne DEF SlotSet
  <2>6. PICK taken : taken = TakeOut(slots, classes, len, from, s, split)
    OBVIOUS
  <2>7. r = [slots |-> taken, start |-> start,
             ok |-> tick <= from /\ s.to - from + 1 >= len]
    BY <1>2, <2>4, <2>5, <2>6 DEF InsertFreeSlot
  <2>8. (tick <= from /\ s.to - from + 1 >= len) = TRUE
    BY <2>1, <2>2, <2>3
  <2>9. r = [slots |-> taken, start |-> start, ok |-> TRUE]
    BY ONLY <2>7, <2>8
  <2>10. r.slots = taken /\ r.start = start /\ r.ok
    BY ONLY <2>9
  <2>11. /\ Resource(taken, start, classes)
         /\ slots \ {s} \subseteq taken
         /\ \A t \in taken : \E u \in slots : u.from <= t.from /\ t.to <= u.to
         /\ ~split => Spare(taken, from, from + len - 1)
         /\ Min(classes) <= s.to - (from + len - 1)
              => \E t \in taken : t.from = from + len /\ t.to = s.to
    BY <2>1, <2>2, <2>6, TakeOutLemma
  <2>12. start <= start /\ from + len - 1 < start
    BY <2>1, <2>3
  <2>13. ASSUME NEW n \in Nat, NEW at \in Nat, NEW x \in Nat,
                Min(classes) <= n, from + len <= at, FitsAt(slots, start, n, at, x)
         PROVE  \E y \in Nat : FitsAt(taken, start, n, at, y)
    <3>1. CASE x = start
      BY <3>1, <2>13 DEF FitsAt
    <3>2. CASE x # start
      <4>1. PICK u \in slots : u.from = x /\ at + n - 1 <= u.to
        BY <3>2, <2>13 DEF FitsAt
      <4>2. CASE u # s
        <5>1. u \in taken
          BY <4>2, <2>11
        <5> QED BY <5>1, <4>1, <2>13 DEF FitsAt
      <4>3. CASE u = s
        <5>1. Min(classes) \in Nat
          BY MinLemma DEF Classes
        <5>2. Min(classes) <= s.to - (from + len - 1)
          BY <5>1, <4>1, <4>3, <2>3, <2>13
        <5>3. PICK t \in taken : t.from = from + len /\ t.to = s.to
          BY <5>2, <2>11
        <5>4. FitsAt(taken, start, n, at, from + len)
          BY <5>3, <4>1, <4>3, <2>13 DEF FitsAt
        <5>5. from + len \in Nat
          OBVIOUS
        <5> QED BY <5>4, <5>5
      <4> QED BY <4>2, <4>3
    <3> QED BY <3>1, <3>2
  <2> QED BY ONLY <2>10, <2>11, <2>12, <2>13 DEF Inserted
<1> QED BY <1>1, <1>2

(***************************************************************************)
(* What was handed out before stays taken, and overlaps with no time that  *)
(* fits now; what is handed out now is taken.                              *)
(***************************************************************************)
LEMMA FitsIsFree ==
  ASSUME NEW slots, NEW start, NEW classes, Resource(slots, start, classes),
         NEW len \in Nat, NEW from \in Nat, NEW tick \in Nat,
         FitsAt(slots, start, len, from, tick),
         NEW a \in Int, NEW b \in Int, Taken(slots, start, a, b)
  PROVE  Disjoint(a, b, from, from + len - 1)
<1>1. start \in Nat /\ \A s \in slots : s.from \in Nat /\ s.to \in Nat
  BY DEF Resource, SlotSet
<1> QED BY <1>1 DEF FitsAt, Taken, Disjoint

LEMMA TakenStays ==
  ASSUME NEW slots, NEW start, NEW classes, Resource(slots, start, classes),
         NEW len \in Nat, NEW from \in Nat, NEW split \in BOOLEAN, NEW r,
         Inserted(slots, start, classes, len, from, split, r),
         NEW a \in Int, NEW b \in Int, Taken(slots, start, a, b)
  PROVE  Taken(r.slots, r.start, a, b)
<1>1. start \in Nat /\ \A s \in slots : s.from \in Nat /\ s.to \in Nat
  BY DEF Resource, SlotSet
<1>2. r.start \in Nat /\ \A s \in r.slots : s.from \in Nat /\ s.to \in Nat
  BY DEF Resource, SlotSet, Inserted
<1>3. b < r.start
  BY <1>1, <1>2 DEF Taken, Inserted
<1>4. ASSUME NEW t \in r.slots
      PROVE  Disjoint(t.from, t.to, a, b)
  <2>1. CASE start <= t.from
    BY <2>1, <1>1, <1>2 DEF Taken, Disjoint
  <2>2. CASE \E s \in slots : s.from <= t.from /\ t.to <= s.to
    <3>1. PICK s \in slots : s.from <= t.from /\ t.to <= s.to
      BY <2>2
    <3>2. Disjoint(s.from, s.to, a, b)
      BY DEF Taken
    <3> QED BY <3>1, <3>2, <1>1, <1>2 DEF Disjoint
  <2> QED BY <2>1, <2>2 DEF Inserted
<1> QED BY <1>3, <1>4 DEF Taken

LEMMA InsertedIsTaken ==
  ASSUME NEW slots, NEW start, NEW classes, NEW len, NEW from, NEW r,
         Inserted(slots, start, classes, len, from, FALSE, r)
  PROVE  Taken(r.slots, r.start, from, from + len - 1)
BY DEF Inserted, Taken, Spare

-----------------------------------------------------------------------------
(* The times of an operation.                                              *)

\* What a resource r comes from a resource slots, start by: it is sound, and
\* what was taken of the old one is taken of it.
Follows(slots, start, classes, r) ==
  /\ Resource(r.slots, r.start, classes)
  /\ \A a, b \in Int : Taken(slots, start, a, b) => Taken(r.slots, r.start, a, b)

(***************************************************************************)
(* A time that fits, once it is taken out.                                 *)
(***************************************************************************)
LEMMA TakeLemma ==
  ASSUME NEW slots, NEW start, NEW classes, Classes(classes),
         Resource(slots, start, classes),
         NEW len \in Nat, NEW from \in Nat, NEW tick \in Nat,
         FitsAt(slots, start, len, from, tick),
         NEW split \in BOOLEAN, NEW r,
         r = InsertFreeSlot(slots, classes, start, len, from, tick, split)
  PROVE  /\ r.ok
         /\ Follows(slots, start, classes, r)
         /\ ~split => Taken(r.slots, r.start, from, from + len - 1)
         /\ \A a, b \in Int : Taken(slots, start, a, b)
                                => Disjoint(a, b, from, from + len - 1)
<1>1. Inserted(slots, start, classes, len, from, split, r)
  BY InsertLemma
<1>2. \A a, b \in Int : Taken(slots, start, a, b) => Taken(r.slots, r.start, a, b)
  BY <1>1, TakenStays
<1>3. \A a, b \in Int : Taken(slots, start, a, b) => Disjoint(a, b, from, from + len - 1)
  BY FitsIsFree
<1>4. ~split => Taken(r.slots, r.start, from, from + len - 1)
  BY <1>1 DEF Inserted, Taken, Spare
<1> QED BY <1>1, <1>2, <1>3, <1>4 DEF Inserted, Follows

LEMMA FollowsTwice ==
  ASSUME NEW slots, NEW start, NEW classes, NEW r, NEW q,
         Follows(slots, start, classes, r), Follows(r.slots, r.start, classes, q)
  PROVE  Follows(slots, start, classes, q)
BY DEF Follows

-----------------------------------------------------------------------------
(* Addresses.                                                              *)

(***************************************************************************)
(* Division, as far as the digits of a number need it.                     *)
(***************************************************************************)
LEMMA DivDiv ==
  ASSUME NEW n \in Nat, NEW w \in Nat \ {0}, NEW k \in Nat \ {0}
  PROVE  (n \div w) \div k = n \div (w * k)
OBVIOUS

LEMMA SameQuotientAndRest ==
  ASSUME NEW n \in Nat, NEW m \in Nat, NEW d \in Nat \ {0},
         n \div d = m \div d, n % d = m % d
  PROVE  n = m
OBVIOUS

LEMMA DivIsNat ==
  ASSUME NEW n \in Nat, NEW d \in Nat \ {0}
  PROVE  n \div d \in Nat
OBVIOUS

LEMMA ModLess ==
  ASSUME NEW n \in Nat, NEW d \in Nat \ {0}
  PROVE  n % d \in 0 .. d - 1
<1>1. n % d \in Nat
  OBVIOUS
<1>2. n % d < d
  OBVIOUS
<1> QED BY <1>1, <1>2

LEMMA LessThanDivisor ==
  ASSUME NEW n \in Nat, NEW d \in Nat \ {0}, n < d
  PROVE  n \div d = 0
OBVIOUS

LEMMA DivLess ==
  ASSUME NEW n \in Nat, NEW d \in Nat \ {0}, NEW b \in Nat, n < b * d
  PROVE  n \div d < b
OBVIOUS

LEMMA PairLess ==
  ASSUME NEW x \in Nat, NEW y \in Nat, NEW k \in Nat, NEW m \in Nat, x < k, y < m
  PROVE  x + y * k < k * m
OBVIOUS

(***************************************************************************)
(* A dimension has its size and its place in the allocation.               *)
(***************************************************************************)
LEMMA LayoutFacts ==
  ASSUME layout \in Layouts
  PROVE  /\ layout.sizes \in [Dimensions -> Nat \ {0}]
         /\ layout.allocation \in [1 .. 4 -> Dimensions]
         /\ \A d \in Dimensions : /\ Position(d) \in 1 .. 4
                                  /\ layout.allocation[Position(d)] = d
         /\ \A i \in 1 .. 4 : Position(layout.allocation[i]) = i
<1>1. /\ layout.sizes \in [Dimensions -> Nat \ {0}]
      /\ layout.allocation \in [1 .. 4 -> Dimensions]
      /\ {layout.allocation[i] : i \in 1 .. 4} = Dimensions
  BY PALAssumption
<1>2. ASSUME NEW d \in Dimensions
      PROVE  Position(d) \in 1 .. 4 /\ layout.allocation[Position(d)] = d
  <2>1. \E i \in 1 .. 4 : layout.allocation[i] = d
    BY <1>1
  <2> QED BY <2>1 DEF Position
<1>3. \A i, j \in 1 .. 4 :
        layout.allocation[i] = layout.allocation[j] => i = j
  <2>1. PICK a : a = layout.allocation
    OBVIOUS
  <2>2. {a[1], a[2], a[3], a[4]} = {"channel", "package", "die", "plane"}
    <3>1. {a[1], a[2], a[3], a[4]} = {a[i] : i \in 1 .. 4}
      OBVIOUS
    <3> QED BY <3>1, <2>1, <1>1 DEF Dimensions
  <2>3. /\ a[1] # a[2] /\ a[1] # a[3] /\ a[1] # a[4]
        /\ a[2] # a[3] /\ a[2] # a[4] /\ a[3] # a[4]
    BY ONLY <2>2
  <2> QED BY ONLY <2>1, <2>3
<1>4. ASSUME NEW i \in 1 .. 4
      PROVE  Position(layout.allocation[i]) = i
  <2>1. layout.allocation[i] \in Dimensions
    BY <1>1
  <2> QED BY <2>1, <1>2, <1>3
<1> QED BY <1>1, <1>2, <1>4

(***************************************************************************)
(* The weights of the digits, from the first dimension on.                 *)
(***************************************************************************)
LEMMA WeightsLemma ==
  ASSUME layout \in Layouts, NEW dims
  PROVE  /\ Weights(dims) \in [0 .. 4 -> Nat \ {0}]
         /\ Weights(dims)[0] = 1
         /\ \A i \in 1 .. 4 :
              Weights(dims)[i] = IF layout.allocation[i] \in dims
                                 THEN Weights(dims)[i - 1] * layout.sizes[layout.allocation[i]]
                                 ELSE Weights(dims)[i - 1]
<1> DEFINE S == Nat \ {0}
           size(i) == layout.sizes[layout.allocation[i]]
           turn(i, x) == IF layout.allocation[i] \in dims THEN x * size(i) ELSE x
           step == [i \in 1 .. 4 |-> [x \in S |-> turn(i, x)]]
           body(f) == [i \in 0 .. 4 |-> IF i = 0 THEN 1
                                        ELSE IF layout.allocation[i] \in dims
                                        THEN f[i - 1] * layout.sizes[layout.allocation[i]]
                                        ELSE f[i - 1]]
<1>1. \A i \in 1 .. 4 : size(i) \in Nat \ {0}
  BY LayoutFacts
<1>2. \A x, y \in Nat \ {0} : x * y \in Nat \ {0}
  OBVIOUS
<1>3. ASSUME NEW i \in 1 .. 4, NEW x \in S
      PROVE  turn(i, x) \in S
  BY <1>1, <1>2
<1>4. step \in [1 .. 4 -> [S -> S]]
  <2> HIDE DEF turn
  <2> QED BY <1>3
<1>5. PICK g : IsTrace(g, 4, S, 1, step)
  <2>1. 1 \in S /\ 4 \in Nat
    OBVIOUS
  <2> HIDE DEF step, S
  <2> QED BY <1>4, <2>1, LoopTrace
<1>6. g \in [0 .. 4 -> S] /\ g[0] = 1 /\ \A i \in 1 .. 4 : g[i] = step[i][g[i - 1]]
  <2> HIDE DEF step, S
  <2> QED BY <1>5 DEF IsTrace
<1>7. \A i \in 1 .. 4 : g[i] = turn(i, g[i - 1])
  <2> TAKE i \in 1 .. 4
  <2>1. i - 1 \in 0 .. 4
    OBVIOUS
  <2>2. g[i - 1] \in S
    BY <2>1, <1>6
  <2> HIDE DEF turn, S
  <2> QED BY <2>2, <1>6
<1>8. g = body(g)
  <2>1. \A i \in 0 .. 4 : g[i] = body(g)[i]
    <3> TAKE i \in 0 .. 4
    <3>1. CASE i = 0
      BY <3>1, <1>6
    <3>2. CASE i # 0
      <4>1. i \in 1 .. 4
        BY <3>2
      <4> QED BY <4>1, <3>2, <1>7
    <3> QED BY <3>1, <3>2
  <2> QED BY <2>1, <1>6
<1>9. Weights(dims) = body(Weights(dims))
  <2>1. Weights(dims) = CHOOSE f : f = body(f)
    BY DEF Weights
  <2> HIDE DEF body
  <2> QED BY <2>1, <1>8
<1> DEFINE W == Weights(dims)
<1> HIDE DEF W
<1>10. W = body(W)
  BY <1>9 DEF W
<1>11. /\ W[0] = 1
       /\ \A i \in 1 .. 4 : W[i] = IF layout.allocation[i] \in dims
                                   THEN W[i - 1] * size(i) ELSE W[i - 1]
  BY ONLY <1>10
<1>12. W \in [0 .. 4 -> S]
  <2>1. DOMAIN W = 0 .. 4
    BY ONLY <1>10
  <2>2. W[0] \in S
    BY <1>11
  <2>3. \A i \in 1 .. 4 : W[i - 1] \in S => W[i] \in S
    BY <1>1, <1>2, <1>11
  <2>4. W[1] \in S
    BY <2>2, <2>3
  <2>5. W[2] \in S
    BY <2>4, <2>3
  <2>6. W[3] \in S
    BY <2>5, <2>3
  <2>7. W[4] \in S
    BY <2>6, <2>3
  <2>8. \A i \in 0 .. 4 : W[i] \in S
    BY <2>2, <2>4, <2>5, <2>6, <2>7
  <2>9. W = [i \in 0 .. 4 |-> W[i]]
    BY <1>10
  <2> QED BY <2>8, <2>9
<1> QED BY <1>11, <1>12 DEF W

LEMMA DigitLess ==
  ASSUME layout \in Layouts, NEW dims, NEW n \in Nat, NEW d \in Dimensions
  PROVE  Digit(dims, n, d) \in 0 .. layout.sizes[d] - 1
<1>1. Position(d) - 1 \in 0 .. 4
  BY LayoutFacts
<1>2. Weights(dims)[Position(d) - 1] \in Nat \ {0}
  BY <1>1, WeightsLemma
<1>3. PICK w \in Nat \ {0} : w = Weights(dims)[Position(d) - 1]
  BY <1>2
<1>4. PICK k \in Nat \ {0} : k = layout.sizes[d]
  BY LayoutFacts
<1>5. n \div w \in Nat
  BY DivIsNat
<1>6. (n \div w) % k \in 0 .. k - 1
  BY <1>5, ModLess
<1> QED BY <1>3, <1>4, <1>6 DEF Digit

(***************************************************************************)
(* A number is known by its digits and by what exceeds them.               *)
(***************************************************************************)
LEMMA SameDigits ==
  ASSUME layout \in Layouts, NEW dims, NEW n \in Nat, NEW m \in Nat,
         n \div Product(dims) = m \div Product(dims),
         \A d \in Dimensions : d \in dims => Digit(dims, n, d) = Digit(dims, m, d)
  PROVE  n = m
<1> DEFINE W == Weights(dims)
           T == {i \in 0 .. 4 : n \div W[4 - i] = m \div W[4 - i]}
<1>1. W \in [0 .. 4 -> Nat \ {0}] /\ W[0] = 1
  BY WeightsLemma
<1>2. 0 \in T
  BY DEF Product
<1>3. ASSUME NEW i \in 1 .. 4, i - 1 \in T
      PROVE  i \in T
  <2>1. PICK j \in 1 .. 4 : j = 4 - (i - 1)
    OBVIOUS
  <2>2. n \div W[j] = m \div W[j]
    BY <1>3, <2>1
  <2>3. 4 - i = j - 1
    BY <2>1
  <2>4. PICK w \in Nat \ {0} : w = W[j - 1]
    BY <1>1, <2>1
  <2>5. PICK d \in Dimensions : d = layout.allocation[j]
    BY LayoutFacts
  <2>6. CASE d \in dims
    <3>1. PICK k \in Nat \ {0} : k = layout.sizes[d]
      BY LayoutFacts
    <3>2. W[j] = w * k
      BY <2>4, <2>5, <2>6, <3>1, WeightsLemma
    <3>3. (n \div w) \div k = (m \div w) \div k
      <4>1. n \div (w * k) = m \div (w * k)
        BY ONLY <2>2, <3>2
      <4>2. (n \div w) \div k = n \div (w * k)
        BY DivDiv
      <4>3. (m \div w) \div k = m \div (w * k)
        BY DivDiv
      <4> QED BY ONLY <4>1, <4>2, <4>3
    <3>4. (n \div w) % k = (m \div w) % k
      <4>1. Position(d) = j
        BY <2>5, LayoutFacts
      <4>2. Digit(dims, n, d) = Digit(dims, m, d)
        BY <2>6
      <4> QED BY <4>1, <4>2, <2>4, <3>1 DEF Digit
    <3>5. n \div w \in Nat /\ m \div w \in Nat
      BY DivIsNat
    <3>6. n \div w = m \div w
      BY ONLY <3>3, <3>4, <3>5, k \in Nat \ {0}, SameQuotientAndRest
    <3> QED BY ONLY <3>6, <2>3, <2>4, i \in 1 .. 4
  <2>7. CASE d \notin dims
    <3>1. W[j] = W[j - 1]
      BY <2>5, <2>7, WeightsLemma
    <3> QED BY ONLY <3>1, <2>2, <2>3, i \in 1 .. 4
  <2> QED BY <2>6, <2>7
<1> HIDE DEF T
<1>4. \A i \in 1 .. 4 : i - 1 \in T => i \in T
  BY <1>3
<1>5. \A i \in 0 .. 4 : i \in T
  BY ONLY <1>2, <1>4, UpTo, 4 \in Nat
<1>6. 4 \in T
  BY <1>5
<1>7. n \div W[4 - 4] = m \div W[4 - 4]
  BY <1>6 DEF T
<1>8. n \div 1 = m \div 1
  BY <1>1, <1>7
<1> QED BY <1>8

LEMMA ProductIsPositive ==
  ASSUME layout \in Layouts, NEW dims
  PROVE  Product(dims) \in Nat \ {0}
BY WeightsLemma DEF Product

(***************************************************************************)
(* convertCPDPBP: the parts of an address are within the device...         *)
(***************************************************************************)
LEMMA CoordinateLess ==
  ASSUME layout \in Layouts, NEW block \in Nat, NEW i \in Nat, NEW d \in Dimensions
  PROVE  Coordinate(block, i, d) \in 0 .. layout.sizes[d] - 1
<1>1. layout.sizes[d] \in Nat \ {0}
  BY LayoutFacts
<1>2. Digit(SpreadDims, i, d) \in 0 .. layout.sizes[d] - 1
  BY DigitLess
<1>3. Digit(FixedDims, block, d) \in 0 .. layout.sizes[d] - 1
  BY DigitLess
<1> QED BY <1>1, <1>2, <1>3 DEF Coordinate

LEMMA BlockLess ==
  ASSUME layout \in Layouts, NEW block \in 0 .. SuperBlocks - 1
  PROVE  block \in Nat /\ block \div Product(FixedDims) < BlocksPerPlane
<1>1. PICK p \in Nat \ {0} : p = Product(FixedDims)
  BY ProductIsPositive
<1>2. BlocksPerPlane \in Nat
  BY PALAssumption
<1>3. BlocksPerPlane * p \in Nat
  BY <1>2
<1>4. block \in Nat /\ block < BlocksPerPlane * p
  BY <1>1, <1>3 DEF SuperBlocks
<1>5. block \div p < BlocksPerPlane
  BY ONLY <1>2, <1>4, p \in Nat \ {0}, DivLess
<1> QED BY <1>1, <1>4, <1>5

(***************************************************************************)
(* ... and are those of one page of one super page only.                   *)
(***************************************************************************)
LEMMA AddressIsUnique ==
  ASSUME layout \in Layouts,
         NEW b \in 0 .. SuperBlocks - 1, NEW c \in 0 .. SuperBlocks - 1,
         NEW i \in 0 .. PagesInSuperPage - 1, NEW j \in 0 .. PagesInSuperPage - 1,
         NEW p, NEW q, Address(b, p, i) = Address(c, q, j)
  PROVE  b = c /\ i = j
<1>1. /\ Coordinate(b, i, "channel") = Coordinate(c, j, "channel")
      /\ Coordinate(b, i, "package") = Coordinate(c, j, "package")
      /\ Coordinate(b, i, "die") = Coordinate(c, j, "die")
      /\ Coordinate(b, i, "plane") = Coordinate(c, j, "plane")
      /\ b \div Product(FixedDims) = c \div Product(FixedDims)
  <2>1. PICK x, y : x = Address(b, p, i) /\ y = Address(c, q, j)
    OBVIOUS
  <2>2. /\ x.channel = y.channel /\ x.package = y.package /\ x.die = y.die
        /\ x.plane = y.plane /\ x.block = y.block
    BY <2>1
  <2> QED BY <2>1, <2>2 DEF Address
<1>2. \A d \in Dimensions : Coordinate(b, i, d) = Coordinate(c, j, d)
  BY <1>1 DEF Dimensions
<1>3. b = c
  <2>1. b \in Nat /\ c \in Nat
    BY BlockLess
  <2>2. ASSUME NEW d \in Dimensions, d \in FixedDims
        PROVE  Digit(FixedDims, b, d) = Digit(FixedDims, c, d)
    <3>1. Split(d) /\ ~Spread(d)
      BY <2>2 DEF FixedDims
    <3> QED BY <3>1, <1>2 DEF Coordinate
  <2> QED BY ONLY layout \in Layouts, <2>1, <2>2, <1>1, SameDigits
<1>4. i = j
  <2>1. PICK n \in Nat \ {0} : n = Product(SpreadDims)
    BY ProductIsPositive
  <2>2. i \in Nat /\ j \in Nat /\ i < n /\ j < n
    BY <2>1 DEF PagesInSuperPage
  <2>3. i \div n = 0 /\ j \div n = 0
    BY ONLY <2>2, n \in Nat \ {0}, LessThanDivisor
  <2>4. i \div Product(SpreadDims) = j \div Product(SpreadDims)
    BY <2>1, <2>3
  <2>5. ASSUME NEW d \in Dimensions, d \in SpreadDims
        PROVE  Digit(SpreadDims, i, d) = Digit(SpreadDims, j, d)
    <3>1. Split(d) /\ Spread(d)
      BY <2>5 DEF SpreadDims, Spread
    <3> QED BY <3>1, <1>2 DEF Coordinate
  <2> QED BY ONLY layout \in Layouts, <2>2, <2>4, <2>5, SameDigits
<1> QED BY <1>3, <1>4

(***************************************************************************)
(* A page lies on a channel and a die of the device, and in a block of it. *)
(***************************************************************************)
LEMMA AddressFacts ==
  ASSUME layout \in Layouts, NEW block \in 0 .. SuperBlocks - 1, NEW page,
         NEW a \in Addresses(block, page)
  PROVE  /\ a.channel \in Channels
         /\ CPDPBPtoDieIdx(a) \in Dies
         /\ \A d \in Dimensions : a[d] < layout.sizes[d]
         /\ a.block < BlocksPerPlane
         /\ a.page = page
<1>1. PICK i \in 0 .. PagesInSuperPage - 1 : a = Address(block, page, i)
  BY DEF Addresses
<1>2. PICK n \in Nat \ {0} : n = PagesInSuperPage
  BY ProductIsPositive DEF PagesInSuperPage
<1>3. i \in Nat /\ block \in Nat
  BY <1>2, BlockLess
<1>4. /\ a.channel = Coordinate(block, i, "channel")
      /\ a.package = Coordinate(block, i, "package")
      /\ a.die = Coordinate(block, i, "die")
      /\ a.plane = Coordinate(block, i, "plane")
      /\ a.block = block \div Product(FixedDims) /\ a.page = page
  BY <1>1 DEF Address
<1>5. \A d \in Dimensions : Coordinate(block, i, d) \in 0 .. layout.sizes[d] - 1
  BY <1>3, CoordinateLess
<1>6. /\ a.channel \in 0 .. layout.sizes["channel"] - 1
      /\ a.package \in 0 .. layout.sizes["package"] - 1
      /\ a.die \in 0 .. layout.sizes["die"] - 1
      /\ a.plane \in 0 .. layout.sizes["plane"] - 1
  BY <1>4, <1>5 DEF Dimensions
<1>7. \A d \in Dimensions : layout.sizes[d] \in Nat \ {0}
  BY LayoutFacts
<1>8. CPDPBPtoDieIdx(a) \in Dies
  <2>1. PICK s \in Nat \ {0}, t \in Nat \ {0}, u \in Nat \ {0} :
          s = layout.sizes["channel"] /\ t = layout.sizes["package"] /\ u = layout.sizes["die"]
    BY <1>7 DEF Dimensions
  <2>2. PICK x \in Nat, y \in Nat, z \in Nat :
          /\ x = a.channel /\ y = a.package /\ z = a.die
          /\ x < s /\ y < t /\ z < u
    BY <1>6, <2>1
  <2>3. z + y * u < u * t
    BY <2>2, PairLess
  <2>4. z + y * u \in Nat /\ u * t \in Nat
    OBVIOUS
  <2>5. (z + y * u) + x * (u * t) < (u * t) * s
    <3>1. PICK v \in Nat, w \in Nat : v = z + y * u /\ w = u * t
      BY <2>4
    <3>2. v < w
      BY <2>3, <3>1
    <3>3. v + x * w < w * s
      BY <3>2, <2>2, PairLess
    <3> QED BY <3>1, <3>3
  <2>6. z + y * u + x * u * t < s * t * u
    <3>1. (z + y * u) + x * (u * t) = z + y * u + x * u * t
      OBVIOUS
    <3>2. (u * t) * s = s * t * u
      OBVIOUS
    <3> QED BY ONLY <2>5, <3>1, <3>2
  <2>7. z + y * u + x * u * t \in 0 .. s * t * u - 1
    <3>1. PICK v \in Nat, w \in Nat : v = z + y * u + x * u * t /\ w = s * t * u
      OBVIOUS
    <3> QED BY ONLY <2>6, <3>1
  <2> QED BY ONLY <2>1, <2>2, <2>7 DEF CPDPBPtoDieIdx, Dies
<1>9. \A d \in Dimensions : a[d] < layout.sizes[d]
  <2>1. PICK s : s = layout.sizes
    OBVIOUS
  <2>2. /\ a["channel"] < s["channel"] /\ a["package"] < s["package"]
        /\ a["die"] < s["die"] /\ a["plane"] < s["plane"]
    BY <1>6, <1>7, <2>1 DEF Dimensions
  <2> QED BY ONLY <2>1, <2>2 DEF Dimensions
<1>10. a.block < BlocksPerPlane
  BY <1>4, BlockLess
<1> QED BY <1>4, <1>6, <1>8, <1>9, <1>10 DEF Channels

(***************************************************************************)
(* A request that names any page is for some address, and for none twice.  *)
(***************************************************************************)
LEMMA ConvertLemma ==
  ASSUME layout \in Layouts, NEW block \in 0 .. SuperBlocks - 1, NEW page,
         NEW ioFlag \in Flags, NEW list, list = convertCPDPBP(block, page, ioFlag)
  PROVE  /\ list \in Seq(Addresses(block, page)) /\ list # <<>>
         /\ \A i, j \in 1 .. Len(list) : i # j => list[i] # list[j]
<1> DEFINE At(i) == Address(block, page, i)
           A == Addresses(block, page)
<1>1. PICK n \in Nat \ {0} : n = PagesInSuperPage
  BY ProductIsPositive DEF PagesInSuperPage
<1> DEFINE turn(i, s) == IF i - 1 \in ioFlag THEN Append(s, At(i - 1)) ELSE s
           step == [i \in 1 .. n |-> [s \in Seq(A) |-> turn(i, s)]]
           body(f) == [i \in 0 .. n |-> IF i = 0 THEN <<>>
                                        ELSE IF i - 1 \in ioFlag
                                        THEN Append(f[i - 1], Address(block, page, i - 1))
                                        ELSE f[i - 1]]
<1>2. \A i \in 1 .. n : At(i - 1) \in A
  BY <1>1 DEF Addresses
<1>3. step \in [1 .. n -> [Seq(A) -> Seq(A)]]
  <2>1. ASSUME NEW i \in 1 .. n, NEW s \in Seq(A)
        PROVE  turn(i, s) \in Seq(A)
    <3>1. Append(s, At(i - 1)) \in Seq(A)
      <4>1. PICK x \in A : x = At(i - 1)
        BY <1>2
      <4>2. Append(s, x) \in Seq(A)
        OBVIOUS
      <4> QED BY <4>1, <4>2
    <3> QED BY <3>1
  <2> HIDE DEF turn, A
  <2> QED BY <2>1
<1>4. PICK g : IsTrace(g, n, Seq(A), <<>>, step)
  <2>1. <<>> \in Seq(A)
    OBVIOUS
  <2> HIDE DEF step, A
  <2> QED BY <1>3, <2>1, LoopTrace
<1>5. /\ g \in [0 .. n -> Seq(A)] /\ g[0] = <<>>
      /\ \A i \in 1 .. n : g[i] = step[i][g[i - 1]]
  <2> HIDE DEF step, A
  <2> QED BY <1>4 DEF IsTrace
<1>6. \A i \in 1 .. n : g[i] = turn(i, g[i - 1])
  <2> TAKE i \in 1 .. n
  <2>1. g[i - 1] \in Seq(A)
    <3>1. i - 1 \in 0 .. n
      OBVIOUS
    <3> HIDE DEF A
    <3> QED BY <3>1, <1>5
  <2> HIDE DEF turn, A
  <2> QED BY <2>1, <1>5
<1>7. g = body(g)
  <2>1. \A i \in 0 .. n : g[i] = body(g)[i]
    <3> TAKE i \in 0 .. n
    <3>1. CASE i = 0
      BY <3>1, <1>5
    <3>2. CASE i # 0
      <4>1. i \in 1 .. n
        BY <3>2
      <4> QED BY <4>1, <3>2, <1>6
    <3> QED BY <3>1, <3>2
  <2>2. g = [i \in 0 .. n |-> g[i]]
    <3> HIDE DEF A
    <3> QED BY <1>5
  <2> QED BY ONLY <2>1, <2>2
<1>8. PICK L : L = body(L) /\ list = L[n]
  <2> DEFINE M == CHOOSE f : f = body(f)
  <2>1. list = M[n]
    BY <1>1 DEF convertCPDPBP
  <2>2. M = body(M)
    <3> HIDE DEF body
    <3> QED BY <1>7
  <2> HIDE DEF M
  <2> QED BY <2>1, <2>2
<1>9. /\ L[0] = <<>>
      /\ \A k \in 1 .. n : L[k] = turn(k, L[k - 1])
  <2>1. body(L)[0] = <<>>
    OBVIOUS
  <2>2. \A k \in 1 .. n : body(L)[k] = turn(k, L[k - 1])
    OBVIOUS
  <2>3. \A k : L[k] = body(L)[k]
    <3> HIDE DEF body
    <3> QED BY <1>8
  <2> HIDE DEF body
  <2> QED BY <2>1, <2>2, <2>3
<1> DEFINE Upto(k) == {At(i) : i \in 0 .. k - 1}
           Good(k) == /\ L[k] \in Seq(Upto(k))
                      /\ \A i, j \in 1 .. Len(L[k]) : i # j => L[k][i] # L[k][j]
                      /\ (\E i \in 0 .. k - 1 : i \in ioFlag) => L[k] # <<>>
           T == {k \in 0 .. n : Good(k)}
<1>10. 0 \in T
  <2>1. <<>> \in Seq(Upto(0)) /\ Len(<<>>) = 0
    OBVIOUS
  <2>2. Good(0)
    BY ONLY <1>9, <2>1
  <2> QED BY <2>2
<1>11. ASSUME NEW k \in 1 .. n, k - 1 \in T
       PROVE  k \in T
  <2> DEFINE s == L[k - 1]
             x == At(k - 1)
  <2>1. Good(k - 1)
    BY <1>11
  <2>2. Upto(k - 1) \subseteq Upto(k) /\ x \in Upto(k)
    <3>1. 0 .. (k - 1) - 1 \subseteq 0 .. k - 1 /\ k - 1 \in 0 .. k - 1
      OBVIOUS
    <3> QED BY <3>1
  <2>3. \A y \in Upto(k - 1) : y # x
    <3> SUFFICES ASSUME NEW i \in 0 .. (k - 1) - 1, At(i) = x PROVE FALSE
      OBVIOUS
    <3>1. i \in 0 .. PagesInSuperPage - 1 /\ k - 1 \in 0 .. PagesInSuperPage - 1
      BY <1>1
    <3>2. i = k - 1
      BY <3>1, AddressIsUnique
    <3> QED BY <3>2
  <2>4. L[k] = turn(k, s)
    BY <1>9
  <2> HIDE DEF x, Upto, At
  <2>5. s \in Seq(Upto(k))
    <3>1. s \in Seq(Upto(k - 1))
      BY <2>1
    <3> HIDE DEF s
    <3> QED BY <3>1, <2>2, SeqMonotonic
  <2>6. CASE k - 1 \in ioFlag
    <3>1. L[k] = Append(s, x)
      BY <2>4, <2>6 DEF x
    <3> PICK l \in Nat : l = Len(s)
      BY <2>5
    <3>2. /\ Append(s, x) \in Seq(Upto(k)) /\ Len(Append(s, x)) = l + 1
          /\ \A i \in 1 .. l : Append(s, x)[i] = s[i]
          /\ Append(s, x)[l + 1] = x
      <4> HIDE DEF s
      <4> QED BY <2>2, <2>5
    <3>3. \A i \in 1 .. l : s[i] # x
      <4>1. s \in Seq(Upto(k - 1))
        BY <2>1
      <4> HIDE DEF s
      <4>2. \A i \in 1 .. l : s[i] \in Upto(k - 1)
        BY <4>1
      <4> QED BY <4>2, <2>3
    <3>4. \A i, j \in 1 .. l : i # j => s[i] # s[j]
      BY <2>1
    <3>5. \A i, j \in 1 .. l + 1 : i # j => Append(s, x)[i] # Append(s, x)[j]
      <4> HIDE DEF s
      <4> QED BY <3>2, <3>3, <3>4
    <3>6. Append(s, x) # <<>>
      <4> HIDE DEF s
      <4> QED BY <2>2, <2>5
    <3>7. Good(k)
      <4> HIDE DEF s
      <4> QED BY <3>1, <3>2, <3>5, <3>6
    <3> QED BY <3>7
  <2>7. CASE k - 1 \notin ioFlag
    <3>1. L[k] = s
      BY <2>4, <2>7
    <3>2. \A i \in 0 .. k - 1 : i \in ioFlag => i \in 0 .. (k - 1) - 1
      BY <2>7
    <3>3. /\ \A i, j \in 1 .. Len(s) : i # j => s[i] # s[j]
          /\ (\E i \in 0 .. (k - 1) - 1 : i \in ioFlag) => s # <<>>
      BY <2>1
    <3>4. Good(k)
      <4> HIDE DEF s
      <4> QED BY <3>1, <3>2, <3>3, <2>5
    <3> QED BY <3>4
  <2> QED BY <2>6, <2>7
<1>12. Good(n)
  <2> HIDE DEF T
  <2>1. \A k \in 1 .. n : k - 1 \in T => k \in T
    BY <1>11
  <2>2. \A k \in 0 .. n : k \in T
    BY ONLY <1>10, <2>1, UpTo, n \in Nat \ {0}
  <2>3. n \in T
    BY <2>2
  <2> QED BY <2>3 DEF T
<1>13. Upto(n) = A
  BY <1>1 DEF Addresses
<1>14. \E i \in 0 .. n - 1 : i \in ioFlag
  <2>1. ioFlag # {} /\ ioFlag \subseteq 0 .. PagesInSuperPage - 1
    BY DEF Flags
  <2> QED BY <2>1, <1>1
<1> HIDE DEF Upto, A
<1> QED BY <1>8, <1>12, <1>13, <1>14 DEF A

-----------------------------------------------------------------------------
(* The invariant is inductive.                                             *)

LEMMA ConstantFacts ==
  /\ Classes(ChClasses) /\ Classes(DieClasses)
  /\ AntiLatency \in Nat \ {0} /\ FLUSH_RANGE \in Nat
  /\ \A t \in Arrivals \cup FlushTicks : t \in Nat
BY PALAssumption DEF Classes

LEMMA TimingFacts ==
  ASSUME NEW op \in DOMAIN Timing, NEW page \in DOMAIN Timing[op]
  PROVE  /\ Timing[op][page].dma0 \in Nat \ {0}
         /\ Timing[op][page].mem \in Nat /\ Timing[op][page].dma1 \in Nat
         /\ Min(ChClasses) <= Timing[op][page].dma1 + AntiLatency
<1>1. /\ Timing[op][page].dma0 \in Nat \ {0}
      /\ Timing[op][page].mem \in Nat /\ Timing[op][page].dma1 \in Nat
      /\ Timing[op][page].dma1 + AntiLatency >= Min(ChClasses)
  BY PALAssumption
<1>2. Min(ChClasses) \in Nat
  BY ConstantFacts, MinLemma DEF Classes
<1>3. PICK a \in Nat, m \in Nat, t \in Nat :
        a = AntiLatency /\ m = Min(ChClasses) /\ t = Timing[op][page].dma1
  BY <1>1, <1>2, ConstantFacts
<1>4. m <= t + a
  BY ONLY <1>1, <1>3
<1> QED BY ONLY <1>1, <1>3, <1>4

(***************************************************************************)
(* What a request that is being scheduled works on.                        *)
(***************************************************************************)
LEMMA JobFacts ==
  ASSUME IInv, job # Idle
  PROVE  /\ layout \in Layouts
         /\ Head(job.list) \in Addresses(job.block, job.page)
         /\ Channel \in Channels /\ Die \in Dies
         /\ Resource(chSlots[Channel], chStart[Channel], ChClasses)
         /\ Resource(dieSlots[Die], dieStart[Die], DieClasses)
         /\ Lat.dma0 \in Nat \ {0} /\ Lat.mem \in Nat /\ Lat.dma1 \in Nat
         /\ Min(ChClasses) <= Lat.dma1 + AntiLatency
         /\ AntiLatency \in Nat \ {0}
         /\ job.from \in Nat /\ job.arrived \in Nat /\ job.from >= job.arrived
         /\ job.slot0 \in Nat /\ job.mem \in Nat
<1>1. layout \in Layouts
  BY DEF IInv, ShapeInv
<1>2. job.list \in Seq(Addresses(job.block, job.page)) /\ job.list # <<>>
  BY DEF IInv, AddressInv
<1>3. Head(job.list) \in Addresses(job.block, job.page)
  BY <1>2
<1>4. /\ job.block \in 0 .. SuperBlocks - 1
      /\ job.op \in DOMAIN Timing /\ job.page \in DOMAIN Timing[job.op]
      /\ job.from \in Nat /\ job.arrived \in Nat /\ job.from >= job.arrived
      /\ job.slot0 \in Nat /\ job.mem \in Nat
  BY DEF IInv, JobInv
<1>5. Channel \in Channels /\ Die \in Dies
  BY <1>1, <1>3, <1>4, AddressFacts DEF Channel, Die
<1>6. /\ Resource(chSlots[Channel], chStart[Channel], ChClasses)
      /\ Resource(dieSlots[Die], dieStart[Die], DieClasses)
  BY <1>5 DEF IInv, ChannelInv, DieInv
<1>7. /\ Lat.dma0 \in Nat \ {0} /\ Lat.mem \in Nat /\ Lat.dma1 \in Nat
      /\ Min(ChClasses) <= Lat.dma1 + AntiLatency
  BY <1>4, TimingFacts DEF Lat
<1> QED BY <1>1, <1>3, <1>4, <1>5, <1>6, <1>7, ConstantFacts

LEMMA NotIdle ==
  ASSUME NEW j, j.pc # "idle"
  PROVE  j # Idle
BY DEF Idle

LEMMA InitInv == Init => IInv
<1> SUFFICES ASSUME Init PROVE IInv
  OBVIOUS
<1> USE DEF Init
<1>1. ShapeInv
  <2>1. layout \in Layouts
    OBVIOUS
  <2>2. chSlots = [c \in Channels |-> {}] /\ chStart = [c \in Channels |-> 0]
    OBVIOUS
  <2>3. dieSlots = [d \in Dies |-> {}] /\ dieStart = [d \in Dies |-> 0]
    OBVIOUS
  <2>4. chSlots = [c \in Channels |-> chSlots[c]] /\ chStart = [c \in Channels |-> chStart[c]]
    BY ONLY <2>2
  <2>5. dieSlots = [d \in Dies |-> dieSlots[d]] /\ dieStart = [d \in Dies |-> dieStart[d]]
    BY ONLY <2>3
  <2> QED BY ONLY <2>1, <2>4, <2>5 DEF ShapeInv
<1>2. \A classes : Resource({}, 0, classes)
  BY DEF Resource
<1>3. \A c \in Channels : ChannelInv(c)
  <2> TAKE c \in Channels
  <2>1. chSlots[c] = {} /\ chStart[c] = 0 /\ OfChannel(c) = {}
    BY DEF OfChannel
  <2> QED BY ONLY <2>1, <1>2 DEF ChannelInv
<1>4. \A d \in Dies : DieInv(d)
  <2> TAKE d \in Dies
  <2>1. dieSlots[d] = {} /\ dieStart[d] = 0 /\ OfDie(d) = {}
    BY DEF OfDie
  <2> QED BY ONLY <2>1, <1>2 DEF DieInv
<1>5. TimeInv
  BY DEF TimeInv
<1>6. AnswerInv
  <2>1. Ends(Len(answered) + 1) = {}
    BY DEF Ends
  <2>2. answered \in Seq(Int) /\ Len(answered) = 0
    OBVIOUS
  <2> QED BY <2>1, <2>2 DEF AnswerInv
<1>7. JobInv
  BY DEF JobInv
<1>8. AddressInv
  BY DEF AddressInv
<1> QED BY <1>1, <1>3, <1>4, <1>5, <1>6, <1>7, <1>8 DEF IInv

(***************************************************************************)
(* The parts of the invariant that depend on the resources and operations  *)
(* only are kept by what leaves these alone.                               *)
(***************************************************************************)
LEMMA SearchKeeps ==
  ASSUME IInv, UNCHANGED <<layout, chSlots, chStart, dieSlots, dieStart, ops,
                           answered, asserted>>
  PROVE  /\ ShapeInv'
         /\ (\A c \in Channels : ChannelInv(c))'
         /\ (\A d \in Dies : DieInv(d))'
         /\ TimeInv'
<1>1. Channels' = Channels /\ Dies' = Dies
  BY DEF Channels, Dies
<1>2. ShapeInv'
  BY <1>1 DEF IInv, ShapeInv
<1>3. ASSUME NEW c \in Channels
      PROVE  ChannelInv(c)'
  <2>1. OfChannel(c)' = OfChannel(c)
    BY DEF OfChannel
  <2> QED BY <2>1 DEF IInv, ChannelInv
<1>4. ASSUME NEW d \in Dies
      PROVE  DieInv(d)'
  <2>1. OfDie(d)' = OfDie(d)
    BY DEF OfDie, CPDPBPtoDieIdx
  <2> QED BY <2>1 DEF IInv, DieInv
<1>5. TimeInv'
  BY DEF IInv, TimeInv, OpTypes
<1> QED BY <1>1, <1>2, <1>3, <1>4, <1>5

(***************************************************************************)
(* The configuration never changes, and neither do the addresses.          *)
(***************************************************************************)
LEMMA AddressesKept ==
  ASSUME layout' = layout
  PROVE  /\ PagesInSuperPage' = PagesInSuperPage /\ SuperBlocks' = SuperBlocks
         /\ \A b, p, i : Address(b, p, i)' = Address(b, p, i)
         /\ \A b, p : Addresses(b, p)' = Addresses(b, p)
<1>1. \A dims : Weights(dims)' = Weights(dims)
  BY DEF Weights
<1>2. \A d : (Split(d)' <=> Split(d)) /\ (Spread(d)' <=> Spread(d))
  BY DEF Split, Spread
<1>3. SpreadDims' = SpreadDims /\ FixedDims' = FixedDims
  BY <1>2 DEF SpreadDims, FixedDims
<1>4. \A d : Position(d)' = Position(d)
  BY DEF Position
<1>5. Product(SpreadDims)' = Product(SpreadDims) /\ Product(FixedDims)' = Product(FixedDims)
  BY <1>1, <1>3 DEF Product
<1>6. \A n, d : /\ Digit(SpreadDims, n, d)' = Digit(SpreadDims, n, d)
                /\ Digit(FixedDims, n, d)' = Digit(FixedDims, n, d)
  BY <1>1, <1>3, <1>4 DEF Digit
<1>7. \A b, i, d : Coordinate(b, i, d)' = Coordinate(b, i, d)
  BY <1>2, <1>6 DEF Coordinate
<1>8. \A b, p, i : Address(b, p, i)' = Address(b, p, i)
  BY <1>5, <1>7 DEF Address
<1>9. PagesInSuperPage' = PagesInSuperPage /\ SuperBlocks' = SuperBlocks
  BY <1>5 DEF PagesInSuperPage, SuperBlocks
<1>10. \A b, p : Addresses(b, p)' = Addresses(b, p)
  BY <1>8, <1>9 DEF Addresses
<1> QED BY <1>8, <1>9, <1>10

(***************************************************************************)
(* A step of the search moves the request to a tick, and to the assignment *)
(* only where its times fit.                                               *)
(***************************************************************************)
LEMMA MoveKeeps ==
  ASSUME IInv, job # Idle,
         UNCHANGED <<layout, chSlots, chStart, dieSlots, dieStart, ops,
                     answered, now, asserted>>,
         NEW from \in Nat, NEW slot0 \in Nat, NEW mem \in Nat,
         NEW turn \in BOOLEAN, NEW pc \in {"dma0", "dma1"},
         job' = [job EXCEPT !.from = from, !.slot0 = slot0, !.mem = mem,
                            !.turn = turn, !.pc = pc],
         from >= job.arrived,
         pc = "dma1" =>
           /\ FitsAt(chSlots[Channel], chStart[Channel], Lat.dma0, from, slot0)
           /\ FitsAt(dieSlots[Die], dieStart[Die], Lat.dma0 + Lat.mem, from, mem)
  PROVE  IInv'
<1>1. /\ ShapeInv'
      /\ (\A c \in Channels : ChannelInv(c))'
      /\ (\A d \in Dies : DieInv(d))'
      /\ TimeInv'
  BY SearchKeeps
<1>2. job = [pc |-> job.pc, op |-> job.op, page |-> job.page,
             block |-> job.block, arrived |-> job.arrived, list |-> job.list,
             finishedAt |-> job.finishedAt, from |-> job.from,
             slot0 |-> job.slot0, mem |-> job.mem, turn |-> job.turn]
  BY DEF IInv, JobInv
<1>3. job' = [pc |-> pc, op |-> job.op, page |-> job.page,
              block |-> job.block, arrived |-> job.arrived, list |-> job.list,
              finishedAt |-> job.finishedAt, from |-> from,
              slot0 |-> slot0, mem |-> mem, turn |-> turn]
  <2>1. PICK j : j = job'
    OBVIOUS
  <2>2. j = [job EXCEPT !.from = from, !.slot0 = slot0, !.mem = mem,
                        !.turn = turn, !.pc = pc]
    BY <2>1
  <2>3. j = [pc |-> pc, op |-> job.op, page |-> job.page,
             block |-> job.block, arrived |-> job.arrived, list |-> job.list,
             finishedAt |-> job.finishedAt, from |-> from,
             slot0 |-> slot0, mem |-> mem, turn |-> turn]
    BY ONLY <2>2, <1>2
  <2> QED BY ONLY <2>1, <2>3
<1>4. /\ job'.pc = pc /\ job'.op = job.op /\ job'.page = job.page
      /\ job'.block = job.block /\ job'.arrived = job.arrived
      /\ job'.list = job.list /\ job'.finishedAt = job.finishedAt
      /\ job'.from = from /\ job'.slot0 = slot0 /\ job'.mem = mem
      /\ job'.turn = turn
  BY ONLY <1>3
<1>5. job' # Idle
  <2>1. job'.pc # "idle"
    BY <1>4
  <2> QED BY <2>1, NotIdle
<1>6. PagesInSuperPage' = PagesInSuperPage /\ SuperBlocks' = SuperBlocks
      /\ \A b, p : Addresses(b, p)' = Addresses(b, p)
  BY AddressesKept
<1>7. /\ job.op \in DOMAIN Timing /\ job.page \in DOMAIN Timing[job.op]
      /\ job.block \in 0 .. SuperBlocks - 1 /\ job.arrived \in Nat
      /\ job.finishedAt \in Int
  BY DEF IInv, JobInv
<1>8. JobInv'
  <2>1. Channel' = Channel /\ Lat' = Lat
    BY <1>4 DEF Channel, Lat
  <2>2. Die' = Die
    BY <1>4 DEF Die, CPDPBPtoDieIdx
  <2>3. pc = "dma1" =>
          /\ FitsAt(chSlots'[Channel'], chStart'[Channel'], Lat'.dma0, from, slot0)
          /\ FitsAt(dieSlots'[Die'], dieStart'[Die'], Lat'.dma0 + Lat'.mem, from, mem)
    BY <2>1, <2>2
  <2>4. job' = [pc |-> job'.pc, op |-> job'.op, page |-> job'.page,
                block |-> job'.block, arrived |-> job'.arrived,
                list |-> job'.list, finishedAt |-> job'.finishedAt,
                from |-> job'.from, slot0 |-> job'.slot0, mem |-> job'.mem,
                turn |-> job'.turn]
    BY ONLY <1>3, <1>4
  <2>5. /\ job'.pc \in {"dma0", "dma1"} /\ job'.turn \in BOOLEAN
        /\ job'.op \in DOMAIN Timing /\ job'.page \in DOMAIN Timing[job'.op]
        /\ job'.block \in 0 .. SuperBlocks' - 1
        /\ {job'.arrived, job'.from, job'.slot0, job'.mem} \subseteq Nat
        /\ job'.finishedAt \in Int /\ job'.from >= job'.arrived
    BY <1>4, <1>6, <1>7
  <2>6. job'.pc = "dma1" =>
          /\ FitsAt(chSlots'[Channel'], chStart'[Channel'], Lat'.dma0, job'.from, job'.slot0)
          /\ FitsAt(dieSlots'[Die'], dieStart'[Die'], Lat'.dma0 + Lat'.mem, job'.from, job'.mem)
    BY ONLY <2>3, <1>4
  <2> QED BY ONLY <2>4, <2>5, <2>6 DEF JobInv, FitsAt
<1>9. AnswerInv'
  <2>1. \A r : Ends(r)' = Ends(r)
    BY DEF Ends
  <2>2. answered' = answered /\ ops' = ops
    OBVIOUS
  <2>3. AnswerInv
    BY DEF IInv
  <2> QED BY ONLY <2>1, <2>2, <2>3, <1>4, <1>5, job # Idle DEF AnswerInv
<1>10. AddressInv'
  <2>1. AddressInv /\ answered' = answered /\ ops' = ops
    BY DEF IInv
  <2> QED BY ONLY <2>1, <1>4, <1>5, <1>6, job # Idle DEF AddressInv
<1> QED BY <1>1, <1>8, <1>9, <1>10 DEF IInv

(***************************************************************************)
(* LOOP1: where it ends, DMA0 and the array operation fit at one tick.     *)
(***************************************************************************)
LEMMA FindDMA0Inv ==
  ASSUME IInv, FindDMA0
  PROVE  IInv'
<1>1. job.pc = "dma0"
  BY DEF FindDMA0
<1>2. job # Idle
  BY <1>1, NotIdle
<1> DEFINE ch == chSlots[Channel]
           chS == chStart[Channel]
           di == dieSlots[Die]
           diS == dieStart[Die]
<1>3. /\ Resource(ch, chS, ChClasses) /\ Resource(di, diS, DieClasses)
      /\ Lat.dma0 \in Nat \ {0} /\ Lat.mem \in Nat
      /\ job.from \in Nat /\ job.arrived \in Nat /\ job.from >= job.arrived
  BY <1>2, JobFacts
<1>4. Classes(ChClasses) /\ Classes(DieClasses)
  BY ConstantFacts
<1>5. PICK l \in Nat \ {0}, m \in Nat \ {0} : l = Lat.dma0 /\ m = Lat.dma0 + Lat.mem
  BY <1>3
<1>6. PICK d : d = FitChannel(Lat.dma0, job.from)
  OBVIOUS
<1>7. d = Fit(ch, ChClasses, chS, l, job.from)
  BY <1>5, <1>6 DEF FitChannel
<1> HIDE DEF ch, chS, di, diS
<1>8. /\ d.slot \in Nat /\ d.at \in Nat /\ d.at >= job.from
      /\ FitsAt(ch, chS, l, d.at, d.slot)
  BY ONLY <1>3, <1>4, <1>7, l \in Nat \ {0}, FitResult
<1>9. PICK e : e = FitDie(Lat.dma0 + Lat.mem, d.at)
  OBVIOUS
<1>10. e = Fit(di, DieClasses, diS, m, d.at)
  BY <1>5, <1>9 DEF FitDie, di, diS
<1>11. /\ e.slot \in Nat /\ e.at \in Nat /\ e.at >= d.at
       /\ FitsAt(di, diS, m, e.at, e.slot)
       /\ e.slot <= d.at => e.at = d.at
  BY ONLY <1>3, <1>4, <1>8, <1>10, m \in Nat \ {0}, FitResult
<1>12. PICK f : f = FitChannel(Lat.dma0, e.at)
  OBVIOUS
<1>13. f = Fit(ch, ChClasses, chS, l, e.at)
  BY <1>5, <1>12 DEF FitChannel, ch, chS
<1>14. /\ FitsAt(ch, chS, l, f.at, f.slot)
       /\ f.slot <= e.at => f.at = e.at
  BY ONLY <1>3, <1>4, <1>11, <1>13, l \in Nat \ {0}, FitResult
<1>15. PICK from, pc : /\ from = IF e.slot = d.slot THEN d.at ELSE e.at
                       /\ pc = IF e.slot = d.slot \/ f.slot = d.slot
                               THEN "dma1" ELSE "dma0"
  OBVIOUS
<1>16. PICK turn \in BOOLEAN : turn = ~job.turn
  OBVIOUS
<1>17. job' = [job EXCEPT !.from = from, !.slot0 = d.slot, !.mem = e.slot,
                          !.turn = turn, !.pc = pc]
  BY <1>6, <1>9, <1>12, <1>15, <1>16 DEF FindDMA0
<1>18. d.slot <= d.at
  BY <1>8 DEF FitsAt
<1>19. /\ from \in Nat /\ from >= job.arrived /\ pc \in {"dma0", "dma1"}
       /\ pc = "dma1" => FitsAt(ch, chS, l, from, d.slot) /\ FitsAt(di, diS, m, from, e.slot)
  <2>1. CASE e.slot = d.slot
    <3>1. from = d.at /\ pc = "dma1"
      BY <2>1, <1>15
    <3>2. e.at = d.at
      BY ONLY <2>1, <1>11, <1>18
    <3> QED BY ONLY <3>1, <3>2, <1>3, <1>8, <1>11
  <2>2. CASE e.slot # d.slot
    <3>1. from = e.at /\ pc \in {"dma0", "dma1"}
          /\ (pc = "dma1" => f.slot = d.slot)
      BY <2>2, <1>15
    <3>2. f.slot = d.slot => f.at = e.at
      BY ONLY <1>8, <1>11, <1>14, <1>18
    <3> QED BY ONLY <3>1, <3>2, <1>3, <1>8, <1>11, <1>14
  <2> QED BY <2>1, <2>2
<1>20. pc = "dma1" =>
         /\ FitsAt(chSlots[Channel], chStart[Channel], Lat.dma0, from, d.slot)
         /\ FitsAt(dieSlots[Die], dieStart[Die], Lat.dma0 + Lat.mem, from, e.slot)
  BY ONLY <1>19, <1>5 DEF ch, chS, di, diS
<1>21. UNCHANGED <<layout, chSlots, chStart, dieSlots, dieStart, ops,
                   answered, now, asserted>>
  BY DEF FindDMA0
<1>22. from \in Nat /\ d.slot \in Nat /\ e.slot \in Nat /\ from >= job.arrived
       /\ pc \in {"dma0", "dma1"}
  BY <1>8, <1>11, <1>19
<1> QED BY ONLY <1>2, <1>17, <1>20, <1>21, <1>22, turn \in BOOLEAN, IInv, MoveKeeps

(***************************************************************************)
(* Where the data will be moved, and the time the die is needed for.       *)
(***************************************************************************)
LEMMA DMA1Facts ==
  ASSUME IInv, job.pc = "dma1"
  PROVE  LET D == DMA1Slot(job.from)
         IN  /\ D.slot \in Nat /\ D.at \in Nat
             /\ D.at >= job.from + Lat.dma0 + Lat.mem
             /\ FitsAt(chSlots[Channel], chStart[Channel],
                       Lat.dma1 + AntiLatency, D.at, D.slot)
             /\ TotalLatency = D.at + Lat.dma1 + AntiLatency - job.from
             /\ TotalLatency \in Nat \ {0}
             /\ TotalLatency >= Lat.dma0 + Lat.mem
<1>1. job # Idle
  BY NotIdle
<1> DEFINE ch == chSlots[Channel]
           chS == chStart[Channel]
<1>2. /\ Resource(ch, chS, ChClasses)
      /\ Lat.dma0 \in Nat \ {0} /\ Lat.mem \in Nat /\ Lat.dma1 \in Nat
      /\ AntiLatency \in Nat \ {0} /\ job.from \in Nat
  BY <1>1, JobFacts
<1>3. Classes(ChClasses)
  BY ConstantFacts
<1>4. PICK n \in Nat \ {0}, at \in Nat :
        n = Lat.dma1 + AntiLatency /\ at = job.from + Lat.dma0 + Lat.mem
  BY <1>2
<1>5. PICK D : D = DMA1Slot(job.from)
  OBVIOUS
<1>6. D = Fit(ch, ChClasses, chS, n, at)
  BY <1>4, <1>5 DEF DMA1Slot, FitChannel
<1> HIDE DEF ch, chS
<1>7. /\ D.slot \in Nat /\ D.at \in Nat /\ D.at >= at
      /\ FitsAt(ch, chS, n, D.at, D.slot)
  BY ONLY <1>2, <1>3, <1>6, n \in Nat \ {0}, at \in Nat, FitResult
<1>8. TotalLatency = D.at + Lat.dma1 + AntiLatency - job.from
  BY <1>5 DEF TotalLatency
<1>9. PICK t : t = TotalLatency
  OBVIOUS
<1>10. t \in Nat \ {0} /\ t >= Lat.dma0 + Lat.mem
  BY ONLY <1>2, <1>4, <1>7, <1>8, <1>9
<1> QED BY ONLY <1>4, <1>5, <1>7, <1>8, <1>9, <1>10 DEF ch, chS

(***************************************************************************)
(* LOOP0: the search goes on later than it was.                            *)
(***************************************************************************)
LEMMA SearchAgainInv ==
  ASSUME IInv, SearchAgain
  PROVE  IInv'
<1>1. job.pc = "dma1"
  BY DEF SearchAgain
<1>2. job # Idle
  BY <1>1, NotIdle
<1> DEFINE di == dieSlots[Die]
           diS == dieStart[Die]
<1>3. /\ Resource(di, diS, DieClasses)
      /\ Lat.dma0 \in Nat \ {0} /\ Lat.mem \in Nat
      /\ job.from \in Nat /\ job.arrived \in Nat /\ job.from >= job.arrived
      /\ job.slot0 \in Nat /\ job.mem \in Nat
  BY <1>2, JobFacts
<1>4. Classes(DieClasses)
  BY ConstantFacts
<1>5. PICK t \in Nat \ {0} : t = TotalLatency
  BY <1>1, DMA1Facts
<1>6. PICK d : d = FitDie(TotalLatency, job.from)
  OBVIOUS
<1>7. d = Fit(di, DieClasses, diS, t, job.from)
  BY <1>5, <1>6 DEF FitDie
<1>8. PICK m \in Nat \ {0} : m = Lat.dma0 + Lat.mem
  BY <1>3
<1>9. FitsAt(di, diS, m, job.from, job.mem)
  BY <1>1, <1>2, <1>8 DEF IInv, JobInv
<1> HIDE DEF di, diS
<1>10. /\ d.slot \in Nat /\ d.at \in Nat /\ d.at >= job.from
       /\ FitsAt(di, diS, t, d.at, d.slot)
       /\ d.slot <= job.from => d.at = job.from
  BY ONLY <1>3, <1>4, <1>7, t \in Nat \ {0}, FitResult
<1>11. d.slot # job.mem
  BY <1>6 DEF SearchAgain, DieAgrees
<1>12. d.slot > job.from
  <2>1. ASSUME d.slot <= job.from PROVE FALSE
    <3>1. FitsAt(di, diS, t, job.from, d.slot)
      BY <2>1, <1>10
    <3>2. d.slot = job.mem
      BY ONLY <3>1, <1>3, <1>4, <1>9, t \in Nat \ {0}, m \in Nat \ {0}, FitsInOneSlot
    <3> QED BY <3>2, <1>11
  <2>2. d.slot \in Nat /\ job.from \in Nat
    BY <1>3, <1>10
  <2> QED BY ONLY <2>1, <2>2
<1>13. PICK turn \in BOOLEAN : turn = job.turn
  BY <1>2 DEF IInv, JobInv
<1>14. job' = [job EXCEPT !.from = d.slot, !.slot0 = job.slot0, !.mem = job.mem,
                          !.turn = turn, !.pc = "dma0"]
  <2>1. PICK j, x : j = job /\ x = d.slot
    OBVIOUS
  <2>2. j = [pc |-> j.pc, op |-> j.op, page |-> j.page,
             block |-> j.block, arrived |-> j.arrived, list |-> j.list,
             finishedAt |-> j.finishedAt, from |-> j.from,
             slot0 |-> j.slot0, mem |-> j.mem, turn |-> j.turn]
    BY <1>2, <2>1 DEF IInv, JobInv
  <2>3. job' = [j EXCEPT !.pc = "dma0", !.from = x]
    BY <1>6, <2>1 DEF SearchAgain
  <2>4. [j EXCEPT !.pc = "dma0", !.from = x]
          = [j EXCEPT !.from = x, !.slot0 = j.slot0, !.mem = j.mem,
                      !.turn = j.turn, !.pc = "dma0"]
    BY ONLY <2>2
  <2> QED BY ONLY <2>1, <2>3, <2>4, <1>13
<1>15. UNCHANGED <<layout, chSlots, chStart, dieSlots, dieStart, ops,
                   answered, now, asserted>>
  BY DEF SearchAgain
<1>16. d.slot >= job.arrived
  BY ONLY <1>3, <1>10, <1>12
<1>17. "dma0" \in {"dma0", "dma1"} /\ ~("dma0" = "dma1")
  OBVIOUS
<1> QED BY ONLY <1>2, <1>3, <1>10, <1>14, <1>15, <1>16, <1>17,
           turn \in BOOLEAN, IInv, MoveKeeps

(***************************************************************************)
(* A request is begun.                                                     *)
(***************************************************************************)
LEMMA RequestInv ==
  ASSUME IInv, NEW r \in Requests, NEW block \in 0 .. SuperBlocks - 1,
         NEW ioFlag \in Flags, NEW tick \in Arrivals,
         Request(r, block, ioFlag, tick)
  PROVE  IInv'
<1>1. UNCHANGED <<layout, chSlots, chStart, dieSlots, dieStart, ops, answered,
                  now, asserted>> /\ job = Idle
  BY DEF Request
<1>2. /\ ShapeInv'
      /\ (\A c \in Channels : ChannelInv(c))'
      /\ (\A d \in Dies : DieInv(d))'
      /\ TimeInv'
  BY <1>1, SearchKeeps
<1>3. PICK list : list = convertCPDPBP(block, r.page, ioFlag)
  OBVIOUS
<1>4. job' = [pc |-> "dma0", op |-> r.op, page |-> r.page, block |-> block,
              arrived |-> tick, list |-> list, finishedAt |-> tick,
              from |-> tick, slot0 |-> 0, mem |-> 0, turn |-> FALSE]
  BY <1>3 DEF Request
<1>5. /\ job'.pc = "dma0" /\ job'.op = r.op /\ job'.page = r.page
      /\ job'.block = block /\ job'.arrived = tick /\ job'.list = list
      /\ job'.finishedAt = tick /\ job'.from = tick /\ job'.slot0 = 0
      /\ job'.mem = 0 /\ job'.turn = FALSE
  BY ONLY <1>4
<1>6. job' # Idle
  <2>1. job'.pc # "idle"
    BY <1>5
  <2> QED BY <2>1, NotIdle
<1>7. tick \in Nat
  BY ConstantFacts
<1>8. layout \in Layouts
  BY DEF IInv, ShapeInv
<1>9. /\ list \in Seq(Addresses(block, r.page)) /\ list # <<>>
      /\ \A i, j \in 1 .. Len(list) : i # j => list[i] # list[j]
  BY <1>3, <1>8, ConvertLemma
<1>10. PagesInSuperPage' = PagesInSuperPage /\ SuperBlocks' = SuperBlocks
       /\ \A b, p : Addresses(b, p)' = Addresses(b, p)
  BY <1>1, AddressesKept
<1>11. JobInv'
  <2>1. job' = [pc |-> job'.pc, op |-> job'.op, page |-> job'.page,
                block |-> job'.block, arrived |-> job'.arrived,
                list |-> job'.list, finishedAt |-> job'.finishedAt,
                from |-> job'.from, slot0 |-> job'.slot0, mem |-> job'.mem,
                turn |-> job'.turn]
    BY ONLY <1>4, <1>5
  <2>2. r.op \in DOMAIN Timing /\ r.page \in DOMAIN Timing[r.op]
    BY PALAssumption
  <2>3. /\ job'.pc \in {"dma0", "dma1"} /\ job'.turn \in BOOLEAN
        /\ job'.op \in DOMAIN Timing /\ job'.page \in DOMAIN Timing[job'.op]
        /\ job'.block \in 0 .. SuperBlocks' - 1
        /\ {job'.arrived, job'.from, job'.slot0, job'.mem} \subseteq Nat
        /\ job'.finishedAt \in Int /\ job'.from >= job'.arrived
    <3>1. job'.block \in 0 .. SuperBlocks' - 1
      BY <1>5, <1>10
    <3>2. job'.op \in DOMAIN Timing /\ job'.page \in DOMAIN Timing[job'.op]
      BY ONLY <2>2, <1>5
    <3>3. job'.pc \in {"dma0", "dma1"}
      BY ONLY <1>5
    <3>4. job'.turn \in BOOLEAN
      BY ONLY <1>5
    <3>5. /\ {job'.arrived, job'.from, job'.slot0, job'.mem} \subseteq Nat
          /\ job'.finishedAt \in Int /\ job'.from >= job'.arrived
      <4>1. /\ job'.arrived = tick /\ job'.from = tick /\ job'.slot0 = 0
            /\ job'.mem = 0 /\ job'.finishedAt = tick
        BY ONLY <1>5
      <4> QED BY ONLY <4>1, <1>7
    <3> QED BY ONLY <3>1, <3>2, <3>3, <3>4, <3>5
  <2>4. job'.pc # "dma1"
    BY <1>5
  <2> QED BY ONLY <2>1, <2>3, <2>4 DEF JobInv
<1>12. Ends(Len(answered) + 1) = {}
  BY <1>1 DEF IInv, AnswerInv
<1>13. AnswerInv'
  <2>1. \A n : Ends(n)' = Ends(n)
    BY <1>1 DEF Ends
  <2>2. AnswerInv /\ answered' = answered /\ ops' = ops
    BY <1>1 DEF IInv
  <2>3. job'.finishedAt = job'.arrived
    BY <1>5
  <2> QED BY ONLY <2>1, <2>2, <2>3, <1>1, <1>6, <1>12 DEF AnswerInv
<1>14. AddressInv'
  <2>1. AddressInv /\ answered' = answered /\ ops' = ops
    BY <1>1 DEF IInv
  <2>2. \A o \in ops : o.request # Len(answered) + 1
    BY <1>12 DEF Ends
  <2> QED BY ONLY <2>1, <2>2, <1>5, <1>9, <1>10 DEF AddressInv
<1> QED BY <1>2, <1>11, <1>13, <1>14 DEF IInv

(***************************************************************************)
(* Old slots are forgotten while nothing is scheduled.                     *)
(***************************************************************************)
LEMMA FlushInv ==
  ASSUME IInv, NEW tick \in FlushTicks, Flush(tick)
  PROVE  IInv'
<1>1. /\ UNCHANGED <<layout, chStart, dieStart, job, ops, answered, asserted>>
      /\ job = Idle
      /\ chSlots' = [c \in Channels |-> FlushAFreeSlot(chSlots[c], tick - FLUSH_RANGE)]
      /\ dieSlots' = [d \in Dies |-> FlushAFreeSlot(dieSlots[d], tick - FLUSH_RANGE)]
  BY DEF Flush
<1>2. Channels' = Channels /\ Dies' = Dies
  BY <1>1 DEF Channels, Dies
<1>3. \A slots, t : FlushAFreeSlot(slots, t) \subseteq slots
  BY DEF FlushAFreeSlot
<1>4. ShapeInv'
  <2>1. layout' \in Layouts /\ chStart' = chStart /\ dieStart' = dieStart
    BY <1>1 DEF IInv, ShapeInv
  <2>2. /\ chStart' = [c \in Channels |-> chStart'[c]]
        /\ dieStart' = [d \in Dies |-> dieStart'[d]]
    BY <1>1 DEF IInv, ShapeInv
  <2>3. /\ chSlots' = [c \in Channels |-> chSlots'[c]]
        /\ dieSlots' = [d \in Dies |-> dieSlots'[d]]
    BY ONLY <1>1
  <2> QED BY ONLY <2>1, <2>2, <2>3, <1>2 DEF ShapeInv
<1>5. ASSUME NEW c \in Channels
      PROVE  ChannelInv(c)'
  <2>1. ChannelInv(c)
    BY DEF IInv
  <2>2. PICK s : s = chSlots'[c]
    OBVIOUS
  <2>3. s \in SUBSET chSlots[c]
    BY <1>1, <1>3, <2>2
  <2>4. /\ Resource(s, chStart[c], ChClasses)
        /\ \A a, b : Taken(chSlots[c], chStart[c], a, b) => Taken(s, chStart[c], a, b)
    BY <2>1, <2>3, FewerSlots DEF ChannelInv
  <2>5. OfChannel(c)' = OfChannel(c)
    BY <1>1 DEF OfChannel
  <2>6. chStart' = chStart
    BY <1>1
  <2> QED BY ONLY <2>1, <2>2, <2>4, <2>5, <2>6 DEF ChannelInv, Resource, Taken
<1>6. ASSUME NEW d \in Dies
      PROVE  DieInv(d)'
  <2>1. DieInv(d)
    BY DEF IInv
  <2>2. PICK s : s = dieSlots'[d]
    OBVIOUS
  <2>3. s \in SUBSET dieSlots[d]
    BY <1>1, <1>3, <2>2
  <2>4. /\ Resource(s, dieStart[d], DieClasses)
        /\ \A a, b : Taken(dieSlots[d], dieStart[d], a, b) => Taken(s, dieStart[d], a, b)
    BY <2>1, <2>3, FewerSlots DEF DieInv
  <2>5. OfDie(d)' = OfDie(d)
    BY <1>1 DEF OfDie, CPDPBPtoDieIdx
  <2>6. dieStart' = dieStart
    BY <1>1
  <2> QED BY ONLY <2>1, <2>2, <2>4, <2>5, <2>6 DEF DieInv, Resource, Taken
<1>7. TimeInv'
  BY <1>1 DEF IInv, TimeInv, OpTypes
<1>8. AnswerInv'
  <2>1. \A n : Ends(n)' = Ends(n)
    BY <1>1 DEF Ends
  <2>2. AnswerInv /\ answered' = answered /\ ops' = ops /\ job' = Idle
    BY <1>1 DEF IInv
  <2> QED BY ONLY <2>1, <2>2, <1>1 DEF AnswerInv
<1>9. JobInv'
  BY <1>1 DEF JobInv
<1>10. AddressInv'
  <2>1. SuperBlocks' = SuperBlocks
        /\ \A b, p : Addresses(b, p)' = Addresses(b, p)
    BY <1>1, AddressesKept
  <2>2. AddressInv /\ ops' = ops /\ job' = Idle
    BY <1>1 DEF IInv
  <2> QED BY ONLY <2>1, <2>2 DEF AddressInv
<1> QED BY <1>2, <1>4, <1>5, <1>6, <1>7, <1>8, <1>9, <1>10 DEF IInv

\* The operation o leaves the channel as c and the die as d.
OperationFits(o, c, d) ==
  /\ OpTypes(o)
  /\ o.dma0 >= o.arrived /\ o.dma1 > o.dma0end + o.mem
  /\ o.memend = o.dma1end /\ o.arrived <= o.dma1end
  /\ Follows(chSlots[Channel], chStart[Channel], ChClasses, c)
  /\ Follows(dieSlots[Die], dieStart[Die], DieClasses, d)
  /\ \A b \in Busy(o) :
       /\ Taken(c.slots, c.start, b[1], b[2])
       /\ \A x, y \in Int : Taken(chSlots[Channel], chStart[Channel], x, y)
                              => Disjoint(x, y, b[1], b[2])
  /\ Taken(d.slots, d.start, o.dma0, o.memend)
  /\ \A x, y \in Int : Taken(dieSlots[Die], dieStart[Die], x, y)
                         => Disjoint(x, y, o.dma0, o.memend)

(***************************************************************************)
(* The channel, from the search to the gap that is split off: r is what it *)
(* becomes, and DMA1 is where the search has found it.                     *)
(***************************************************************************)
LEMMA ChannelTimes ==
  ASSUME IInv, job.pc = "dma1",
         NEW c1, c1 = TakeDMA0, NEW c2, c2 = TakeDMA1(c1), NEW c3, c3 = SplitGap(c2)
  PROVE  LET slots == chSlots[Channel]
             start == chStart[Channel]
             dma1 == DMA1Tick(c1)
         IN  /\ DMA0Tick = job.from
             /\ dma1 = DMA1Slot(job.from).at + AntiLatency
             /\ c1.ok /\ c2.ok /\ c3.ok
             /\ Follows(slots, start, ChClasses, c3)
             /\ Taken(c3.slots, c3.start, job.from, job.from + Lat.dma0 - 1)
             /\ Taken(c3.slots, c3.start, dma1, dma1 + Lat.dma1 - 1)
             /\ \A x, y \in Int : Taken(slots, start, x, y) =>
                  /\ Disjoint(x, y, job.from, job.from + Lat.dma0 - 1)
                  /\ Disjoint(x, y, dma1, dma1 + Lat.dma1 - 1)
<1> DEFINE slots == chSlots[Channel]
           start == chStart[Channel]
<1>1. job # Idle
  BY NotIdle
<1>2. /\ Resource(slots, start, ChClasses)
      /\ Lat.dma0 \in Nat \ {0} /\ Lat.mem \in Nat /\ Lat.dma1 \in Nat
      /\ Min(ChClasses) <= Lat.dma1 + AntiLatency
      /\ AntiLatency \in Nat \ {0} /\ job.from \in Nat /\ job.slot0 \in Nat
  BY <1>1, JobFacts
<1>3. Classes(ChClasses)
  BY ConstantFacts
<1>4. PICK f \in Nat, l \in Nat, k \in Nat, a \in Nat \ {0}, n \in Nat \ {0} :
        /\ f = job.from /\ l = Lat.dma0 /\ k = Lat.dma1 /\ a = AntiLatency
        /\ n = Lat.dma1 + AntiLatency
  <2>1. Lat.dma1 + AntiLatency \in Nat \ {0}
    BY ONLY <1>2
  <2>2. /\ job.from \in Nat /\ Lat.dma0 \in Nat /\ Lat.dma1 \in Nat
        /\ AntiLatency \in Nat \ {0}
    BY ONLY <1>2
  <2> QED BY ONLY <2>1, <2>2, Zenon
<1>5. FitsAt(slots, start, l, f, job.slot0)
  BY <1>1, <1>4 DEF IInv, JobInv
<1>6. c1 = InsertFreeSlot(slots, ChClasses, start, l, f, job.slot0, FALSE)
  <2>1. c1 = InsertFreeSlot([slots |-> slots, start |-> start].slots, ChClasses,
                            [slots |-> slots, start |-> start].start, l, f,
                            job.slot0, FALSE)
    BY <1>4 DEF TakeDMA0, Take
  <2> HIDE DEF slots, start
  <2> QED BY <2>1
<1>7. PICK D : D = DMA1Slot(job.from)
  OBVIOUS
<1>8. /\ D.slot \in Nat /\ D.at \in Nat /\ D.at >= f + l + Lat.mem
      /\ FitsAt(slots, start, n, D.at, D.slot)
  BY <1>4, <1>7, DMA1Facts
<1>9. DMA0Tick = f
  <2>1. job.slot0 <= f
    BY <1>5 DEF FitsAt
  <2>2. Max({f, job.slot0}) = IF f <= job.slot0 THEN job.slot0 ELSE f
    BY ONLY <1>2, f \in Nat, MaxOfTwo
  <2>3. Max({f, job.slot0}) = f
    BY ONLY <2>1, <2>2, <1>2, f \in Nat
  <2> QED BY ONLY <2>3, <1>4 DEF DMA0Tick
<1> HIDE DEF slots, start
<1>10. /\ c1.ok
       /\ Follows(slots, start, ChClasses, c1)
       /\ Taken(c1.slots, c1.start, f, f + l - 1)
       /\ \A x, y \in Int : Taken(slots, start, x, y) => Disjoint(x, y, f, f + l - 1)
  <2>1. FALSE \in BOOLEAN
    OBVIOUS
  <2> QED BY ONLY <1>2, <1>3, <1>5, <1>6, <2>1, f \in Nat, l \in Nat, TakeLemma
<1>11. PICK y \in Nat : FitsAt(c1.slots, c1.start, n, D.at, y)
  <2>1. f + l <= D.at /\ Min(ChClasses) <= n
    BY ONLY <1>2, <1>4, <1>8
  <2>2. /\ Resource(slots, start, ChClasses) /\ job.slot0 \in Nat
        /\ D.at \in Nat /\ D.slot \in Nat /\ FitsAt(slots, start, n, D.at, D.slot)
    BY ONLY <1>2, <1>8
  <2>3. Inserted(slots, start, ChClasses, l, f, FALSE, c1)
    <3>1. FALSE \in BOOLEAN
      OBVIOUS
    <3> QED BY ONLY <2>2, <3>1, <1>3, <1>5, <1>6, f \in Nat, l \in Nat, InsertLemma
  <2> QED BY ONLY <2>1, <2>2, <2>3, n \in Nat \ {0} DEF Inserted
<1>12. DMA1After(c1).slot = y /\ DMA1After(c1).at = D.at
  <2>1. Resource(c1.slots, c1.start, ChClasses)
    BY <1>10 DEF Follows
  <2>2. Fit(c1.slots, ChClasses, c1.start, n, D.at) = [slot |-> y, at |-> D.at]
    BY ONLY <2>1, <1>3, <1>8, <1>11, n \in Nat \ {0}, FitStays
  <2>3. DMA1After(c1) = [slot |-> y, at |-> D.at]
    BY <1>4, <1>7, <2>2 DEF DMA1After
  <2> QED BY ONLY <2>3
<1>13. PICK t \in Nat : t = D.at + a
  BY <1>8
<1>14. y <= D.at
  BY <1>11 DEF FitsAt
<1>15. DMA1Tick(c1) = t
  <2>1. Max({D.at, y}) = IF D.at <= y THEN y ELSE D.at
    BY ONLY <1>8, y \in Nat, MaxOfTwo
  <2>2. Max({D.at, y}) = D.at
    BY ONLY <2>1, <1>8, <1>14, y \in Nat
  <2> QED BY ONLY <2>2, <1>4, <1>12, <1>13 DEF DMA1Tick
<1>16. c2 = InsertFreeSlot(c1.slots, ChClasses, c1.start, k, t, y, FALSE)
  BY ONLY <1>4, <1>12, <1>15, c2 = TakeDMA1(c1) DEF TakeDMA1, Take
<1>17. FitsAt(c1.slots, c1.start, k, t, y)
  <2>1. y <= t
    BY ONLY <1>8, <1>13, <1>14, y \in Nat, a \in Nat \ {0}
  <2>2. D.at + n - 1 = t + k - 1
    BY ONLY <1>2, <1>4, <1>8, <1>13
  <2> QED BY ONLY <2>1, <2>2, <1>11 DEF FitsAt
<1>18. Resource(c1.slots, c1.start, ChClasses)
  BY <1>10 DEF Follows
<1>19. /\ c2.ok
       /\ Follows(c1.slots, c1.start, ChClasses, c2)
       /\ Taken(c2.slots, c2.start, t, t + k - 1)
       /\ \A x, z \in Int : Taken(c1.slots, c1.start, x, z) => Disjoint(x, z, t, t + k - 1)
  <2>1. FALSE \in BOOLEAN
    OBVIOUS
  <2> QED BY ONLY <1>3, <1>16, <1>17, <1>18, <2>1, t \in Nat, k \in Nat,
             y \in Nat, TakeLemma
<1>20. Resource(c2.slots, c2.start, ChClasses)
  BY <1>19 DEF Follows
<1>21. c3.ok /\ Follows(c2.slots, c2.start, ChClasses, c3)
  <2>1. PICK w \in Nat, m \in Nat \ {0} : w = f + l /\ m = a * 2
    OBVIOUS
  <2>2. PICK g : g = Fit(c2.slots, ChClasses, c2.start, m, w)
    OBVIOUS
  <2>3. /\ g.slot \in Nat /\ g.at \in Nat
        /\ FitsAt(c2.slots, c2.start, m, g.at, g.slot)
    BY ONLY <1>3, <1>20, <2>2, w \in Nat, m \in Nat \ {0}, FitResult
  <2>4. c3 = IF g.at = w
             THEN InsertFreeSlot(c2.slots, ChClasses, c2.start, m, w, g.slot, TRUE)
             ELSE [slots |-> c2.slots, start |-> c2.start, ok |-> TRUE]
    BY ONLY <1>4, <1>9, <2>1, <2>2, c3 = SplitGap(c2) DEF SplitGap, Take
  <2>5. CASE g.at = w
    <3>1. c3 = InsertFreeSlot(c2.slots, ChClasses, c2.start, m, w, g.slot, TRUE)
      BY <2>4, <2>5
    <3>2. TRUE \in BOOLEAN /\ m \in Nat /\ FitsAt(c2.slots, c2.start, m, w, g.slot)
      BY <2>3, <2>5
    <3> QED BY ONLY <3>1, <3>2, <1>3, <1>20, <2>3, w \in Nat, TakeLemma
  <2>6. CASE g.at # w
    <3>1. c3 = [slots |-> c2.slots, start |-> c2.start, ok |-> TRUE]
      BY <2>4, <2>6
    <3>2. c3.slots = c2.slots /\ c3.start = c2.start /\ c3.ok
      BY ONLY <3>1
    <3> QED BY ONLY <3>2, <1>20 DEF Follows
  <2> QED BY <2>5, <2>6
<1>22. Follows(slots, start, ChClasses, c3) /\ Follows(c1.slots, c1.start, ChClasses, c3)
  BY ONLY <1>10, <1>19, <1>21, FollowsTwice
<1>23. PICK p \in Int, q \in Int : p = f + l - 1 /\ q = t + k - 1
  OBVIOUS
<1>24. /\ Taken(c3.slots, c3.start, f, p)
       /\ Taken(c3.slots, c3.start, t, q)
  <2>1. f \in Int /\ t \in Int
    OBVIOUS
  <2> QED BY ONLY <2>1, <1>10, <1>19, <1>21, <1>22, <1>23 DEF Follows
<1>25. \A x, z \in Int : Taken(slots, start, x, z) =>
         Disjoint(x, z, f, p) /\ Disjoint(x, z, t, q)
  BY ONLY <1>10, <1>19, <1>23 DEF Follows
<1> QED BY ONLY <1>4, <1>7, <1>9, <1>10, <1>13, <1>15, <1>19, <1>21, <1>22,
           <1>23, <1>24, <1>25 DEF slots, start

(***************************************************************************)
(* The die, from the command to the end of the data.                       *)
(***************************************************************************)
LEMMA DieTimes ==
  ASSUME IInv, job.pc = "dma1", DieAgrees, NEW d, d = TakeDie
  PROVE  LET end == job.from + TotalLatency - 1
         IN  /\ Max({job.from, job.mem}) = job.from
             /\ d.ok
             /\ Follows(dieSlots[Die], dieStart[Die], DieClasses, d)
             /\ Taken(d.slots, d.start, job.from, end)
             /\ \A x, y \in Int : Taken(dieSlots[Die], dieStart[Die], x, y)
                                    => Disjoint(x, y, job.from, end)
<1> DEFINE slots == dieSlots[Die]
           start == dieStart[Die]
<1>1. job # Idle
  BY NotIdle
<1>2. /\ Resource(slots, start, DieClasses)
      /\ job.from \in Nat /\ job.mem \in Nat
  BY <1>1, JobFacts
<1>3. Classes(DieClasses)
  BY ConstantFacts
<1>4. PICK t \in Nat \ {0} : t = TotalLatency
  BY DMA1Facts
<1>5. PICK f \in Nat : f = job.from
  BY <1>2
<1>6. job.mem <= f
  BY <1>1, <1>5 DEF IInv, JobInv, FitsAt
<1>7. PICK r : r = FitDie(TotalLatency, job.from)
  OBVIOUS
<1>8. r = Fit(slots, DieClasses, start, t, f)
  BY <1>4, <1>5, <1>7 DEF FitDie
<1>9. r.slot = job.mem
  BY <1>7 DEF DieAgrees
<1>10. d = InsertFreeSlot(slots, DieClasses, start, t, f, job.mem, FALSE)
  BY <1>4, <1>5 DEF TakeDie
<1> HIDE DEF slots, start
<1>11. FitsAt(slots, start, t, f, job.mem)
  <2>1. FitsAt(slots, start, t, r.at, r.slot) /\ (r.slot <= f => r.at = f)
    BY ONLY <1>2, <1>3, <1>8, t \in Nat \ {0}, f \in Nat, FitResult
  <2> QED BY <2>1, <1>6, <1>9
<1>12. /\ d.ok
       /\ Follows(slots, start, DieClasses, d)
       /\ Taken(d.slots, d.start, f, f + t - 1)
       /\ \A x, y \in Int : Taken(slots, start, x, y) => Disjoint(x, y, f, f + t - 1)
  <2>1. FALSE \in BOOLEAN /\ t \in Nat
    OBVIOUS
  <2> QED BY ONLY <1>2, <1>3, <1>10, <1>11, <2>1, f \in Nat, TakeLemma
<1>13. Max({f, job.mem}) = f
  <2>1. Max({f, job.mem}) = IF f <= job.mem THEN job.mem ELSE f
    BY ONLY <1>2, f \in Nat, MaxOfTwo
  <2> QED BY ONLY <2>1, <1>2, <1>6, f \in Nat
<1> QED BY ONLY <1>4, <1>5, <1>12, <1>13 DEF slots, start

(***************************************************************************)
(* The operation has the times it needs, and nobody else has them.         *)
(***************************************************************************)
LEMMA AssignFits ==
  ASSUME IInv, job.pc = "dma1", DieAgrees,
         NEW c1, c1 = TakeDMA0, NEW c2, c2 = TakeDMA1(c1), NEW c3, c3 = SplitGap(c2),
         NEW d, d = TakeDie, NEW o, o = Operation(DMA1Tick(c1))
  PROVE  /\ c1.ok /\ c2.ok /\ c3.ok /\ d.ok
         /\ OperationFits(o, c3, d)
         /\ o.request = Len(answered) + 1 /\ o.block = job.block
         /\ o.arrived = job.arrived /\ o.address = Head(job.list)
<1>1. job # Idle
  BY NotIdle
<1>2. /\ Lat.dma0 \in Nat \ {0} /\ Lat.mem \in Nat /\ Lat.dma1 \in Nat
      /\ AntiLatency \in Nat \ {0} /\ job.from \in Nat /\ job.arrived \in Nat
      /\ job.from >= job.arrived
  BY <1>1, JobFacts
<1>3. PICK D : D = DMA1Slot(job.from).at
  OBVIOUS
<1>4. PICK t : t = DMA1Tick(c1)
  OBVIOUS
<1>5. /\ DMA0Tick = job.from /\ t = D + AntiLatency
      /\ c1.ok /\ c2.ok /\ c3.ok
      /\ Follows(chSlots[Channel], chStart[Channel], ChClasses, c3)
      /\ Taken(c3.slots, c3.start, job.from, job.from + Lat.dma0 - 1)
      /\ Taken(c3.slots, c3.start, t, t + Lat.dma1 - 1)
      /\ \A x, y \in Int : Taken(chSlots[Channel], chStart[Channel], x, y) =>
           /\ Disjoint(x, y, job.from, job.from + Lat.dma0 - 1)
           /\ Disjoint(x, y, t, t + Lat.dma1 - 1)
  BY <1>3, <1>4, ChannelTimes
<1>6. PICK end : end = job.from + TotalLatency - 1
  OBVIOUS
<1>7. /\ Max({job.from, job.mem}) = job.from
      /\ d.ok
      /\ Follows(dieSlots[Die], dieStart[Die], DieClasses, d)
      /\ Taken(d.slots, d.start, job.from, end)
      /\ \A x, y \in Int : Taken(dieSlots[Die], dieStart[Die], x, y)
                             => Disjoint(x, y, job.from, end)
  BY <1>6, DieTimes
<1>8. /\ D \in Nat /\ D >= job.from + Lat.dma0 + Lat.mem
      /\ TotalLatency = D + Lat.dma1 + AntiLatency - job.from
  BY <1>3, DMA1Facts
<1>9. /\ o.request = Len(answered) + 1 /\ o.block = job.block
      /\ o.arrived = job.arrived /\ o.address = Head(job.list)
      /\ o.dma0 = DMA0Tick /\ o.dma0end = DMA0Tick + Lat.dma0 - 1
      /\ o.mem = Lat.mem /\ o.dma1 = t /\ o.dma1end = t + Lat.dma1 - 1
      /\ o.memend = Max({job.from, job.mem}) + TotalLatency - 1
  <2>1. o = [request |-> Len(answered) + 1, block |-> job.block, op |-> job.op,
             arrived |-> job.arrived, address |-> Head(job.list),
             dma0 |-> DMA0Tick, dma0end |-> DMA0Tick + Lat.dma0 - 1,
             mem |-> Lat.mem,
             dma1 |-> t, dma1end |-> t + Lat.dma1 - 1,
             memend |-> Max({job.from, job.mem}) + TotalLatency - 1]
    BY ONLY <1>4, o = Operation(DMA1Tick(c1)) DEF Operation
  <2> QED BY ONLY <2>1
<1>10. /\ o.dma0 = job.from /\ o.dma0end = job.from + Lat.dma0 - 1
       /\ o.mem = Lat.mem /\ o.dma1 = t /\ o.dma1end = t + Lat.dma1 - 1
       /\ o.memend = end
  BY ONLY <1>5, <1>6, <1>7, <1>9
<1>11. Len(answered) + 1 \in Nat
  BY DEF IInv, AnswerInv
<1>12. OpTypes(o)
  <2>1. {o.request, o.arrived, o.dma0, o.mem, o.dma1} \subseteq Nat
    BY ONLY <1>2, <1>5, <1>8, <1>9, <1>10, <1>11
  <2>2. o.dma0end \in Int /\ o.dma1end \in Int /\ o.dma0 <= o.dma0end
    BY ONLY <1>2, <1>5, <1>8, <1>10
  <2>3. o.memend \in Int
    BY ONLY <1>2, <1>6, <1>8, <1>10
  <2> QED BY ONLY <2>1, <2>2, <2>3 DEF OpTypes
<1>13. o.dma0 >= o.arrived /\ o.dma1 > o.dma0end + o.mem
  <2>1. o.arrived = job.arrived /\ t = D + AntiLatency
    BY <1>5, <1>9
  <2>2. o.dma0 >= o.arrived
    BY ONLY <2>1, <1>2, <1>10
  <2>3. D + AntiLatency > job.from + Lat.dma0 - 1 + Lat.mem
    BY ONLY <1>2, <1>8
  <2> QED BY ONLY <2>1, <2>2, <2>3, <1>10
<1>14. o.memend = o.dma1end
  BY ONLY <1>2, <1>5, <1>6, <1>8, <1>10
<1>15. o.arrived <= o.dma1end
  <2>1. o.arrived = job.arrived /\ t = D + AntiLatency
    BY <1>5, <1>9
  <2>2. job.arrived <= D + AntiLatency + Lat.dma1 - 1
    BY ONLY <1>2, <1>8
  <2> QED BY ONLY <2>1, <2>2, <1>10
<1>16. \A b \in Busy(o) :
         /\ Taken(c3.slots, c3.start, b[1], b[2])
         /\ \A x, y \in Int : Taken(chSlots[Channel], chStart[Channel], x, y)
                                => Disjoint(x, y, b[1], b[2])
  <2> TAKE b \in Busy(o)
  <2>1. \/ b[1] = job.from /\ b[2] = job.from + Lat.dma0 - 1
        \/ b[1] = t /\ b[2] = t + Lat.dma1 - 1
    <3>1. b = <<o.dma0, o.dma0end>> \/ b = <<o.dma1, o.dma1end>>
      BY DEF Busy
    <3> QED BY ONLY <3>1, <1>10
  <2> QED BY ONLY <2>1, <1>5
<1>17. /\ Taken(d.slots, d.start, o.dma0, o.memend)
       /\ \A x, y \in Int : Taken(dieSlots[Die], dieStart[Die], x, y)
                              => Disjoint(x, y, o.dma0, o.memend)
  BY ONLY <1>7, <1>10
<1>18. OperationFits(o, c3, d)
  BY ONLY <1>5, <1>7, <1>12, <1>13, <1>14, <1>15, <1>16, <1>17 DEF OperationFits
<1> QED BY ONLY <1>5, <1>7, <1>9, <1>18

\* What Assign does, in terms of the operation it schedules.
AssignStep(o, c, d) ==
  /\ job.pc = "dma1"
  /\ OperationFits(o, c, d)
  /\ o.request = Len(answered) + 1 /\ o.block = job.block
  /\ o.arrived = job.arrived /\ o.address = Head(job.list)
  /\ chSlots' = [chSlots EXCEPT ![Channel] = c.slots]
  /\ chStart' = [chStart EXCEPT ![Channel] = c.start]
  /\ dieSlots' = [dieSlots EXCEPT ![Die] = d.slots]
  /\ dieStart' = [dieStart EXCEPT ![Die] = d.start]
  /\ ops' = ops \cup {o}
  /\ layout' = layout
  /\ ~asserted'
  /\ \/ /\ Len(job.list) = 1 /\ job' = Idle
        /\ answered' = Append(answered, Max({job.finishedAt, o.dma1end}))
     \/ /\ Len(job.list) # 1
        /\ job' = [job EXCEPT !.list = Tail(@), !.from = job.arrived,
                              !.finishedAt = Max({job.finishedAt, o.dma1end}),
                              !.pc = "dma0"]
        /\ answered' = answered

LEMMA AssignIsStep ==
  ASSUME IInv, Assign
  PROVE  \E o, c, d : AssignStep(o, c, d)
<1>1. PICK c1 : c1 = TakeDMA0
  OBVIOUS
<1>2. PICK c2 : c2 = TakeDMA1(c1)
  OBVIOUS
<1>3. PICK c3 : c3 = SplitGap(c2)
  OBVIOUS
<1>4. PICK d, o : d = TakeDie /\ o = Operation(DMA1Tick(c1))
  OBVIOUS
<1>5. job.pc = "dma1" /\ DieAgrees
  BY DEF Assign
<1>6. /\ c1.ok /\ c2.ok /\ c3.ok /\ d.ok
      /\ OperationFits(o, c3, d)
      /\ o.request = Len(answered) + 1 /\ o.block = job.block
      /\ o.arrived = job.arrived /\ o.address = Head(job.list)
  BY ONLY <1>1, <1>2, <1>3, <1>4, <1>5, IInv, AssignFits
<1>7. PICK tick : tick = Max({job.finishedAt, o.dma1end})
  OBVIOUS
<1>8. /\ chSlots' = [chSlots EXCEPT ![Channel] = c3.slots]
      /\ chStart' = [chStart EXCEPT ![Channel] = c3.start]
      /\ dieSlots' = [dieSlots EXCEPT ![Die] = d.slots]
      /\ dieStart' = [dieStart EXCEPT ![Die] = d.start]
      /\ asserted' = (asserted \/ ~(c1.ok /\ c2.ok /\ c3.ok /\ d.ok))
      /\ ops' = ops \cup {o}
      /\ layout' = layout
  BY ONLY Assign, <1>1, <1>2, <1>3, <1>4 DEF Assign
<1>9. /\ job' = IF Len(job.list) = 1 THEN Idle
                ELSE [job EXCEPT !.list = Tail(@), !.from = job.arrived,
                                 !.finishedAt = tick, !.pc = "dma0"]
      /\ answered' = IF Len(job.list) = 1 THEN Append(answered, tick) ELSE answered
  BY ONLY Assign, <1>1, <1>4, <1>7 DEF Assign
<1>10. ~asserted'
  <2>1. ~asserted
    BY DEF IInv, TimeInv
  <2> QED BY ONLY <2>1, <1>6, <1>8
<1>11. AssignStep(o, c3, d)
  <2>1. CASE Len(job.list) = 1
    BY ONLY <2>1, <1>5, <1>6, <1>7, <1>8, <1>9, <1>10 DEF AssignStep
  <2>2. CASE Len(job.list) # 1
    BY ONLY <2>2, <1>5, <1>6, <1>7, <1>8, <1>9, <1>10 DEF AssignStep
  <2> QED BY <2>1, <2>2
<1> QED BY <1>11

LEMMA AssignShape ==
  ASSUME IInv, NEW o, NEW c, NEW d, AssignStep(o, c, d)
  PROVE  /\ ShapeInv'
         /\ Channels' = Channels /\ Dies' = Dies
         /\ \A x \in Channels :
              /\ chSlots'[x] = IF x = Channel THEN c.slots ELSE chSlots[x]
              /\ chStart'[x] = IF x = Channel THEN c.start ELSE chStart[x]
         /\ \A x \in Dies :
              /\ dieSlots'[x] = IF x = Die THEN d.slots ELSE dieSlots[x]
              /\ dieStart'[x] = IF x = Die THEN d.start ELSE dieStart[x]
<1>1. /\ layout' = layout
      /\ chSlots' = [chSlots EXCEPT ![Channel] = c.slots]
      /\ chStart' = [chStart EXCEPT ![Channel] = c.start]
      /\ dieSlots' = [dieSlots EXCEPT ![Die] = d.slots]
      /\ dieStart' = [dieStart EXCEPT ![Die] = d.start]
  BY DEF AssignStep
<1>2. /\ layout \in Layouts
      /\ chSlots = [x \in Channels |-> chSlots[x]]
      /\ chStart = [x \in Channels |-> chStart[x]]
      /\ dieSlots = [x \in Dies |-> dieSlots[x]]
      /\ dieStart = [x \in Dies |-> dieStart[x]]
  BY DEF IInv, ShapeInv
<1>3. Channels' = Channels /\ Dies' = Dies
  BY <1>1 DEF Channels, Dies
<1>4. \A x \in Channels :
        /\ chSlots'[x] = IF x = Channel THEN c.slots ELSE chSlots[x]
        /\ chStart'[x] = IF x = Channel THEN c.start ELSE chStart[x]
  BY ONLY <1>1, <1>2
<1>5. \A x \in Dies :
        /\ dieSlots'[x] = IF x = Die THEN d.slots ELSE dieSlots[x]
        /\ dieStart'[x] = IF x = Die THEN d.start ELSE dieStart[x]
  BY ONLY <1>1, <1>2
<1>6. ShapeInv'
  <2>1. chSlots' = [x \in Channels |-> chSlots'[x]] /\ chStart' = [x \in Channels |-> chStart'[x]]
    BY ONLY <1>1, <1>2
  <2>2. dieSlots' = [x \in Dies |-> dieSlots'[x]] /\ dieStart' = [x \in Dies |-> dieStart'[x]]
    BY ONLY <1>1, <1>2
  <2>3. layout' \in Layouts
    BY <1>1, <1>2
  <2> QED BY ONLY <2>1, <2>2, <2>3, <1>3 DEF ShapeInv
<1> QED BY <1>3, <1>4, <1>5, <1>6

(***************************************************************************)
(* The intervals of an operation have numbers for their ends.              *)
(***************************************************************************)
LEMMA BusyTypes ==
  ASSUME NEW o, OpTypes(o)
  PROVE  /\ \A b \in Busy(o) : b[1] \in Int /\ b[2] \in Int
         /\ o.dma0 \in Int /\ o.memend \in Int
BY DEF OpTypes, Busy

LEMMA DisjointSym ==
  ASSUME NEW a, NEW b, NEW c, NEW d, Disjoint(a, b, c, d)
  PROVE  Disjoint(c, d, a, b)
BY DEF Disjoint

LEMMA AssignChannels ==
  ASSUME IInv, NEW o, NEW c, NEW d, AssignStep(o, c, d)
  PROVE  (\A x \in Channels : ChannelInv(x))'
<1>1. /\ Channels' = Channels
      /\ \A x \in Channels :
           /\ chSlots'[x] = IF x = Channel THEN c.slots ELSE chSlots[x]
           /\ chStart'[x] = IF x = Channel THEN c.start ELSE chStart[x]
  BY AssignShape
<1>2. \A x \in Channels : ChannelInv(x)
  BY DEF IInv
<1>3. \A x : OfChannel(x)' = IF x = Channel THEN OfChannel(x) \cup {o} ELSE OfChannel(x)
  <2>1. ops' = ops \cup {o} /\ o.address.channel = Channel
    BY DEF AssignStep, Channel
  <2> TAKE x
  <2>2. OfChannel(x)' = {p \in ops \cup {o} : p.address.channel = x}
    BY <2>1 DEF OfChannel
  <2>3. OfChannel(x) = {p \in ops : p.address.channel = x}
    BY DEF OfChannel
  <2> QED BY ONLY <2>1, <2>2, <2>3
<1>4. \A p \in ops : \A b \in Busy(p) : b[1] \in Int /\ b[2] \in Int
  BY BusyTypes DEF IInv, TimeInv
<1>5. ASSUME NEW x \in Channels
      PROVE  ChannelInv(x)'
  <2>1. CASE x # Channel
    <3>1. chSlots'[x] = chSlots[x] /\ chStart'[x] = chStart[x] /\ OfChannel(x)' = OfChannel(x)
      BY <2>1, <1>1, <1>3
    <3>2. ChannelInv(x)
      BY <1>2
    <3> QED BY ONLY <3>1, <3>2 DEF ChannelInv, Resource, Taken
  <2>2. CASE x = Channel
    <3>1. chSlots'[x] = c.slots /\ chStart'[x] = c.start /\ OfChannel(x)' = OfChannel(x) \cup {o}
      BY <2>2, <1>1, <1>3
    <3>2. /\ Follows(chSlots[x], chStart[x], ChClasses, c)
          /\ \A b \in Busy(o) :
               /\ Taken(c.slots, c.start, b[1], b[2])
               /\ \A y, z \in Int : Taken(chSlots[x], chStart[x], y, z)
                                      => Disjoint(y, z, b[1], b[2])
      BY <2>2 DEF AssignStep, OperationFits
    <3>3. ChannelInv(x)
      BY <1>2
    <3>4. \A p \in OfChannel(x) : p \in ops
      BY DEF OfChannel
    <3>5. Resource(c.slots, c.start, ChClasses)
      BY <3>2 DEF Follows
    <3>6. ASSUME NEW p \in OfChannel(x) \cup {o}, NEW b \in Busy(p)
          PROVE  Taken(c.slots, c.start, b[1], b[2])
      <4>1. CASE p \in OfChannel(x)
        <5>1. b[1] \in Int /\ b[2] \in Int /\ Taken(chSlots[x], chStart[x], b[1], b[2])
          BY <4>1, <3>3, <3>4, <1>4 DEF ChannelInv
        <5> QED BY <5>1, <3>2 DEF Follows
      <4>2. CASE p = o
        BY <4>2, <3>2
      <4> QED BY <4>1, <4>2
    <3>7. ASSUME NEW p \in OfChannel(x), NEW b \in Busy(p), NEW e \in Busy(o)
          PROVE  Disjoint(b[1], b[2], e[1], e[2]) /\ Disjoint(e[1], e[2], b[1], b[2])
      <4>1. b[1] \in Int /\ b[2] \in Int /\ Taken(chSlots[x], chStart[x], b[1], b[2])
        BY <3>3, <3>4, <1>4 DEF ChannelInv
      <4> QED BY <4>1, <3>2, DisjointSym
    <3>8. ASSUME NEW p \in OfChannel(x) \cup {o}, NEW q \in (OfChannel(x) \cup {o}) \ {p},
                 NEW b \in Busy(p), NEW e \in Busy(q)
          PROVE  Disjoint(b[1], b[2], e[1], e[2])
      <4>1. CASE p \in OfChannel(x) /\ q \in OfChannel(x)
        BY <4>1, <3>3 DEF ChannelInv
      <4>2. CASE p \in OfChannel(x) /\ q = o
        BY <4>2, <3>7
      <4>3. CASE p = o /\ q \in OfChannel(x)
        BY <4>3, <3>7
      <4> QED BY <4>1, <4>2, <4>3
    <3> QED BY ONLY <3>1, <3>5, <3>6, <3>8 DEF ChannelInv, Resource, Taken
  <2> QED BY <2>1, <2>2
<1> QED BY <1>1, <1>5

LEMMA AssignDies ==
  ASSUME IInv, NEW o, NEW c, NEW d, AssignStep(o, c, d)
  PROVE  (\A x \in Dies : DieInv(x))'
<1>1. /\ Dies' = Dies
      /\ \A x \in Dies :
           /\ dieSlots'[x] = IF x = Die THEN d.slots ELSE dieSlots[x]
           /\ dieStart'[x] = IF x = Die THEN d.start ELSE dieStart[x]
  BY AssignShape
<1>2. \A x \in Dies : DieInv(x)
  BY DEF IInv
<1>3. \A x : OfDie(x)' = IF x = Die THEN OfDie(x) \cup {o} ELSE OfDie(x)
  <2>1. ops' = ops \cup {o} /\ CPDPBPtoDieIdx(o.address) = Die /\ layout' = layout
    BY DEF AssignStep, Die
  <2>2. \A a : CPDPBPtoDieIdx(a)' = CPDPBPtoDieIdx(a)
    BY <2>1 DEF CPDPBPtoDieIdx
  <2> TAKE x
  <2>3. OfDie(x)' = {p \in ops \cup {o} : CPDPBPtoDieIdx(p.address) = x}
    BY <2>1, <2>2 DEF OfDie
  <2>4. OfDie(x) = {p \in ops : CPDPBPtoDieIdx(p.address) = x}
    BY DEF OfDie
  <2> QED BY ONLY <2>1, <2>3, <2>4
<1>4. \A p \in ops : p.dma0 \in Int /\ p.memend \in Int
  BY BusyTypes DEF IInv, TimeInv
<1>5. ASSUME NEW x \in Dies
      PROVE  DieInv(x)'
  <2>1. CASE x # Die
    <3>1. dieSlots'[x] = dieSlots[x] /\ dieStart'[x] = dieStart[x] /\ OfDie(x)' = OfDie(x)
      BY <2>1, <1>1, <1>3
    <3>2. DieInv(x)
      BY <1>2
    <3> QED BY ONLY <3>1, <3>2 DEF DieInv, Resource, Taken
  <2>2. CASE x = Die
    <3>1. dieSlots'[x] = d.slots /\ dieStart'[x] = d.start /\ OfDie(x)' = OfDie(x) \cup {o}
      BY <2>2, <1>1, <1>3
    <3>2. /\ Follows(dieSlots[x], dieStart[x], DieClasses, d)
          /\ Taken(d.slots, d.start, o.dma0, o.memend)
          /\ \A y, z \in Int : Taken(dieSlots[x], dieStart[x], y, z)
                                 => Disjoint(y, z, o.dma0, o.memend)
      BY <2>2 DEF AssignStep, OperationFits
    <3>3. DieInv(x)
      BY <1>2
    <3>4. \A p \in OfDie(x) : p \in ops
      BY DEF OfDie
    <3>5. Resource(d.slots, d.start, DieClasses)
      BY <3>2 DEF Follows
    <3>6. ASSUME NEW p \in OfDie(x)
          PROVE  /\ p.dma0 \in Int /\ p.memend \in Int
                 /\ Taken(dieSlots[x], dieStart[x], p.dma0, p.memend)
      BY <3>3, <3>4, <1>4 DEF DieInv
    <3>7. ASSUME NEW p \in OfDie(x) \cup {o}
          PROVE  Taken(d.slots, d.start, p.dma0, p.memend)
      <4>1. CASE p \in OfDie(x)
        BY <4>1, <3>2, <3>6 DEF Follows
      <4>2. CASE p = o
        BY <4>2, <3>2
      <4> QED BY <4>1, <4>2
    <3>8. ASSUME NEW p \in OfDie(x) \cup {o}, NEW q \in (OfDie(x) \cup {o}) \ {p}
          PROVE  Disjoint(p.dma0, p.memend, q.dma0, q.memend)
      <4>1. CASE p \in OfDie(x) /\ q \in OfDie(x)
        BY <4>1, <3>3 DEF DieInv
      <4>2. CASE p \in OfDie(x) /\ q = o
        BY <4>2, <3>2, <3>6
      <4>3. CASE p = o /\ q \in OfDie(x)
        BY <4>3, <3>2, <3>6, DisjointSym
      <4> QED BY <4>1, <4>2, <4>3
    <3> QED BY ONLY <3>1, <3>5, <3>7, <3>8 DEF DieInv, Resource, Taken
  <2> QED BY <2>1, <2>2
<1> QED BY <1>1, <1>5

LEMMA AssignTimes ==
  ASSUME IInv, NEW o, NEW c, NEW d, AssignStep(o, c, d)
  PROVE  TimeInv'
<1>1. ~asserted' /\ ops' = ops \cup {o}
  BY DEF AssignStep
<1>2. OpTypes(o) /\ o.dma0 >= o.arrived /\ o.dma1 > o.dma0end + o.mem /\ o.memend = o.dma1end
  BY DEF AssignStep, OperationFits
<1>3. \A p \in ops : /\ OpTypes(p) /\ p.dma0 >= p.arrived
                     /\ p.dma1 > p.dma0end + p.mem /\ p.memend = p.dma1end
  BY DEF IInv, TimeInv
<1>4. \A p \in ops \cup {o} : /\ OpTypes(p) /\ p.dma0 >= p.arrived
                              /\ p.dma1 > p.dma0end + p.mem /\ p.memend = p.dma1end
  BY ONLY <1>2, <1>3
<1> QED BY ONLY <1>1, <1>4 DEF TimeInv, OpTypes

(***************************************************************************)
(* The request after the step: it goes on with the rest of its addresses,  *)
(* or it was answered.                                                     *)
(***************************************************************************)
LEMMA NextJob ==
  ASSUME IInv, NEW o, NEW c, NEW d, AssignStep(o, c, d), Len(job.list) # 1
  PROVE  /\ job' = [pc |-> job'.pc, op |-> job'.op, page |-> job'.page,
                    block |-> job'.block, arrived |-> job'.arrived,
                    list |-> job'.list, finishedAt |-> job'.finishedAt,
                    from |-> job'.from, slot0 |-> job'.slot0, mem |-> job'.mem,
                    turn |-> job'.turn]
         /\ job'.pc = "dma0" /\ job'.op = job.op /\ job'.page = job.page
         /\ job'.block = job.block /\ job'.arrived = job.arrived
         /\ job'.list = Tail(job.list) /\ job'.from = job.arrived
         /\ job'.finishedAt = Max({job.finishedAt, o.dma1end})
         /\ job'.slot0 = job.slot0 /\ job'.mem = job.mem /\ job'.turn = job.turn
         /\ answered' = answered
<1>1. job # Idle
  BY NotIdle DEF AssignStep
<1>2. PICK j, k, tick : j = job /\ k = job' /\ tick = Max({job.finishedAt, o.dma1end})
  OBVIOUS
<1>3. j = [pc |-> j.pc, op |-> j.op, page |-> j.page,
           block |-> j.block, arrived |-> j.arrived, list |-> j.list,
           finishedAt |-> j.finishedAt, from |-> j.from,
           slot0 |-> j.slot0, mem |-> j.mem, turn |-> j.turn]
  BY <1>1, <1>2 DEF IInv, JobInv
<1>4. /\ k = [j EXCEPT !.list = Tail(@), !.from = j.arrived,
                       !.finishedAt = tick, !.pc = "dma0"]
      /\ answered' = answered
  BY <1>2 DEF AssignStep
<1>5. k = [pc |-> "dma0", op |-> j.op, page |-> j.page,
           block |-> j.block, arrived |-> j.arrived, list |-> Tail(j.list),
           finishedAt |-> tick, from |-> j.arrived,
           slot0 |-> j.slot0, mem |-> j.mem, turn |-> j.turn]
  <2>1. PICK l : l = Tail(j.list)
    OBVIOUS
  <2>2. k = [j EXCEPT !.list = l, !.from = j.arrived,
                      !.finishedAt = tick, !.pc = "dma0"]
    BY ONLY <1>4, <2>1
  <2>3. k = [pc |-> "dma0", op |-> j.op, page |-> j.page,
             block |-> j.block, arrived |-> j.arrived, list |-> l,
             finishedAt |-> tick, from |-> j.arrived,
             slot0 |-> j.slot0, mem |-> j.mem, turn |-> j.turn]
    BY ONLY <1>3, <2>2
  <2> QED BY ONLY <2>1, <2>3
<1>6. /\ k.pc = "dma0" /\ k.op = j.op /\ k.page = j.page
      /\ k.block = j.block /\ k.arrived = j.arrived
      /\ k.list = Tail(j.list) /\ k.from = j.arrived
      /\ k.finishedAt = tick
      /\ k.slot0 = j.slot0 /\ k.mem = j.mem /\ k.turn = j.turn
  BY ONLY <1>5
<1>7. k = [pc |-> k.pc, op |-> k.op, page |-> k.page,
           block |-> k.block, arrived |-> k.arrived, list |-> k.list,
           finishedAt |-> k.finishedAt, from |-> k.from,
           slot0 |-> k.slot0, mem |-> k.mem, turn |-> k.turn]
  BY ONLY <1>5, <1>6
<1> QED BY ONLY <1>2, <1>4, <1>6, <1>7

LEMMA LastJob ==
  ASSUME NEW o, NEW c, NEW d, AssignStep(o, c, d), Len(job.list) = 1
  PROVE  job' = Idle /\ answered' = Append(answered, Max({job.finishedAt, o.dma1end}))
BY DEF AssignStep

(***************************************************************************)
(* The answer is the end of the request's last operation.                  *)
(***************************************************************************)
LEMMA AssignAnswers ==
  ASSUME IInv, NEW o, NEW c, NEW d, AssignStep(o, c, d)
  PROVE  AnswerInv'
<1>1. job # Idle
  BY NotIdle DEF AssignStep
<1>2. PICK n \in Nat : n = Len(answered)
  BY DEF IInv, AnswerInv
<1>3. PICK fa \in Int, a \in Nat : fa = job.finishedAt /\ a = job.arrived
  BY <1>1 DEF IInv, JobInv
<1>4. PICK e \in Int : e = o.dma1end
  BY DEF AssignStep, OperationFits, OpTypes
<1>5. a <= e
  BY <1>3, <1>4 DEF AssignStep, OperationFits
<1>6. PICK E : E = Ends(n + 1)
  OBVIOUS
<1>7. /\ answered \in Seq(Int)
      /\ \A r \in 1 .. n :
           answered[r] \in Ends(r) /\ \A x \in Ends(r) : x <= answered[r]
      /\ \A p \in ops : p.request <= n + 1
      /\ fa \in E \cup {a} /\ \A x \in E : x <= fa /\ a <= x
  BY <1>1, <1>2, <1>3, <1>6 DEF IInv, AnswerInv
<1>8. E \subseteq Int
  <2>1. \A p \in ops : p.dma1end \in Int
    BY DEF IInv, TimeInv, OpTypes
  <2> QED BY <2>1, <1>6 DEF Ends
<1>9. ops' = ops \cup {o} /\ o.request = n + 1
  BY <1>2 DEF AssignStep
<1>10. Ends(n + 1)' = E \cup {e}
  <2>1. Ends(n + 1)' = {p.dma1end : p \in {q \in ops \cup {o} : q.request = n + 1}}
    BY <1>9 DEF Ends
  <2>2. E = {p.dma1end : p \in {q \in ops : q.request = n + 1}}
    BY <1>6 DEF Ends
  <2> QED BY ONLY <2>1, <2>2, <1>4, <1>9
<1>11. ASSUME NEW r, r # n + 1
       PROVE  Ends(r)' = Ends(r)
  <2>1. {q \in ops \cup {o} : q.request = r} = {q \in ops : q.request = r}
    BY <1>9, <1>11
  <2> QED BY <2>1, <1>9 DEF Ends
<1>12. PICK tick : tick = Max({fa, e})
  OBVIOUS
<1>13. /\ tick \in Int /\ tick \in E \cup {e} /\ \A x \in E \cup {e} : x <= tick
       /\ a <= tick /\ \A x \in E \cup {e} : a <= x
  <2>1. tick = IF fa <= e THEN e ELSE fa
    BY ONLY <1>12, fa \in Int, e \in Int, MaxOfTwo
  <2>2. CASE fa <= e
    BY ONLY <2>1, <2>2, <1>5, <1>7, <1>8, fa \in Int, e \in Int, a \in Nat
  <2>3. CASE ~(fa <= e)
    <3>1. fa # a /\ tick = fa /\ e <= fa /\ a <= fa
      BY ONLY <2>1, <2>3, <1>5, fa \in Int, e \in Int, a \in Nat
    <3> QED BY ONLY <3>1, <1>5, <1>7, fa \in Int, e \in Int, a \in Nat
  <2> QED BY <2>2, <2>3
<1>14. CASE Len(job.list) = 1
  <2>1. job' = Idle /\ answered' = Append(answered, tick)
    BY <1>3, <1>4, <1>12, <1>14, LastJob
  <2>2. /\ answered' \in Seq(Int) /\ Len(answered') = n + 1
        /\ \A r \in 1 .. n : answered'[r] = answered[r]
        /\ answered'[n + 1] = tick
    BY ONLY <2>1, <1>2, <1>7, <1>13
  <2>3. ASSUME NEW r \in 1 .. n + 1
        PROVE  answered'[r] \in Ends(r)' /\ \A x \in Ends(r)' : x <= answered'[r]
    <3>1. CASE r = n + 1
      BY ONLY <3>1, <2>2, <1>10, <1>13
    <3>2. CASE r # n + 1
      <4>1. r \in 1 .. n
        BY <3>2
      <4>2. Ends(r)' = Ends(r)
        BY <3>2, <1>11
      <4> QED BY ONLY <4>1, <4>2, <2>2, <1>7
    <3> QED BY <3>1, <3>2
  <2>4. \A p \in ops' : p.request <= Len(answered') + 1
    <3>1. \A p \in ops : p.request \in Nat
      BY DEF IInv, TimeInv, OpTypes
    <3> QED BY ONLY <3>1, <2>2, <1>7, <1>9, n \in Nat
  <2>5. Ends(n + 2)' = {}
    <3>1. \A p \in ops' : p.request # n + 2
      <4>1. \A p \in ops : p.request \in Nat
        BY DEF IInv, TimeInv, OpTypes
      <4> QED BY ONLY <4>1, <1>7, <1>9, n \in Nat
    <3> QED BY <3>1 DEF Ends
  <2>6. Len(answered') + 1 = n + 2
    BY <2>2
  <2> QED BY ONLY <2>1, <2>2, <2>3, <2>4, <2>5, <2>6 DEF AnswerInv
<1>15. CASE Len(job.list) # 1
  <2>1. job'.pc = "dma0" /\ job'.finishedAt = tick /\ job'.arrived = a /\ answered' = answered
    BY <1>3, <1>4, <1>12, <1>15, NextJob
  <2>2. job' # Idle
    <3>1. job'.pc # "idle"
      BY <2>1
    <3> QED BY <3>1, NotIdle
  <2>3. Len(answered') = n
    BY <1>2, <2>1
  <2>4. ASSUME NEW r \in 1 .. n
        PROVE  answered'[r] \in Ends(r)' /\ \A x \in Ends(r)' : x <= answered'[r]
    <3>1. Ends(r)' = Ends(r)
      <4>1. r # n + 1
        OBVIOUS
      <4> QED BY <4>1, <1>11
    <3> QED BY ONLY <3>1, <2>1, <1>7, r \in 1 .. n
  <2>5. \A p \in ops' : p.request <= n + 1
    BY ONLY <1>7, <1>9, n \in Nat
  <2>6. /\ tick \in Ends(n + 1)' \cup {a}
        /\ \A x \in Ends(n + 1)' : x <= tick /\ a <= x
    BY ONLY <1>10, <1>13
  <2> QED BY ONLY <2>1, <2>2, <2>3, <2>4, <2>5, <2>6, <1>7 DEF AnswerInv
<1> QED BY <1>14, <1>15

LEMMA AssignJob ==
  ASSUME IInv, NEW o, NEW c, NEW d, AssignStep(o, c, d)
  PROVE  JobInv'
<1>1. CASE Len(job.list) = 1
  BY <1>1, LastJob DEF JobInv
<1>2. CASE Len(job.list) # 1
  <2>1. job # Idle
    BY NotIdle DEF AssignStep
  <2>2. /\ job.op \in DOMAIN Timing /\ job.page \in DOMAIN Timing[job.op]
        /\ job.block \in 0 .. SuperBlocks - 1
        /\ job.arrived \in Nat /\ job.slot0 \in Nat /\ job.mem \in Nat
        /\ job.finishedAt \in Int /\ job.turn \in BOOLEAN
    BY <2>1 DEF IInv, JobInv
  <2>3. PICK tick : tick = Max({job.finishedAt, o.dma1end})
    OBVIOUS
  <2>4. tick \in Int
    <3>1. o.dma1end \in Int
      BY DEF AssignStep, OperationFits, OpTypes
    <3>2. tick = IF job.finishedAt <= o.dma1end THEN o.dma1end ELSE job.finishedAt
      BY ONLY <2>2, <2>3, <3>1, MaxOfTwo
    <3> QED BY <2>2, <3>1, <3>2
  <2>5. SuperBlocks' = SuperBlocks
    BY AddressesKept DEF AssignStep
  <2>6. /\ job' = [pc |-> job'.pc, op |-> job'.op, page |-> job'.page,
                   block |-> job'.block, arrived |-> job'.arrived,
                   list |-> job'.list, finishedAt |-> job'.finishedAt,
                   from |-> job'.from, slot0 |-> job'.slot0, mem |-> job'.mem,
                   turn |-> job'.turn]
        /\ job'.pc = "dma0" /\ job'.op = job.op /\ job'.page = job.page
        /\ job'.block = job.block /\ job'.arrived = job.arrived
        /\ job'.from = job.arrived /\ job'.finishedAt = tick
        /\ job'.slot0 = job.slot0 /\ job'.mem = job.mem /\ job'.turn = job.turn
    BY <1>2, <2>3, NextJob
  <2>7. job'.turn \in BOOLEAN
    BY <2>2, <2>6
  <2>8. /\ job'.pc \in {"dma0", "dma1"} /\ job'.pc # "dma1"
        /\ job'.block \in 0 .. SuperBlocks' - 1
    BY <2>2, <2>5, <2>6
  <2>9. job'.op \in DOMAIN Timing /\ job'.page \in DOMAIN Timing[job'.op]
    BY ONLY <2>2, <2>6
  <2>10. /\ {job'.arrived, job'.from, job'.slot0, job'.mem} \subseteq Nat
         /\ job'.finishedAt \in Int /\ job'.from >= job'.arrived
    BY ONLY <2>2, <2>4, <2>6
  <2> QED BY ONLY <2>6, <2>7, <2>8, <2>9, <2>10 DEF JobInv
<1> QED BY <1>1, <1>2

LEMMA AssignAddresses ==
  ASSUME IInv, NEW o, NEW c, NEW d, AssignStep(o, c, d)
  PROVE  AddressInv'
<1>1. job # Idle
  BY NotIdle DEF AssignStep
<1>2. PICK n \in Nat : n = Len(answered)
  BY DEF IInv, AnswerInv
<1>3. PICK list : list = job.list
  OBVIOUS
<1>4. PICK A : A = Addresses(job.block, job.page)
  OBVIOUS
<1>5. /\ \A p \in ops : /\ p.block \in 0 .. SuperBlocks - 1
                        /\ p.address \in Addresses(p.block, p.address.page)
      /\ \A p, q \in ops : p # q /\ p.request = q.request => p.address # q.address
      /\ list \in Seq(A) /\ list # <<>>
      /\ \A i, j \in 1 .. Len(list) : i # j => list[i] # list[j]
      /\ \A p \in ops : p.request = n + 1 =>
           \A i \in 1 .. Len(list) : p.address # list[i]
  BY <1>1, <1>2, <1>3, <1>4 DEF IInv, AddressInv
<1>6. ops' = ops \cup {o} /\ o.request = n + 1 /\ o.block = job.block
      /\ o.address = Head(list) /\ layout' = layout
  BY <1>2, <1>3 DEF AssignStep
<1>7. SuperBlocks' = SuperBlocks /\ \A b, p : Addresses(b, p)' = Addresses(b, p)
  BY <1>6, AddressesKept
<1>8. PICK l \in Nat : l = Len(list)
  BY <1>5
<1>9. l >= 1 /\ Head(list) = list[1] /\ Head(list) \in A
  BY ONLY <1>5, <1>8
<1>10. o.block \in 0 .. SuperBlocks - 1 /\ o.address \in Addresses(o.block, o.address.page)
  <2>1. layout \in Layouts /\ job.block \in 0 .. SuperBlocks - 1
    BY <1>1 DEF IInv, ShapeInv, JobInv
  <2>2. o.address \in Addresses(job.block, job.page)
    BY <1>4, <1>6, <1>9
  <2>3. o.address.page = job.page
    BY ONLY <2>1, <2>2, AddressFacts
  <2> QED BY <2>1, <2>2, <2>3, <1>6
<1>11. \A p \in ops' : /\ p.block \in 0 .. SuperBlocks' - 1
                       /\ p.address \in Addresses(p.block, p.address.page)'
  BY ONLY <1>5, <1>6, <1>7, <1>10
<1>12. \A p \in ops : p.request = n + 1 => p.address # o.address
  BY ONLY <1>5, <1>6, <1>8, <1>9
<1>13. \A p, q \in ops' : p # q /\ p.request = q.request => p.address # q.address
  BY ONLY <1>5, <1>6, <1>12
<1>14. CASE l = 1
  <2>1. job' = Idle
    BY <1>3, <1>8, <1>14, LastJob
  <2> QED BY ONLY <2>1, <1>11, <1>13 DEF AddressInv
<1>15. CASE l # 1
  <2>1. /\ job'.list = Tail(list) /\ answered' = answered
        /\ job'.block = job.block /\ job'.page = job.page
    BY <1>3, <1>8, <1>15, NextJob
  <2>2. PICK t : t = Tail(list)
    OBVIOUS
  <2>3. /\ t \in Seq(A) /\ Len(t) = l - 1 /\ t # <<>>
        /\ \A i \in 1 .. l - 1 : t[i] = list[i + 1] /\ i + 1 \in 1 .. l /\ i + 1 # 1
    <3>1. list \in Seq(A) /\ list # <<>>
      BY ONLY <1>5
    <3>2. t \in Seq(A) /\ Len(t) = Len(list) - 1
      BY ONLY <2>2, <3>1
    <3>3. l - 1 \in Nat \ {0} /\ Len(t) = l - 1
      BY ONLY <3>2, <1>8, <1>9, <1>15, l \in Nat
    <3>4. t # <<>>
      BY ONLY <3>3
    <3>5. \A i \in 1 .. Len(list) - 1 : t[i] = list[i + 1]
      BY ONLY <2>2, <3>1
    <3>6. \A i \in 1 .. l - 1 : i + 1 \in 1 .. l /\ i + 1 # 1
      BY ONLY l \in Nat
    <3> QED BY ONLY <3>2, <3>3, <3>4, <3>5, <3>6, <1>8
  <2>4. \A i, j \in 1 .. l - 1 : i # j => t[i] # t[j]
    <3> TAKE i, j \in 1 .. l - 1
    <3> HAVE i # j
    <3>1. i + 1 # j + 1
      OBVIOUS
    <3> QED BY ONLY <3>1, <2>3, <1>5, <1>8, i \in 1 .. l - 1, j \in 1 .. l - 1
  <2>5. ASSUME NEW p \in ops', p.request = n + 1, NEW i \in 1 .. l - 1
        PROVE  p.address # t[i]
    <3>1. t[i] = list[i + 1] /\ i + 1 \in 1 .. l /\ i + 1 # 1
      BY <2>3
    <3>2. CASE p \in ops
      BY ONLY <3>1, <3>2, <2>5, <1>5, <1>8
    <3>3. CASE p = o
      <4>1. 1 \in 1 .. l
        BY <1>9
      <4> QED BY ONLY <3>1, <3>3, <4>1, <1>5, <1>6, <1>8, <1>9
    <3> QED BY <3>2, <3>3, <1>6
  <2>6. Addresses(job.block, job.page)' = A
    BY ONLY <2>1, <1>4, <1>7
  <2>7. /\ job'.list \in Seq(A) /\ job'.list # <<>>
        /\ \A i, j \in 1 .. Len(job'.list) : i # j => job'.list[i] # job'.list[j]
        /\ \A p \in ops' : p.request = Len(answered') + 1 =>
             \A i \in 1 .. Len(job'.list) : p.address # job'.list[i]
    BY ONLY <2>1, <2>2, <2>3, <2>4, <2>5, <1>2
  <2> QED BY ONLY <2>6, <2>7, <1>11, <1>13 DEF AddressInv
<1> QED BY <1>14, <1>15

LEMMA AssignInv ==
  ASSUME IInv, Assign
  PROVE  IInv'
<1>1. PICK o, c, d : AssignStep(o, c, d)
  BY AssignIsStep
<1>2. /\ ShapeInv'
      /\ (\A x \in Channels : ChannelInv(x))'
      /\ (\A x \in Dies : DieInv(x))'
  BY <1>1, AssignShape, AssignChannels, AssignDies
<1>3. TimeInv' /\ AnswerInv' /\ JobInv' /\ AddressInv'
  BY <1>1, AssignTimes, AssignAnswers, AssignJob, AssignAddresses
<1> QED BY <1>2, <1>3 DEF IInv

(***************************************************************************)
(* Every step keeps the invariant.                                         *)
(***************************************************************************)
LEMMA NextInv ==
  ASSUME IInv, [Next]_vars
  PROVE  IInv'
<1>1. CASE \E r \in Requests, block \in 0 .. SuperBlocks - 1, ioFlag \in Flags,
              tick \in Arrivals : Request(r, block, ioFlag, tick)
  BY <1>1, RequestInv
<1>2. CASE FindDMA0
  BY <1>2, FindDMA0Inv
<1>3. CASE SearchAgain
  BY <1>3, SearchAgainInv
<1>4. CASE Assign
  BY <1>4, AssignInv
<1>5. CASE \E tick \in FlushTicks : Flush(tick)
  BY <1>5, FlushInv
<1>6. CASE UNCHANGED vars
  <2>1. /\ UNCHANGED <<layout, chSlots, chStart, dieSlots, dieStart, job, ops,
                       answered, now, asserted>>
    BY <1>6 DEF vars
  <2>2. /\ ShapeInv'
        /\ (\A c \in Channels : ChannelInv(c))'
        /\ (\A d \in Dies : DieInv(d))'
        /\ TimeInv'
    BY <2>1, SearchKeeps
  <2>3. PagesInSuperPage' = PagesInSuperPage /\ SuperBlocks' = SuperBlocks
        /\ \A b, p : Addresses(b, p)' = Addresses(b, p)
    BY <2>1, AddressesKept
  <2>4. AnswerInv'
    <3>1. \A r : Ends(r)' = Ends(r)
      BY <2>1 DEF Ends
    <3> QED BY <2>1, <3>1 DEF IInv, AnswerInv
  <2>5. JobInv'
    <3>1. Channel' = Channel /\ Lat' = Lat /\ Die' = Die
      BY <2>1 DEF Channel, Lat, Die, CPDPBPtoDieIdx
    <3>2. JobInv /\ job' = job /\ chSlots' = chSlots /\ chStart' = chStart
          /\ dieSlots' = dieSlots /\ dieStart' = dieStart
      BY <2>1 DEF IInv
    <3> QED BY ONLY <2>3, <3>1, <3>2 DEF JobInv, FitsAt
  <2>6. AddressInv'
    <3>1. AddressInv /\ job' = job /\ answered' = answered /\ ops' = ops
      BY <2>1 DEF IInv
    <3> QED BY ONLY <2>3, <3>1 DEF AddressInv
  <2> QED BY <2>2, <2>4, <2>5, <2>6 DEF IInv
<1> QED BY <1>1, <1>2, <1>3, <1>4, <1>5, <1>6 DEF Next

-----------------------------------------------------------------------------
(* What the invariant says.                                                *)

(***************************************************************************)
(* Channels, dies and answers are as the scheduler promises.               *)
(***************************************************************************)
LEMMA ExclusiveFromInv == IInv => ResourcesExclusive
<1> SUFFICES ASSUME IInv PROVE ResourcesExclusive
  OBVIOUS
<1>1. \A slots, start, classes : Resource(slots, start, classes)
                                   => SlotsApart(slots, start)
  BY DEF Resource, SlotsApart
<1>2. ASSUME NEW c \in Channels
      PROVE  /\ SlotsApart(chSlots[c], chStart[c])
             /\ \A o \in OfChannel(c) : \A b \in Busy(o) :
                  /\ b[2] < chStart[c]
                  /\ \A s \in chSlots[c] : Disjoint(s.from, s.to, b[1], b[2])
                  /\ \A p \in OfChannel(c) \ {o} : \A x \in Busy(p) :
                       Disjoint(b[1], b[2], x[1], x[2])
  <2>1. ChannelInv(c)
    BY DEF IInv
  <2> QED BY ONLY <1>1, <2>1 DEF ChannelInv, Taken
<1>3. ASSUME NEW d \in Dies
      PROVE  /\ SlotsApart(dieSlots[d], dieStart[d])
             /\ \A o \in OfDie(d) :
                  /\ o.memend < dieStart[d]
                  /\ \A s \in dieSlots[d] : Disjoint(s.from, s.to, o.dma0, o.memend)
                  /\ \A p \in OfDie(d) \ {o} :
                       Disjoint(o.dma0, o.dma1end, p.dma0, p.dma1end)
  <2>1. DieInv(d)
    BY DEF IInv
  <2>2. \A o \in OfDie(d) : o.memend = o.dma1end
    BY DEF IInv, TimeInv, OfDie
  <2> QED BY ONLY <1>1, <2>1, <2>2 DEF DieInv, Taken
<1>4. RequestTimes
  <2>1. ~asserted /\ \A o \in ops : /\ o.dma0 >= o.arrived
                                    /\ o.dma1 > o.dma0end + o.mem
                                    /\ o.memend = o.dma1end
                                    /\ o.dma1end \in Int
    BY DEF IInv, TimeInv, OpTypes
  <2>2. ASSUME NEW r \in DOMAIN answered
        PROVE  answered[r] = Max({o.dma1end : o \in {p \in ops : p.request = r}})
    <3>1. r \in 1 .. Len(answered)
      BY DEF IInv, AnswerInv
    <3>2. answered[r] \in Ends(r) /\ \A e \in Ends(r) : e <= answered[r]
      BY <3>1 DEF IInv, AnswerInv
    <3>3. Ends(r) \subseteq Int
      BY <2>1 DEF Ends
    <3>4. Max(Ends(r)) = answered[r]
      BY ONLY <3>2, <3>3, MaxIs
    <3> QED BY ONLY <3>4 DEF Ends
  <2> QED BY ONLY <2>1, <2>2 DEF RequestTimes
<1> QED BY ONLY <1>2, <1>3, <1>4 DEF ResourcesExclusive, Busy

(***************************************************************************)
(* Addresses are those of one page of one super page.                      *)
(***************************************************************************)
LEMMA NoAliasingFromInv == IInv => NoAliasing
<1> SUFFICES ASSUME IInv PROVE NoAliasing
  OBVIOUS
<1>1. layout \in Layouts
  BY DEF IInv, ShapeInv
<1>2. /\ \A o \in ops : /\ o.block \in 0 .. SuperBlocks - 1
                        /\ o.address \in Addresses(o.block, o.address.page)
      /\ \A o, p \in ops : o # p /\ o.request = p.request => o.address # p.address
  BY DEF IInv, AddressInv
<1>3. ASSUME NEW o \in ops, NEW p \in ops, o # p, o.address = p.address
      PROVE  o.request # p.request /\ o.block = p.block
  <2>1. PICK i \in 0 .. PagesInSuperPage - 1 :
          o.address = Address(o.block, o.address.page, i)
    BY <1>2 DEF Addresses
  <2>2. PICK j \in 0 .. PagesInSuperPage - 1 :
          p.address = Address(p.block, p.address.page, j)
    BY <1>2 DEF Addresses
  <2>3. PICK b, c, x, y : /\ b = o.block /\ c = p.block
                          /\ x = o.address.page /\ y = p.address.page
    OBVIOUS
  <2>4. b \in 0 .. SuperBlocks - 1 /\ c \in 0 .. SuperBlocks - 1
    BY <1>2, <2>3
  <2>5. Address(b, x, i) = Address(c, y, j)
    BY <1>3, <2>1, <2>2, <2>3
  <2>6. b = c
    BY ONLY <1>1, <2>4, <2>5, AddressIsUnique
  <2> QED BY <1>2, <1>3, <2>3, <2>6
<1>4. ASSUME NEW o \in ops
      PROVE  /\ \A d \in Dimensions : o.address[d] < layout.sizes[d]
             /\ o.address.block < BlocksPerPlane
  <2>1. PICK b, p, a : b = o.block /\ p = o.address.page /\ a = o.address
    OBVIOUS
  <2>2. b \in 0 .. SuperBlocks - 1 /\ a \in Addresses(b, p)
    BY <1>2, <2>1
  <2> QED BY <1>1, <2>1, <2>2, AddressFacts
<1> QED BY ONLY <1>3, <1>4 DEF NoAliasing

-----------------------------------------------------------------------------
(* Theorems.                                                               *)

(***************************************************************************)
(* The invariant holds of the scheduler.                                   *)
(***************************************************************************)
THEOREM Invariance == Spec => []IInv
<1> QED BY InitInv, NextInv, PTL DEF Spec

(***************************************************************************)
(* PAL2::TimelineScheduling: whatever the layout, the timing, the order    *)
(* and the ticks of the requests, no two transfers are given the same time *)
(* of a channel, no two operations that of a die, the free slots hold none *)
(* of it, and no assertion of InsertFreeSlot fails.                        *)
(***************************************************************************)
THEOREM TimeIsGivenOnce == Spec => []ResourcesExclusive
<1> QED BY Invariance, ExclusiveFromInv, PTL

(***************************************************************************)
(* PALOLD::convertCPDPBP: for every number of channels, packages, dies and *)
(* planes, every order they are allotted in and every super block that     *)
(* spans some of them, no two super blocks share a page of the flash, every *)
(* page lies within the device, and a request touches none of them twice.  *)
(***************************************************************************)
THEOREM SuperPagesShareNoPage == Spec => []NoAliasing
<1> QED BY Invariance, NoAliasingFromInv, PTL
=============================================================================
