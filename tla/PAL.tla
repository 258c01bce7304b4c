-------------------------------- MODULE PAL ---------------------------------
(***************************************************************************)
(* The parallelism abstraction layer (pal/pal.cc, pal/pal_old.cc,          *)
(* pal/old/PAL2.cc): a request for a super page is spread over the dies it *)
(* lies on, and each of its operations is given its times at once: the     *)
(* channel for the command (DMA0), the die for the array operation, and    *)
(* the channel again for the data (DMA1).                                  *)
(*                                                                         *)
(* A channel and a die keep their free time as a set of slots, sorted by   *)
(* length into classes, and a tick from which everything is free.  The     *)
(* scheduler searches these sets until the three parts of an operation     *)
(* fit; the search is one action per turn of its loops.  An operation may  *)
(* be asked for at any tick from now on, so that a later one may be given  *)
(* an earlier time.  Statistics and energy are left out.                   *)
(***************************************************************************)
EXTENDS Integers, Sequences, FiniteSets, FiniteSetsExt

CONSTANTS
  Layouts,       \* the configurations to choose from: how many channels,
                 \* packages, dies and planes, how pages are allotted to them,
                 \* what a super block spans, and (bound) the requests made
  BlocksPerPlane,
  Timing,        \* Timing[op][page]: [dma0, mem, dma1]
  AntiLatency,   \* dma0 of a read: the time kept free before DMA1
  ChClasses, DieClasses,   \* the classes of free slots
  Requests,      \* the requests the FTL may make: [op, page]
  Arrivals,      \* the ticks it may make them for
  FlushTicks,    \* the ticks at which old slots are forgotten
  FLUSH_RANGE

Dimensions == {"channel", "package", "die", "plane"}

\* The hard-coded classes suit the timing: what is left for DMA1 after DMA0
\* is cut off a slot is never too short to be kept.
ASSUME PALAssumption ==
  /\ \A l \in Layouts :
       /\ l.sizes \in [Dimensions -> Nat \ {0}]
       /\ l.allocation \in [1 .. 4 -> Dimensions]
       /\ {l.allocation[i] : i \in 1 .. 4} = Dimensions
  /\ \A op \in DOMAIN Timing : \A page \in DOMAIN Timing[op] :
       /\ Timing[op][page].dma0 \in Nat \ {0}
       /\ {Timing[op][page].mem, Timing[op][page].dma1} \subseteq Nat
       /\ Timing[op][page].dma1 + AntiLatency >= Min(ChClasses)
  /\ \A r \in Requests : r.op \in DOMAIN Timing /\ r.page \in DOMAIN Timing[r.op]
  /\ \A classes \in {ChClasses, DieClasses} :
       classes \subseteq Nat \ {0} /\ classes # {}
  /\ {BlocksPerPlane, AntiLatency} \subseteq Nat \ {0}
  /\ Arrivals \cup FlushTicks \cup {FLUSH_RANGE} \subseteq Nat

VARIABLES
  layout,      \* the configuration
  chSlots, chStart,     \* per channel: free slots, and ChStartPoint
  dieSlots, dieStart,   \* per die: free slots, and DieStartPoint
  job,         \* the request that is being scheduled, with the locals; the
               \* turns of its search alternate, so that none is a stuttering
               \* step
  ops,         \* every operation scheduled so far
  answered,    \* the requests that were given their tick
  now,         \* the simulated time
  asserted     \* has an assertion failed?

vars == <<layout, chSlots, chStart, dieSlots, dieStart, job, ops, answered,
          now, asserted>>

-----------------------------------------------------------------------------
(* Free slots.  A slot [class, from, to] is free from the first tick to    *)
(* the last; a class is keyed by the first tick.                           *)

Below(classes, len) == {c \in classes : c <= len}

\* Where a search for this length begins.
FirstClass(classes, len) ==
  IF Below(classes, len) = {} THEN Min(classes) ELSE Max(Below(classes, len))

\* A slot shorter than every class is dropped.
AddFreeSlot(slots, classes, len, from) ==
  LET c == Max(Below(classes, len))
  IN  IF \/ Below(classes, len) = {}
         \/ \E s \in slots : s.class = c /\ s.from = from
      THEN slots
      ELSE slots \cup {[class |-> c, from |-> from, to |-> from + len - 1]}

\* The slots the tick lies in, one per class at most, that are long enough.
Containing(slots, classes, len, from) ==
  {s \in slots :
     /\ s.class >= FirstClass(classes, len)
     /\ s.from <= from
     /\ \A t \in slots : t.class = s.class /\ t.from <= from => t.from <= s.from
     /\ s.to >= len + from - 1}

LongEnoughLater(slots, classes, len, from) ==
  {s \in slots : /\ s.class >= FirstClass(classes, len)
                 /\ s.from > from
                 /\ s.to >= len + s.from - 1}

\* The slot the turn through the classes comes to first.
Lowest(slots) == CHOOSE s \in slots : \A t \in slots : s.class <= t.class

\* The first class with a slot around the tick is taken, or else the next
\* slot of any class.
FindFreeTime(slots, classes, len, from) ==
  LET here == Containing(slots, classes, len, from)
      later == LongEnoughLater(slots, classes, len, from)
  IN  IF here # {}
      THEN [found |-> TRUE, tick |-> Lowest(here).from, conflicts |-> FALSE]
      ELSE IF later # {}
      THEN [found |-> TRUE, tick |-> Min({s.from : s \in later}),
            conflicts |-> TRUE]
      ELSE [found |-> FALSE, tick |-> 0, conflicts |-> FALSE]

\* What every search does with the answer: the slot to use, and the tick from
\* which it is used.
Fit(slots, classes, start, len, from) ==
  LET r == FindFreeTime(slots, classes, len, from)
  IN  IF r.found
      THEN [slot |-> r.tick, at |-> IF r.conflicts THEN r.tick ELSE from]
      ELSE [slot |-> start, at |-> Max({from, start})]

\* What a slot has before the time that is taken out of it.
AddFront(slots, classes, from, tick) ==
  IF tick < from THEN AddFreeSlot(slots, classes, from - tick, tick) ELSE slots

\* The time itself becomes a slot too if it is only split off.
AddSplit(slots, classes, len, from, split) ==
  IF split THEN AddFreeSlot(slots, classes, len, from) ELSE slots

\* The time [from, from + len - 1] is taken out of the slot; what is left of
\* it before and after becomes slots of their own.
TakeOut(slots, classes, len, from, s, split) ==
  LET rest == AddSplit(AddFront(slots \ {s}, classes, from, s.from),
                       classes, len, from, split)
  IN  IF s.to > len + from - 1
      THEN AddFreeSlot(rest, classes, s.to - (from + len - 1), from + len)
      ELSE rest

\* The slots that begin at the tick.
SlotsFrom(slots, classes, len, tick) ==
  {s \in slots : s.class >= FirstClass(classes, len) /\ s.from = tick}

\* The slot to take the time out of is known by the tick it begins at, or is
\* what follows the start point.
InsertFreeSlot(slots, classes, start, len, from, tick, split) ==
  LET candidates == SlotsFrom(slots, classes, len, tick)
      s == Lowest(candidates)
  IN  IF tick = start
      THEN [slots |-> AddFront(AddSplit(slots, classes, len, from, split),
                               classes, from, tick),
            start |-> from + len,
            ok |-> from >= tick]
      ELSE IF candidates = {}
      THEN [slots |-> slots, start |-> start, ok |-> TRUE]
      ELSE [slots |-> TakeOut(slots, classes, len, from, s, split),
            start |-> start,
            ok |-> tick <= from /\ s.to - from + 1 >= len]

\* Slots that ended before the tick are erased, class by class, from the first
\* one on.
FlushAFreeSlot(slots, tick) ==
  {s \in slots : \E t \in slots :
     t.class = s.class /\ t.from <= s.from /\ t.to >= tick}

-----------------------------------------------------------------------------
(* The address of a request.                                               *)

\* With multi-plane operations the planes of a die act together and the
\* address names plane 0.
Split(d) == d # "plane" \/ ~layout.multiplane
Spread(d) == Split(d) /\ d \in layout.superblock

SpreadDims == {d \in Dimensions : Spread(d)}
FixedDims == {d \in Dimensions : Split(d) /\ ~Spread(d)}

Position(d) == CHOOSE i \in 1 .. 4 : layout.allocation[i] = d

\* How many ways there are to place a page in those of the first i dimensions
\* of the allocation that are among dims.
Weights(dims) ==
  LET f[i \in 0 .. 4] ==
        IF i = 0 THEN 1
        ELSE IF layout.allocation[i] \in dims
        THEN f[i - 1] * layout.sizes[layout.allocation[i]]
        ELSE f[i - 1]
  IN  f
Product(dims) == Weights(dims)[4]

\* A mistaken form of it: what earlier dimensions took is not divided out.
DigitUndivided(dims, n, d) == n % layout.sizes[d]

\* The digits of a number, the first dimension's the least significant.
Digit(dims, n, d) ==
  (n \div Weights(dims)[Position(d) - 1]) % layout.sizes[d]

PagesInSuperPage == Product(SpreadDims)
SuperBlocks == BlocksPerPlane * Product(FixedDims)

\* Where page i of a super page of this block is.
Coordinate(block, i, d) ==
  IF ~Split(d) THEN 0
  ELSE IF Spread(d) THEN Digit(SpreadDims, i, d)
  ELSE Digit(FixedDims, block, d)

Address(block, page, i) ==
  [channel |-> Coordinate(block, i, "channel"),
   package |-> Coordinate(block, i, "package"),
   die |-> Coordinate(block, i, "die"), plane |-> Coordinate(block, i, "plane"),
   block |-> block \div Product(FixedDims), page |-> page]

\* The pages whose flag is set, in order.
convertCPDPBP(block, page, ioFlag) ==
  LET list[n \in 0 .. PagesInSuperPage] ==
        IF n = 0 THEN <<>>
        ELSE IF n - 1 \in ioFlag
        THEN Append(list[n - 1], Address(block, page, n - 1))
        ELSE list[n - 1]
  IN  list[PagesInSuperPage]

CPDPBPtoDieIdx(a) ==
  a.die + a.package * layout.sizes["die"] + a.channel * layout.sizes["die"] * layout.sizes["package"]

-----------------------------------------------------------------------------
(* Scheduling.                                                             *)

Idle == [pc |-> "idle"]
Channels == 0 .. layout.sizes["channel"] - 1
Dies == 0 .. layout.sizes["channel"] * layout.sizes["package"] * layout.sizes["die"] - 1

Init ==
  /\ layout \in Layouts
  /\ chSlots = [c \in Channels |-> {}] /\ chStart = [c \in Channels |-> 0]
  /\ dieSlots = [d \in Dies |-> {}] /\ dieStart = [d \in Dies |-> 0]
  /\ job = Idle /\ ops = {} /\ answered = <<>>
  /\ now = 0 /\ asserted = FALSE

Channel == Head(job.list).channel
Die == CPDPBPtoDieIdx(Head(job.list))
Lat == Timing[job.op][job.page]

\* PALOLD::read, write and erase: all operations arrive at the same tick.
Request(r, block, ioFlag, tick) ==
  /\ job = Idle
  /\ Len(answered) < layout.maxRequests
  /\ tick >= now
  /\ LET list == convertCPDPBP(block, r.page, ioFlag)
     IN  job' = [pc |-> "dma0", op |-> r.op, page |-> r.page, block |-> block,
                 arrived |-> tick, list |-> list, finishedAt |-> tick,
                 from |-> tick, slot0 |-> 0, mem |-> 0, turn |-> FALSE]
  /\ UNCHANGED <<layout, chSlots, chStart, dieSlots, dieStart, ops, answered,
                 now, asserted>>

FitChannel(len, from) ==
  Fit(chSlots[Channel], ChClasses, chStart[Channel], len, from)
FitDie(len, from) ==
  Fit(dieSlots[Die], DieClasses, dieStart[Die], len, from)

\* One turn of LOOP1: a slot of the channel for DMA0, then one of the die for
\* DMA0 and the array operation; both must hold at the tick the die allows.
FindDMA0 ==
  /\ job.pc = "dma0"
  /\ LET dma0 == FitChannel(Lat.dma0, job.from)
         mem == FitDie(Lat.dma0 + Lat.mem, dma0.at)
         agreed == \/ mem.slot = dma0.slot
                   \/ FitChannel(Lat.dma0, mem.at).slot = dma0.slot
     IN  job' = [job EXCEPT
                   !.from = IF mem.slot = dma0.slot THEN dma0.at ELSE mem.at,
                   !.slot0 = dma0.slot, !.mem = mem.slot, !.turn = ~@,
                   !.pc = IF agreed THEN "dma1" ELSE "dma0"]
  /\ UNCHANGED <<layout, chSlots, chStart, dieSlots, dieStart, ops, answered,
                 now, asserted>>

DMA1Slot(job_from) ==
  FitChannel(Lat.dma1 + AntiLatency, job_from + Lat.dma0 + Lat.mem)
TotalLatency ==
  DMA1Slot(job.from).at + Lat.dma1 + AntiLatency - job.from

\* A mistaken form of it: the die is not looked at again.
DieUnverified == TRUE
DieAgrees == FitDie(TotalLatency, job.from).slot = job.mem

\* A mistaken form of it: the search begins where the request did.
SearchFromArrival ==
  /\ job.pc = "dma1"
  /\ ~DieAgrees
  /\ job' = [job EXCEPT !.pc = "dma0", !.from = job.arrived]
  /\ UNCHANGED <<layout, chSlots, chStart, dieSlots, dieStart, ops, answered,
                 now, asserted>>

\* The die has to be free until the data has been moved, or the search begins
\* again where it is.
SearchAgain ==
  /\ job.pc = "dma1"
  /\ ~DieAgrees
  /\ job' = [job EXCEPT !.pc = "dma0", !.from = FitDie(TotalLatency, job.from).slot]
  /\ UNCHANGED <<layout, chSlots, chStart, dieSlots, dieStart, ops, answered,
                 now, asserted>>

\* The channel, as [slots, start, ok], once DMA0 has its time.
Take(r, len, from, tick, split) ==
  InsertFreeSlot(r.slots, ChClasses, r.start, len, from, tick, split)
TakeDMA0 ==
  Take([slots |-> chSlots[Channel], start |-> chStart[Channel]],
       Lat.dma0, job.from, job.slot0, FALSE)

\* DMA0 may have cut the slot of DMA1, which is looked for again.
DMA1After(r) ==
  Fit(r.slots, ChClasses, r.start, Lat.dma1 + AntiLatency, DMA1Slot(job.from).at)
DMA1Tick(r) == Max({DMA1After(r).at, DMA1After(r).slot}) + AntiLatency
TakeDMA1(r) == Take(r, Lat.dma1, DMA1Tick(r), DMA1After(r).slot, FALSE)

\* A slot of twice a command's length is split off after DMA0 if there is room.
DMA0Tick == Max({job.from, job.slot0})
SplitGap(r) ==
  LET after == DMA0Tick + Lat.dma0
      gap == Fit(r.slots, ChClasses, r.start, AntiLatency * 2, after)
  IN  IF gap.at = after
      THEN Take(r, AntiLatency * 2, after, gap.slot, TRUE)
      ELSE [slots |-> r.slots, start |-> r.start, ok |-> TRUE]

TakeDie ==
  InsertFreeSlot(dieSlots[Die], DieClasses, dieStart[Die],
                 TotalLatency, job.from, job.mem, FALSE)

\* The times of the operation; what is said of the die is its reserved time.
Operation(dma1) ==
  [request |-> Len(answered) + 1, block |-> job.block, op |-> job.op,
   arrived |-> job.arrived, address |-> Head(job.list),
   dma0 |-> DMA0Tick, dma0end |-> DMA0Tick + Lat.dma0 - 1,
   mem |-> Lat.mem,
   dma1 |-> dma1, dma1end |-> dma1 + Lat.dma1 - 1,
   memend |-> Max({job.from, job.mem}) + TotalLatency - 1]

\* The operation takes its times; the next address of the request, or the next
\* request, follows.
Assign ==
  /\ job.pc = "dma1"
  /\ DieAgrees
  /\ LET c1 == TakeDMA0
         c2 == TakeDMA1(c1)
         c3 == SplitGap(c2)
         d == TakeDie
         o == Operation(DMA1Tick(c1))
         last == Len(job.list) = 1
         tick == Max({job.finishedAt, o.dma1end})
     IN  /\ chSlots' = [chSlots EXCEPT ![Channel] = c3.slots]
         /\ chStart' = [chStart EXCEPT ![Channel] = c3.start]
         /\ dieSlots' = [dieSlots EXCEPT ![Die] = d.slots]
         /\ dieStart' = [dieStart EXCEPT ![Die] = d.start]
         /\ asserted' = (asserted \/ ~(c1.ok /\ c2.ok /\ c3.ok /\ d.ok))
         /\ ops' = ops \cup {o}
         /\ job' = IF last THEN Idle
                   ELSE [job EXCEPT !.list = Tail(@), !.from = job.arrived,
                                    !.finishedAt = tick, !.pc = "dma0"]
         /\ answered' = IF last THEN Append(answered, tick) ELSE answered
  /\ UNCHANGED <<layout, now>>

\* The event that forgets old slots; time has passed.
Flush(tick) ==
  /\ job = Idle
  /\ tick > now
  /\ now' = tick
  /\ chSlots' = [c \in Channels |-> FlushAFreeSlot(chSlots[c], tick - FLUSH_RANGE)]
  /\ dieSlots' = [d \in Dies |-> FlushAFreeSlot(dieSlots[d], tick - FLUSH_RANGE)]
  /\ UNCHANGED <<layout, chStart, dieStart, job, ops, answered, asserted>>

Flags == (SUBSET (0 .. PagesInSuperPage - 1)) \ {{}}

Next ==
  \/ \E r \in Requests, block \in 0 .. SuperBlocks - 1, ioFlag \in Flags,
        tick \in Arrivals :
       Request(r, block, ioFlag, tick)
  \/ FindDMA0
  \/ SearchAgain
  \/ Assign
  \/ \E tick \in FlushTicks : Flush(tick)

Spec == Init /\ [][Next]_vars

\* Weak fairness of the three steps of the search: one of them is possible as
\* long as a request is being scheduled, and each of them changes the job.
Fairness == []<>(job = Idle) \/ []<><<job' # job>>_vars
FairSpec == Spec /\ Fairness

-----------------------------------------------------------------------------
(* Properties.                                                             *)

Disjoint(a, b, c, d) == b < c \/ d < a
OfChannel(c) == {o \in ops : o.address.channel = c}
OfDie(d) == {o \in ops : CPDPBPtoDieIdx(o.address) = d}

\* Free slots share no tick with each other or with the start point.
SlotsApart(slots, start) ==
  \A s \in slots :
    /\ s.from <= s.to /\ s.to < start
    /\ \A t \in slots \ {s} : Disjoint(s.from, s.to, t.from, t.to)

\* An operation starts no earlier than it was asked for, has its command, its
\* array time and its data one after the other within the time its die is
\* reserved; a request is answered with the end of its last operation; and no
\* assertion of InsertFreeSlot fails.
RequestTimes ==
  /\ ~asserted
  /\ \A o \in ops :
       /\ o.dma0 >= o.arrived
       /\ o.dma1 > o.dma0end + o.mem
       /\ o.memend = o.dma1end
  /\ \A r \in DOMAIN answered :
       answered[r] = Max({o.dma1end : o \in {p \in ops : p.request = r}})

\* The scheduler hands out time that nobody else has: no two transfers use a
\* channel at the same time, a die belongs to one operation from its command
\* to the end of its data, and what the slots call free overlaps neither.  The
\* times are those the operations need.
ResourcesExclusive ==
  /\ \A c \in Channels :
       LET Busy(o) == {<<o.dma0, o.dma0end>>, <<o.dma1, o.dma1end>>}
       IN  /\ SlotsApart(chSlots[c], chStart[c])
           /\ \A o \in OfChannel(c) : \A b \in Busy(o) :
                /\ b[2] < chStart[c]
                /\ \A s \in chSlots[c] : Disjoint(s.from, s.to, b[1], b[2])
                /\ \A p \in OfChannel(c) \ {o} : \A x \in Busy(p) :
                     Disjoint(b[1], b[2], x[1], x[2])
  /\ \A d \in Dies :
       /\ SlotsApart(dieSlots[d], dieStart[d])
       /\ \A o \in OfDie(d) :
            /\ o.memend < dieStart[d]
            /\ \A s \in dieSlots[d] : Disjoint(s.from, s.to, o.dma0, o.memend)
            /\ \A p \in OfDie(d) \ {o} :
                 Disjoint(o.dma0, o.dma1end, p.dma0, p.dma1end)
  /\ RequestTimes

\* Two super pages never share a page of the flash, every page of a device is
\* within it, and a request touches a page once.
NoAliasing ==
  /\ \A o, p \in ops :
       o # p /\ o.address = p.address
         => o.request # p.request /\ o.block = p.block
  /\ \A o \in ops : /\ \A d \in Dimensions : o.address[d] < layout.sizes[d]
                    /\ o.address.block < BlocksPerPlane

\* The loops of the scheduler end: every request is answered.
Scheduled == job # Idle ~> job = Idle
====
