# A verification of SimpleSSD-Standalone

SimpleSSD-Standalone is a simulator of solid-state drives: the firmware of a
drive (host interface, cache, flash translation layer) written as event-driven
C++, a model of the hardware that yields latencies, and a host that generates
or replays I/O. This directory holds TLA+ models of the parts that carry its
control, the TLC runs that check them on small instances, and TLAPS proofs for
instances of every size. Paths below are relative to
`src/SimpleSSD-Standalone/`; `simplessd/` is the library, the rest the host.

## 1. Inventory

| Part | Source | State | Operations | Modelled in |
|---|---|---|---|---|
| Event engine | `sim/engine.cc` | list of scheduled events, current tick | schedule, deschedule, doNextEvent, stop | `EventQueue`, `HostStack` |
| CPU cores | `simplessd/cpu/cpu.cc` | a job queue and a busy flag per core | execute, handleJob, jobDone | `HIL` |
| Host interface core | `simplessd/hil/hil.cc` | completion queue, lastScheduled | read, write, flush, trim, format, completion | `HIL` |
| Trace replayer, request generator | `igl/` | position in the trace, outstanding I/O, flags | begin, submitIO, iocallback, rescheduleSubmit | `HostStack` |
| Block I/O layer, driver without interface, main | `bil/`, `sil/none/`, `sim/main.cc` | list of outstanding I/O | submitIO, completion, statistics, end | `HostStack` |
| Internal cache | `simplessd/icl/` | lines with tag, valid, dirty; prefetch state | read, write, flush, trim, format, evict | `GenericCache` |
| Page-mapping FTL | `simplessd/ftl/` | free list, blocks in use, open blocks, mapping table, CMT | read, write, trim, format, initialize, GC | `PageMapping`, `FlashStore` and the proof modules |
| PAL | `simplessd/pal/` | free time slots per channel and die | read, write, erase of super pages, flush of slots | `PAL` |
| NVMe controller | `simplessd/hil/nvme/controller.cc`, `queue.cc`, `subsystem.cc` | queues, lSQFIFO, lCQFIFO, aggregation map, registers | main loop, admin commands, completion | `NVMeController` |
| NVMe driver | `sil/nvme/` | pending commands, queue heads, phase | submitCommand, updateInterrupt, PRP lists | `NVMeController`, `DMALists` |
| NVMe namespaces | `simplessd/hil/nvme/namespace.cc`, `subsystem.cc` | list of namespaces and the space they take, I/O in flight, disk image | create, delete, attach, format, read, write, compare, trim, flush, log page | `Namespaces` |
| NVMe data transfer, DMA FIFO | `simplessd/hil/nvme/dma.cc`, `simplessd/util/fifo.cc` | lists of pages, counters; two queues with their room and events | read, write; dmaRead, dmaWrite | `DMALists`, `FIFO`, `DMAChannel` |
| Open-channel SSD | `simplessd/hil/nvme/ocssd.cc` | chunk descriptors, completion queue | physical and vector commands, reads and writes by range | `OpenChannel` |
| SATA | `simplessd/hil/sata/` | port registers, request and response queue, command contexts | register writes, FIS exchange, ATA commands | `SATA` |
| UFS, DRAM, CACHED_GC and predictor, utilities, vendored code | | | | - (section 7) |

How they interact. A generator calls the block I/O layer, which calls a driver.
The NONE driver calls `HIL::read` and so on directly; the NVMe driver writes
queues in host memory, rings doorbells and is called back by an interrupt. The
controller reads commands and moves data through a FIFO; the subsystem passes
commands to namespaces (or to the open-channel SSD), these to the HIL. The
HIL hands a request to a CPU core, whose job event calls the ICL; ICL, FTL and
PAL are plain function calls that return the tick at which the work would be
finished. That tick goes into the completion queue of the HIL, whose event
calls the host back. So there are no threads. What interleaves are events:
DMA transfers, firmware calls, doorbells, timers, and callbacks that call back
in. Nothing is persisted and messages are not lost.

What is hard here, and the properties that make each part correct:

- Engine, HIL, CPU: one sorted list is edited while it is walked, and a wake-up
  is skipped when its tick equals the last one. *The list is sorted, first
  scheduled first; a waiting request always has its event; it completes, on time.*
- Generators: the submit event, completions and the end of the workload come
  in any order at the same tick. *The depth is kept, the simulation ends, and
  only when the workload is complete.*
- Cache: a read claims lines first and gives them their tags later; a write
  evicts by column over all sets. *A read returns the newest data, no page is
  in two lines, the line freed is in the set that needs it.*
- FTL: a write triggers GC, which copies, invalidates and erases while the table
  and the free list change; side lists (`erased_block_id`, CMT) go stale.
  *Table and flash agree in every step, no block is lost or used twice, no valid
  page is erased, writes are sequential, every call ends.*
- PAL: requests are fitted into free time in any order of ticks, on two
  resources at once. *Nobody's time is given away twice, the search ends, super
  pages share no page.*
- NVMe controller: queues are created and deleted, commands aborted and the
  controller stopped while DMA, firmware calls and interrupts are under way. *No
  command is lost, doubled or answered twice, no answer stays unannounced, every
  command is answered, a shutdown stops the main loop.*
- Namespaces: space is divided, and objects go away while commands on them are
  under way, whose flash and data parts end in either order. *The namespaces
  divide the device, I/O stays inside, reads return the newest data, no namespace is
  used after it is gone, every command is answered once.*
- DMA: insertion and transfer overlap, lists are fetched through the queue they
  describe. *The FIFO is an ordered channel; exactly the bytes asked for are moved; transfers end.*
- Open-channel SSD: descriptors change before the flash does, one event serves
  all requests. *Descriptors tell the truth, reads return the newest data, every command is answered.*
- SATA: answers go out one by one as the host clears interrupts, and registers
  change before answers arrive. *What looks done is done; every command is completed.*

The list of hazards in `PROJECT.json` gives the line where each of these bites.

## 2. Plan

Done, in this order: (1) the FTL with its abstract store and its proofs, (2) the
cache, (3) the engine, HIL and CPU, (4) NVMe controller and driver, (5) the host
side composed with engine and HIL, (6) namespaces, (7) data transfer over the
FIFO and its abstract channel, (8) PAL, (9) the open-channel SSD, (10) SATA.

Left: UFS (the transfer request list and its doorbell, much like SATA's slots;
no driver of the repository uses it) and the CACHED_GC policy with its
predictor. Theorems to prove next: the
first conjuncts of `SpacePartition`, `NoCommandLost` of the NVMe controller. An abstract specification
worth stating: a command queue (each command is answered once) for the NVMe
controller. `FlashStore` is also what `GenericCache` assumes of the FTL.

## 3. The modules

### PageMapping, FlashStore (FTL)

One I/O unit per page (the shipped geometry), so each mapping list has one
element. State: the free list and its separate counter, the set of blocks in
use, per block the content of its pages (erased, dead or the LPN they are valid
for), the next page to write, the erase count and the cached bits; the open
block per channel; the set `erased_block_id`; the mapping table; the CMT with
its LRU order. Access times are abstracted to an order, with a set of entries
whose time is never initialised and may therefore be anywhere in it.

Host calls (`Read`, `Write`, `Trim`, `Format`, `undoCached`) start only between
calls. A write goes on in steps of the same call: choose the open block
(`UseOpenBlock`, `ReplaceErasedBlock`, `ReplaceFullBlock`), program
(`WritePage`), and, below the GC threshold, select victims, scan, copy and erase
(`SelectVictimBlock`, `ScanVictim`, `CopyPage`, `EraseVictim`). Splitting the call
makes the invariants hold at every step of a collection and not only at its end.
The filling done by `initialize()` is the start of every behaviour; the
subtraction that can wrap is kept modulo `WordSize`. A `panic()` sets the
variable `panic` and ends the behaviour. Which of several equally good victims
is chosen depends on a sort that is not stable: any.

`FlashStore` is what the layers above rely on: a set of pages that can be read;
writing adds one, trimming removes one, formatting removes a range, and nothing
else changes it. `ImplementsStore` is the refinement, with
`LivePages` computed from the flash (valid pages in blocks in use), not from the table.

### GenericCache (ICL)

Lines have tag, valid and dirty bits as in the code, and a ghost that says
whether they stand for the newest data the host wrote; the same for pages of
the flash. A read runs its two loops step by step: lines are claimed (valid,
clean, old tag), then loaded. A write, a flush, a trim and a format are one step
each, as nothing can happen within them. Which line a policy picks, and whether
`checkSequential` fires, are choices. The settings (caches, prefetch, eviction
granularity, sets, pages) are a record chosen in `Init` that never changes.

### EventQueue, HIL, HostStack (engine, HIL, CPU and the host side)

`EventQueue` is the sorted list of `sim/engine.cc`: where `insertEvent` puts an
entry and what it removes. `HIL` uses the list for a request's way over CPU
cores, `updateCompletion` and `completion()`, in which callbacks may submit
requests. The number of cores is chosen in `Init`; with none, requests are
executed within callbacks. Cache, FTL and PAL are a latency of at least one tick.

`HostStack` extends `HIL` to the whole simulator without a host interface: the
trace replayer or the request generator with their submit event, the block
layer's list, the driver's conversion to pages, main's statistics event and its
loop. Every state change of a callback is part of the step in which the code
calls it: `CompleteIO` runs through driver, block layer and generator.
A workload of kind "driver" replaces the generator by any user of HIL and
engine, one that submits at any tick and in callbacks and schedules, moves and
deschedules events of its own. A trace is the sequence of its lines (matched by
the regular expression or not); addresses are computed modulo `Word`.

### NVMeController

The host (driver) writes commands and doorbells; the main loop
(`work`, `collectSQueue` with both arbitrations, `queueFunction`,
`handleRequest`) collects them by DMA; the subsystem executes admin commands or
answers I/O later; `completion()` posts answers, decides on coalescing and
starts DMA writes, after which interrupts are sent and the host takes answers
by phase. Loops of one call are several steps during which `busy` blocks all
others. DMA reads finish in order, DMA writes in the order of their batches. A
deleted queue that a DMA still refers to is marked, and its use is a panic. How the
host uses the controller (queues, operations, depth, whether it deletes queues
with commands in them) is a record chosen in `Init`. With `std::list` of
libstdc++, moving the iterator on from the end leads to the beginning: the loop
of `deleteSQueue` is modelled that way.

### Namespaces

`lNamespaces` is the sorted list of objects; a command is a record that says where
it is (waiting for a core, for its list, for the HIL and the data), on which
object, and which of its parts are left. An object that is deleted is not in the
list any more; a command that goes on with it sets `fault`. Hosts are records:
which operations they use, the sizes and formats they ask for, whether they wait for
a creation before the next (`serial`; such a host also deletes only what it has no
unanswered command for), how many commands they send. The disk image of a namespace is the content of
its blocks, so that `ReadsNewest` is about data.

### FIFO, DMAChannel, DMALists

`FIFO` is `util/fifo.cc` as operators on a queue record: splitting into transfer
units, the room in the buffer, insertion and transfer with their pending flags
and their events, for both directions. Latencies are left out, so events fire in
any order the flags allow. `DMALists` puts the PRP lists and SGLs of `dma.cc` on
top: fetching a list is a request to the same FIFO, and so is every page of
data; a counter tells when the command goes on. `DMAChannel` is what the
interface promises (every request answered once, in order);
`ImplementsChannel` is the refinement: `Pending` gives the channel's queues, the
requests whose last piece is still in the FIFO. Its safety part is proved.

### PAL

Channels and dies have free slots, grouped in classes by length, and a tick from
which all is free. `Request` breaks a super page into operations (the
`convertCPDPBP` of `pal_old.cc`); `FindDMA0`, `SearchAgain` and `Assign` are the turns of
the loops of `TimelineScheduling`; `Flush` forgets old slots. `Assign` is one step,
as in the code, made of one definition per part of step 5) there: `TakeDMA0`,
`TakeDMA1`, `SplitGap` and `TakeDie` are the calls of `InsertFreeSlot`, in that
order on what the one before has left, `Operation` the times. An address is a
mixed-radix number (`Weights`, `Digit`): the digits of the dimensions a super block
spans come from the index of the page, those of the others from the block. The times keep the
order of the default configuration, which `PALAssumption` states: for
`dmaSpeed` values that break it (77 to 99) an assertion of the code fails.

### OpenChannel

Both versions in one module, as version 2.0 inherits from 1.2. A command fetches
its list, is checked and changes descriptors at once, waits for a core, is given
a tick by the flash (1 to `MaxNand`, at once if it has no pages), and is carried on by
the one completion event. The data of a block is the number of the command that wrote
it. The host sends one command per chunk at a time; its commands may be refused, in
part or whole. A write and a reset treat the entries behind a refused one
differently, as in the code: a write leaves their descriptors alone (`Update`), a
reset sets closed chunks FREE nevertheless (`Freed`) and does not erase them
(`EraseMask`). `unerased` is a history variable that holds these chunks until a
reset erases them; only `DescriptorsTrue` and its proof read it. `MaskBits` is the width of the mask of refused entries, 64 in the code: entries
behind its last bit are not removed.

### SATA

Port registers as sets of slots and causes, the adapter's event, its two queues
and the FIS writes under way; for every slot the steps the device works on. The
host is one that follows AHCI: the handler clears IS, then PxIS, then looks at
PxCI and PxSACT. It does not use slot 0 (section 6). `handleResponse` writes
the frame at the front on every `submitFIS`, as `submitFISPending` is never set.

## 4. Runs

| Run | Instance | Checks |
|---|---|---|
| `ftl_mapping` | 5 blocks of 2 pages, 2 LPNs, 2 channels, victim lists of 2, blocks retire after 3 erases, no CMT; 855k states | type, partition, sorted free list, sequential writes, table against flash, panics only when out of space, no valid page erased, refinement of the store, calls end |
| `ftl_cmt` | 3 blocks, CMT of one entry, cache-aware policy, formats; 4.2M states | no corruption of the pool whatever the CMT does |
| `icl` | 2 ways, 3 columns, five settings: shipped (2 sets, 5 pages), superpage eviction, and on one set of 3 pages prefetch, flushes, and read cache only; 1.7M states | newest data, no duplicates, never corrupted, durable writes without write cache |
| `host` | 16 traces of up to 8 lines (three timing modes, I/O limit, page limit, statistics, unmatched and unknown lines, a line earlier than the first), 5 generators (by size, by time, random, invalid), 2 arbitrary drivers; 0, 1 or 2 cores; 97k states | wake-ups armed in a sorted list, order at equal ticks, completion on time, depth kept, ends only when complete, ends |
| `nvme` | queues of 3 slots, hosts `IO`, `Admin`, `Delete`, `Coalesce`; 640k states | no panic, no command lost or doubled, interrupts owed |
| `nvme_progress` | 3 commands, hosts `Progress`, `Weighted`, `Stopping` | all answered, shutdown stops |
| `namespaces` | 4 pages of 2 bytes, two LBA formats, up to 3 namespaces and 5 commands; hosts `Managing`, `Uneven`, `Replacing`, `Using`, `Trimming`, `Sharing`, `Reckless`; 1.3M states | space divided for sizes of every kind, counter exact and I/O inside for whole sizes, newest data, no namespace used after it is gone by hosts that delete only what is unused (but for its log and the context of a trim), answered once |
| `dma` | two of ten transfers over a FIFO of two units, with and without cores | exact bytes, refinement of the channel, transfers end |
| `pal` | three layouts (two dies on a channel; super pages over dies and planes; over planes), up to 3 requests, 2 ticks of arrival | exclusive resources with the right times, no aliasing, the search ends |
| `ocssd` | 2 chunks of 2 pages of 2 blocks, 3 commands, both versions, commands refused in part or whole; 855k states | descriptors true (but for chunks set FREE unerased), newest data, all answered if each brings the flash a page |
| `sata` | 2 slots, 2 commands of nine kinds, 1 reset; 260k states | what looks done is done, all completed |
| `bug_cmt_table` | | a divergence, section 6 |

Why the bounds are enough for the cases that matter: two channels and five
blocks make GC run while another channel's block is open, make it take two
victims, and let blocks retire until the device is out of space; one spare page in
a victim suffices for a copy. The cache has more pages per set than ways, so
that every kind of eviction happens, and columns and sets that do not line up.
Completion queues of three slots wrap with five commands. A queue depth of two
and six I/O lines make the trace replayer meet the full queue, also at its last
line. Three requests of an arbitrary driver give two in the completion queue
while a callback submits the third. Four pages hold two namespaces with a gap
before, between or behind them, so that space is fragmented and found again. With
pages of two bytes a size of three blocks leaves a part of a page over in either
format. Lists that write one chunk and reset the end of another with it make a reset
be refused in part. Two
transfers of up to 16 bytes fill a FIFO of 4 several times over. Three requests
for two dies leave gaps in the time line that later ones fit into. Two slots
have two queued commands interleave; two commands in turn use one slot again.
Reads and trims of the FTL are restricted to one LPN since LPNs are otherwise
alike. `CHECK_DEADLOCK FALSE` is set where the system may stop: after a panic,
at the end of the simulation, or when the host has nothing left to send. Each
bound is a constant or a field of a setting named in the module.

Fairness. `PageMapping`: weak fairness of the steps within a call, as a call
runs to its end; `PAL` likewise. `HostStack`: weak fairness of the simulation,
as main runs `doNextEvent` while there are events; a driver need not submit
anything. `DMALists`, `Namespaces`, `OpenChannel`: weak fairness of everything but new
commands, written out as "infinitely often idle, or infinitely often a step
that is no submission" (`Busy` says when such a step is enabled): the engine
fires its events, and commands are finite. `SATA`: weak fairness of FIS writes,
of the adapter's event, of the device and of the host's interrupt handler, each
of its own, as the handler can be entered for ever (section 6).
`NVMeController`: strong fairness of the main loop, of the handlers of
completion, of DMA, of the execution of commands and of interrupts. These are
events of one queue, each fires in the end, but the model's loops are steps
during which everything else is disabled, so weak fairness would allow an event
to starve. The aggregation timer and the host have no fairness.

## 5. Proofs

Each theorem holds for every value of the constants that satisfies the named
assumptions of its module, which say that the constants have their types and
sizes are positive (`GeometryAssumption`, `OptionAssumption`, `CacheAssumption`,
`HILAssumption`, `StackAssumption`, `WorkloadAssumption`, `SATAAssumption`,
`OpenChannelAssumption`, `HostAssumption`, `FIFOAssumption`, `DMAListsAssumption`,
`PALAssumption`); where it needs more, this is a hypothesis of the theorem, given below. Every proof of an invariant has three parts, the initial
states, one lemma per action, and the conclusion; TLC has checked each inductive invariant
on the run of its component.

**FTL.** There are more physical blocks than logical ones and open ones.

- `TypeCorrect` (`PageMappingProofs`): `Spec => []TypeOK`. The inductive
  invariant `TypeInv` adds `ControlOK`: what pc says about the request, the
  victims and the destination.
- `PoolIsPartition`, `FreeListIsSorted`, `WritesAreSequential` (`PageMappingProofs`), with
  CMT and formats included. None of the three is inductive alone: the insertion
  of an erased block keeps the list sorted only if the block is not in the list
  (partition), and the partition is kept only if the destination is in use
  (`StepOK`). `PoolInv` is their conjunction with `TypeInv` and `StepOK`.
- `PoolIsNeverCorrupted` (`PageMappingProofs`), with the CMT: the panics of
  `getFreeBlock` and `eraseInternal` are unreachable. `SpareInv` adds what
  `getLastFreeBlock` silently relies on: an open block is in use or known to
  be erased, a block open for two channels at once was written at most once, and
  the victims still to be erased are distinct, in use and full. Hypotheses:
  `SingleVictims` (with more than one victim the cache-aware policy returns a
  block twice, and the second erase panics) and `OpenBlocksSpared`: one channel, or
  no formats and several pages per block, so that no open block is ever a victim. They are
  sufficient conditions; TLC found no violation outside `OpenBlocksSpared` on the
  instances tried.
- `MappingIsConsistent`, `CollectionLosesNothing`, `FTLImplementsStore`
  (`PageMappingProofs`), under `NoCmtNoFormat`: without the CMT and without formats,
  as with either the code does violate them (section 6). `MapInv` adds
  `CollectionOK`: pages of the victim before the cursor are no longer valid, and
  victims are full, distinct and not destinations. The refinement is proved
  step by step from `LivePages = {l : table[l] has an entry}`, itself a
  consequence of `MapInv`.
- `AbortsOnlyOutOfSpace` (`PageMappingProofs`), under the hypotheses of both and
  `FillFits` (the pages to fill fit in front of the GC threshold; otherwise the
  subtraction of `initialize()` wraps, section 6): of all panics only "no free
  block left" can happen. `AbortInv` adds to `MapInv` and `SpareInv` the account
  that `initialize()` keeps implicitly, by cardinalities: one free block less
  per block it has filled and left, one page written per write; so it never
  comes to the threshold where its write would start a collection.

**Cache** (`CacheProofs`): `PagesAreCachedOnce`, `ReadsReturnNewest`,
`CacheIsNeverCorrupted`, `WritesAreDurable`, for any number of sets, ways and pages,
every eviction policy and setting. `CacheInv` says for every step of the two
loops of a read which lines are settled and which are claimed, that claimed
lines are clean and each page is in one settled line of its set, that lines and
flash hold the newest data between them, and that without write caching no line
is dirty. `NoDuplicates`, which is about the time between calls, says nothing
of claimed lines and is not inductive.

**Engine, HIL, CPU and host** (`HostProofs`), for every workload, number of cores
and latency:

- `NoWakeUpIsLost`: the engine's list is sorted, without double entries and not
  overdue; the completion event is scheduled for the request that is finished
  first; a core has an event exactly while it has jobs. `HostInv` is its
  strengthening: while `completion()` runs, the relation between completion queue,
  `lastScheduled` and event is another (`Completing` instead of `Armed`), as a
  callback may submit a request and skip the scheduling; the generator
  begins at tick 0; generator and workload have their types.
- `CompletionsOnTime`: an action property from the same invariant.
- `EventsInSchedulingOrder`: events due at one tick fire in the order in which
  they were scheduled. Hypothesis: a core's job takes time (0 is not in
  `CoreLatency`). With a job of no ticks the entry that just fired and the new
  one are equal, and "scheduled earlier" has no meaning in the state.
- `QueueDepthIsKept` and `RunsEndComplete`, for traces of any lines and any generator.
  `DepthInv` says where each request is (`PlacesInv`: in one place of one core's
  queue or of the completion queue, as its state tells), that the block layer's list
  holds each request in use once (`IOQueueInv`), and for each generator how its
  counters go with the events that wait: a submit event is there only while there is room
  (`depth < Bound`) and, for a trace, only with a line parsed but not yet
  submitted; the lines submitted are exactly the first `count` or `count - 1` that
  match; once a generator is to stop (`reserve`) everything has been submitted.
  Hypotheses: `IdsSuffice`, there is a name for each I/O (in the code a 64-bit
  counter), and, for the depth, `PositiveDepths`: with a queue depth of 0 the code
  lets one I/O through.

**SATA** (`SATAProofs`): `CommandsDoneWhenSeen`, for any number of slots, commands
and resets. `SATAInv` gives, per slot, the one place where its command is (queue,
steps of the device, response), which steps go with which kind of command, and what the bits of
PxCI and PxSACT then are; `QueuesApart` says that no two frames are for one slot.

**Open-channel SSD** (`OpenChannelProofs`), for any geometry, lists, ranges and number of
commands:

- `ReadsReturnNewestData`. `OCInv`: commands at work are on different chunks (the
  host's part), a request is in the completion queue exactly once and only while its
  command is in the flash, the disk holds what the host expects except in blocks that
  a command at work writes or erases, a write that stores its data early has stored
  it, and a read has a right copy from the time it takes it, which depends on the
  command.
- `DescriptorsAreTrue`, with `OCInv`. `DescriptorsTrue` is about chunks no command
  works on; `DescInv` says what holds meanwhile: while a command waits for a core, the
  descriptors of its chunks already tell what it will have made of the flash
  (`Programmed`), and those of all other chunks what the flash is. The proof follows
  the loops of the code (conversion of the list, update of the descriptors, removal of
  refused entries) turn by turn: the mask of a write holds what was refused in its
  turn, so descriptors and accepted pages go on together. A reset sets chunks FREE
  that it does not erase: these are in `unerased`, of which both `DescriptorsTrue` and
  `DescInv` say nothing, and a reset that erases one of them ends that. So the theorem
  holds for all sequences of commands, refused ones included, but not for every chunk
  (section 6, `bug_partial_reset`). Hypothesis: `WithinMask`, at most 64
  pages for a write by range (the lists of vector commands are that short by their
  format); with more pages the code does program what it has refused (section 6).

**DMA** (`DMAProofs`). Both theorems hold for any queue size, transfer unit
(`FIFOAssumption`: a unit fits in the queue; in a smaller queue no piece would
ever find room), page size, list length, transfers (`DMAListsAssumption`) and
number of commands, with and without cores.

`RequestsAnsweredInOrder` is the safety part of `ImplementsChannel`: under the
firmware's lists, the FIFO implements `DMAChannel` but for its fairness. Submissions happen in callbacks too,
while the queues are half-way through a step, so the proof follows each handler call
by call and shows that every call keeps the invariant and makes requests only
at the end of the channel. `DMAInv` has five parts:

- `WriteInv`: which flags of the queue of writes go together, and that the front of
  the queue fits in the buffer while its insertion is under way;
- `ReadInv`: the same for reads, where a piece is done when both of its halves are,
  in either order; so `readCompletion` holds exactly the ids of pieces half done,
  and pieces are numbered in the order of the queue (`Numbered`);
- `RequestsOK`: pieces belong to requests and requests to commands, and a request
  for data is made only by a command that moves data;
- `ListsThere`: a command that fetches its list has a list to fetch;
- `FetchedOnce`: a command waits for at most one page of its list, so the callback
  finds the command in the state in which it asked. Without this the others are not
  inductive.

`TransfersAreComplete` is `Spec => []TransferComplete`. It has no further hypothesis;
the property itself leaves out PRP lists of several pages (section 6). `DMAInv` says
nothing of bytes, so `TransferInv` is added to it:

- `QueueFlow` sees each queue as its pieces, of which the first few have crossed the
  bus (`PiecesW`, `CrossedW`, `PiecesR`, `CrossedR`). They cut their requests in order and
  without a gap (`Linked`, `Ascending`, `PiecesOf`), the next one to cross begins where
  `moved` ends (`Crossing`), and a request that is behind the front of neither queue has
  crossed whole. The two queues are worked off in different orders, but seen like this
  they obey the same lemmas: what splitting, room and overlap do to either is
  `Continues` (a waiting piece may have been split, nothing else has changed);
- `CommandFlow` says that the counter of a command is the number of its requests that
  are still in a queue (or have no bytes and are never answered), that what it
  asked for covers exactly `Wanted`, and what it knows of its list when the list is
  fetched in parts (`ListKnown`). In a callback the request that is answered is
  counted no more but still in the queue: `FlowInv` has it as a parameter;
- `ListsGone`: a command that waits to begin has its whole list.

What the loops over chunks make (`Segments`, `SumSizes`, the pages of `PRP`) is followed
with the traces of `SequenceLemmas`: `NextChunkCovers` is one turn, and
`CoveringPages` what the firmware takes of a page of entries.

**PAL** (`PALProofs`), for any layout, timing, classes of slots, and requests at any
ticks in any order; the search may take any number of turns. `PALAssumption` asks of
the constants that sizes are positive, that the allocation names each of the four
dimensions, that DMA0 takes time, and that what is left before DMA1 is never too
short to be kept as a slot (`dma1 + AntiLatency >= Min(ChClasses)`; with a
`dmaSpeed` for which it is not, DMA1 does not find its slot again, and an
assertion fails).

- `TimeIsGivenOnce`: `Spec => []ResourcesExclusive`. `IInv` adds that free slots
  are in the class of their length (`WellClassed`), without which a search could
  miss a slot that holds the time; that the time of every operation was taken out
  (`Taken`: before the start point and in no free slot); and what the search has
  found when it comes to `Assign` (`FitsAt`: the time fits in the slot it names).
  The main lemmas: a slot that holds a time is the one the search finds there
  (`ContainingLemma`), taking a time out of a slot leaves the rest of it, and only
  that, free (`InsertLemma`), and DMA1 is found again where it was after DMA0 was
  taken (`ChannelTimes`). That a request is answered with the end of its last
  operation is `AnswerInv`.
- `SuperPagesShareNoPage`: `Spec => []NoAliasing`, from a lemma on mixed-radix numbers
  with any order of digits (`SameDigits`: same digits and same quotient, same number).

`SequenceLemmas` holds what the provers need about minima, maxima, removing from and
inserting into sequences, and about loops: induction up to a bound, and that a
loop which carries a value along has a trace. With the last, what a recursive
function of the model computes can be followed turn by turn.

Only model-checked:

- liveness, and fairness with it (that of `ImplementsChannel` included, and the end of
  the PAL's search): out of the prover's reach;
- what the CMT does to the mapping: it is wrong (section 6);
- `SpacePartition` and the other properties of `Namespaces`: sorting by CHOOSE and
  folds over functions, with products of two variables;
- `NVMeController`: not tried yet.

## 6. Where the code differs from what it says

A run of its own: `bug_cmt_table`. A write that hits in the CMT updates the table entry of
another LPN (`table.begin()`); GC panics with "Invalid mapping table entry".

Configurations that reproduce other violations, kept beside the runs (`tlc -config
X.cfg` on the module named):

- `bug_dropped_reads` (`MCPageMapping`): an id stays in `erased_block_id` after its
  block is allocated again; reads of live pages are dropped as if of an erased
  block (`page_mapping.cc:1793`).
- `bug_trim` (`MCGenericCache`): a trim of a page that is not cached never
  reaches the FTL (`generic_cache.cc:2357`).
- `bug_delete_queue` (`MCNVMeController`): `deleteSQueue` skips the command behind
  an erased one (`controller.cc:610`), under "Abort all commands in SQueue".
- `bug_low_priority` (`MCNVMeController`): the last loop of the weighted round
  robin looks at medium queues (`controller.cc:1512`): low-priority commands are never collected.
- `bug_format` (`MCNamespaces`): commands on a namespace are executed while it
  is being formatted, although they are to be refused.
- `bug_rounding` (`MCNamespaces`): a new namespace takes `size / logicalPageSize *
  lbaSize` pages (`subsystem.cc:142`), a deleted one gives back `size * lbaSize /
  logicalPageSize` (`:248`): with a size that is no multiple of the logical page the
  counter of allocated pages ends too low, and wraps. `SpacePartition` says that it is
  exact for the other sizes; that namespaces never overlap holds for all.
- `bug_own_pages` (`MCNamespaces`): of such a namespace the last blocks, which Identify
  counts, have no page: their I/O goes to a page behind its range.
- `bug_smart_log` (`MCNamespaces`): the SMART log of a namespace is answered at
  submission (`subsystem.cc:624`) and then handed to the namespace (`:380`). A host
  that deletes the namespace after the answer makes the firmware use a deleted object.
- `bug_trim_ranges` (`MCNamespaces`): `eachTrimDone` deletes its context after the first
  range (`namespace.cc:609`), and the second range uses it.
- `bug_free_chunk` (`MCOpenChannel`): `convertUnit` takes the length of a range for its
  end (`ocssd.cc:1484`), so `<<s, n>>` gives the blocks `s` to `n - 1` and, for `n <= s`,
  none: a write stores data in a chunk that stays FREE, "Erased (WP = 0)".
- `bug_partial_reset` (`MCOpenChannel`): behind a refused entry of a reset a closed
  chunk is set FREE (`ocssd.cc:1723`), but it is in the mask of what is not to be erased
  (`:1729`): the chunk is FREE with its pages still programmed. Write `<<4, 5, 6, 7>>`,
  then reset `<<2, 3, 4>>`.
- `bug_lost_answer` (`MCOpenChannel`): a command that brings the flash no page (all its
  entries refused, or a range that converts to none) ends at the tick it comes to the
  flash. If that is the tick scheduled last, no event is scheduled (`ocssd.cc:352`),
  then or for any later command, and none is answered.
- `bug_short_mask` (`MCOpenChannel`): refused pages behind the mask's last bit are
  not removed (`ocssd.cc:1657`, "Remove invalid LBAs") and are programmed. The mask
  has 64 bits, a write by range up to 65536 blocks; the configuration has a mask
  of one bit and two pages.

Others the models show or make visible, with the parameters that reproduce them
where the model has them.

FTL and cache:

- `getLastFreeBlock` gives up an open, partly written block because of the same
  stale list (`page_mapping.cc:560`; parameters of `bug_dropped_reads`).
- LPN 0 is never evicted from the CMT, which grows beyond `cmtSize`
  (`page_mapping.cc:1558`; `CmtSize = 1`).
- A format collects open blocks, and erases pages that the same call copied into them
  (`page_mapping.cc:451`; `FormatRanges = {{0}, {0, 1}}`, two channels, 6 blocks):
  `NoValidPageErased` fails.
- The cache-aware policy returns one victim twice for `GCReclaimBlocks = 2`
  (`page_mapping.cc:968`) and the second erase panics.
- A high fill ratio makes an unsigned subtraction wrap and `initialize()` run
  into GC (`page_mapping.cc:138`; `PagesToWarmup = 8`, 6 blocks of 2 pages).
- Without write caching, a write leaves a stale valid line that the next read
  hits (`generic_cache.cc:1525`; any setting without `writeCache`).
- A flush leaves lines dirty and writes invalid dirty lines
  (`generic_cache.cc:2325`): with flushes `NewestReadable` fails.
- With `CacheWaySize = 0` the random policy's distribution is built before the
  number of ways is known (`generic_cache.cc:47`).

Generators and driver:

- In strict mode a line earlier than the first one wraps to the far future
  (`trace_replayer.cc:673`, `LineTick`); with a queue depth of 0 nothing is submitted again.
- A generator by time may submit after `reserveTermination`, under "No I/O will be
  generated anymore" (`request_generator.cc:257`), and a submission that was to
  come sooner is postponed (`:290`).
- Random addresses include the end of the range, documented as half open
  (`:177`); a sequential address underflows when the size is less than two
  blocks (`:190`, "TODO: is this correct?").
- The driver accepts the first page behind the device (`none.cc:72`, `<=`) and
  drops the last page of an I/O that is not aligned (`:76`).

NVMe:

- With one high-priority queue `WRRHigh = 2` has no effect (`controller.cc:1468`).
- With fewer completion than submission queues, a completion queue in use can be
  deleted (`controller.cc:552`; `NumSQ = 2`, `NumCQ = 1`).
- A host that deletes a busy queue reaches a use of the deleted queue
  (`controller.cc:1636`, `:637`): `NeverPanics` is stated for other hosts only.
- When only the aggregation time expires, the held interrupt is dropped with
  the empty batch (`controller.cc:1817`), and with two vectors only one timer is armed.
- A create command for a queue that fails is never answered (`subsystem.cc:544`).
- Two namespaces created at once get the same id; an invalid format is reported,
  but the namespace is created; detaching an unknown id succeeds.
- A format makes the namespace as large as the device, so that its I/O leaves
  its range, and closes its disk image for good; `SpacePartition` says what it
  leaves out. A namespace deleted while a command on it waits is used after it
  is gone; `NothingUsedAfterFree` is about hosts that do not do that, and names the
  two faults such hosts still reach (`bug_smart_log`, `bug_trim_ranges`).
- The SMART log of a namespace is answered twice (`AnsweredOnce` exempts it).
- A PRP list that continues on another page loses a page of data at the pointer
  (`dma.cc:157`); a list that goes on behind the last byte makes a request of no
  bytes, which is never answered; a request larger than the FIFO is inserted
  without room. `TransferComplete` and `TransfersEnd` exempt the first two.
- The driver keeps one phase bit for both completion queues
  (`sil/nvme/nvme.cc:597`); the model's host keeps one per queue.

PAL: the merging of busy times for statistics is wrong for overlapping slots
(`PAL2.cc:400`), and every flush adds a tick per empty operation (`:611`).

Open-channel SSD: `AllAnswered` is about behaviours in which every command brings the
flash some page (`AllReachFlash`), as those of `bug_lost_answer` end with commands that
wait for ever, and `DescriptorsTrue` leaves out the chunks of `bug_partial_reset`.
The mask of a vector write is an `int` shifted by up to 63
(`ocssd.cc:2332`); a vector read moves one block more than asked for; a reset
leaves the disk image as it was.

SATA:

- `submitFISPending` is never set, although `handleResponse` says "There is
  ongoing response": the front is written again by every `submitFIS`, from a
  buffer that the pop may free.
- Answers without a slot clear bit 0 of PxCI (`hba.cc:513`), so that a command in
  slot 0 may look complete while it runs: with `Slots = {0, 1}` `DoneMeansDone` fails.
- Any write of PxIS clears all causes (`hba.cc:234`); an interrupt that comes
  after the queue has become empty leaves the line up, as only `interruptCleared`
  lowers it, and a level-triggered host enters its handler again and again.
- PxSACT is cleared before the answer is delivered: a host that reuses a tag by
  PxSACT alone writes a bit of PxCI that is still set, and the command is lost.
- A reset empties no queue; `requestCounter` is never increased.

## 7. What is not modelled

Statistics, logs, power models and configuration parsing: no control. Latencies
of flash, DRAM and cores: choices (the PAL's own times apart). Geometries with
several I/O units per page: the FTL's `read` dereferences a null pointer there.

- CACHED_GC (`victimSelectionPolicy` 4), the dead-on-arrival predictor and the
  ghost cache: switched off in the shipped configuration; planned.
- UFS: planned; no driver of the repository uses it.
- DRAM: arithmetic on one position that no other part reads.
- In the controller: masked interrupts, re-initialisation after a reset and the
  register file. In the open-channel SSD: identification, log pages, the bad
  block table, and the trim of version 2.0, whose context has the wrong type. In
  SATA: registers without control, Identify data and the disk image.
- Utilities: bit sets and ranges are sets in the models; disk images are file I/O.
- Third-party code: McPAT, DRAMPower and inih. With 43,000 of the 84,700 lines of
  the repository's sources (and 4,000 more of build scripts) it is more than half
  of them; no share of the whole that counts it in can be large.
