----------------------------- MODULE HostStack -----------------------------
(***************************************************************************)
(* The simulator without a host interface, from top to bottom on one event *)
(* engine: an I/O generator (igl/trace/trace_replayer.cc or                *)
(* igl/request/request_generator.cc), the block I/O layer (bil/entry.cc,   *)
(* bil/noop_scheduler.cc), the driver (sil/none/none.cc) and the device's  *)
(* HIL; sim/main.cc starts it, prints statistics periodically and runs     *)
(* until the generator ends the simulation.                                *)
(*                                                                         *)
(* A workload of kind "driver" leaves the generator out: any driver uses   *)
(* the HIL, submitting at any tick and in the completion callbacks, and    *)
(* the engine, scheduling and descheduling events of its own.              *)
(*                                                                         *)
(* Bytes are small numbers; a trace is the sequence of its lines, those    *)
(* the regular expression does not match included.                         *)
(***************************************************************************)
EXTENDS HIL

CONSTANTS
  Workloads,           \* configurations of the generator, with their traces
  SubmissionLatency,   \* ticks between two submissions
  CompletionLatency,   \* ticks the host takes for a completion
  LogicalPages,        \* nlogicalpagesinSSD
  LogicalPageSize,     \* bytes in a logical page
  MinBlock,            \* bytes in the smallest block the driver takes
  Word,                \* 2^64: the range of an address and of a tick
  LastLog              \* the last tick of periodic statistics (bounds a run)

ASSUME StackAssumption ==
  /\ {SubmissionLatency, CompletionLatency, LastLog} \subseteq Nat
  /\ {LogicalPages, LogicalPageSize, MinBlock, Word} \subseteq Nat \ {0}

\* A line of a trace as the replayer's regular expression reads it, and what
\* the configuration of the request generator says.
TraceLine == [type : {"rw", "flush", "unknown", "unmatched"},
              tick : Nat, offset : Nat, length : Nat]
TraceLoad == [kind : {"trace"}, mode : {"sync", "async", "strict"},
              depth : Nat, maxIO : Nat, limit : Nat, lines : Seq(TraceLine),
              period : Nat]
GeneratorLoad == [kind : {"generator"}, type : {"sequential", "random"},
                  depth : Nat, ioSize : Nat, runtime : Nat, blocksize : Nat,
                  blockalign : Nat, offset : Nat, size : Nat, period : Nat]

ASSUME WorkloadAssumption ==
  \A w \in Workloads :
    /\ w.kind \in {"trace", "generator", "driver"} /\ w.period \in Nat
    /\ w.kind = "trace" => w \in TraceLoad
    /\ w.kind = "generator" => w \in GeneratorLoad
    /\ w.kind = "driver" => w.requests \subseteq Requests

BeginEvent  == -1      \* of Driver::init
SubmitEvent == -2      \* of the generator
StatEvent   == -3      \* of main
DriverEvents == {-4, -5}

VARIABLES
  load,                \* the workload
  gen,                 \* the generator
  ioQueue              \* the I/O the block layer waits for

stackVars == <<vars, load, gen, ioQueue>>

\* count: io_count; depth: io_depth; pos, line: the line parsed last and what
\* it says; first: firstTick; bytes: io_submitted; sync: nextIOIsSync;
\* reserve: reserveTermination; status: whether the engine was stopped.
NoLine == [type |-> "none", tick |-> 0, offset |-> 0, length |-> 0]
Generator == [count |-> 0, depth |-> 0, pos |-> 0, line |-> NoLine,
              first |-> 0, bytes |-> 0, sync |-> FALSE, reserve |-> FALSE,
              status |-> "running"]

(***************************************************************************)
(* main: the driver schedules the begin of the generator at tick 0, and    *)
(* statistics are printed every load.period, if that is not 0.             *)
(***************************************************************************)
StackInit ==
  /\ DeviceInit
  /\ load \in Workloads
  /\ gen = Generator
  /\ ioQueue = <<>>
  /\ eventQueue =
       IF load.kind = "driver" THEN <<>>
       ELSE <<Entry(BeginEvent, 0)>> \o
            (IF load.period = 0 THEN <<>>
             ELSE <<Entry(StatEvent, load.period)>>)

-----------------------------------------------------------------------------
(***************************************************************************)
(* The driver: the pages of a block I/O.  An address behind the device is  *)
(* folded into it: the low bits, modulo the number of pages.               *)
(***************************************************************************)
DivCeil(a, b) == (a + b - 1) \div b
PowerAbove(n) == 2 ^ (CHOOSE k \in 1 .. n + 1 : 2 ^ (k - 1) <= n /\ n < 2 ^ k)

Folded(page) == (page % PowerAbove(LogicalPages)) % LogicalPages

PagesOf(bio) ==
  LET page == bio.offset \div LogicalPageSize
  IN  [slpn |-> IF page <= LogicalPages THEN page ELSE Folded(page),
       nlp  |-> DivCeil(bio.length, LogicalPageSize)]

Bio(id, offset, length) == [id |-> id, offset |-> offset, length |-> length]

(***************************************************************************)
(* endCallback of main: statistics are descheduled, the engine stops.      *)
(***************************************************************************)
endCallback(g, q) == <<[g EXCEPT !.status = "ended"], removeEvent(q, StatEvent)>>

(***************************************************************************)
(* Engine::scheduleEvent replaces a tick in the past by the current one.   *)
(***************************************************************************)
Clamped(t, now) == IF t < now THEN now ELSE t

-----------------------------------------------------------------------------
(***************************************************************************)
(* The trace replayer.  Its operators map the generator g and the event    *)
(* queue q to a pair of those.                                             *)
(***************************************************************************)
Matched == {i \in 1 .. Len(load.lines) : load.lines[i].type # "unmatched"}

\* How many lines of the first n match: the id of the I/O of line n.
MatchedUpTo(n) == Cardinality({i \in Matched : i <= n})

(***************************************************************************)
(* iclCount in the state st: the pages read or written so far.             *)
(***************************************************************************)
IclCount(st) ==
  Cardinality({p \in Matched \X (1 .. LogicalPages) :
    /\ st[MatchedUpTo(p[1])] \in {"device", "done"}
    /\ load.lines[p[1]].type = "rw"
    /\ p[2] <= DivCeil(load.lines[p[1]].length, LogicalPageSize)})

parseLine(g, q, st) ==
  LET lines == {i \in Matched : i > g.pos}
      eof   == [g EXCEPT !.pos = Len(load.lines), !.reserve = TRUE]
  IN  IF lines = {}
      THEN IF g.depth = 0 THEN endCallback(eof, q) ELSE <<eof, q>>
      ELSE <<[g EXCEPT !.pos = Min(lines), !.line = load.lines[Min(lines)],
                       !.count = @ + 1,
                       !.reserve = @ \/ IclCount(st) > load.limit], q>>

\* Mutant: one I/O more than the queue depth is submitted.
DepthOffByOne(g, q, t, breakTime) ==
  IF load.mode = "async" /\ g.depth > load.depth
  THEN <<[g EXCEPT !.sync = TRUE], q>>
  ELSE <<g, insertEvent(q, SubmitEvent, t + breakTime)>>

\* Mutant: a submission that meets a full queue is forgotten.
ForgetSubmission(g, q, t, breakTime) ==
  IF load.mode = "async" /\ g.depth >= load.depth THEN <<g, q>>
  ELSE <<g, insertEvent(q, SubmitEvent, t + breakTime)>>

rescheduleSubmit(g, q, t, breakTime) ==
  IF load.mode = "async" /\ g.depth >= load.depth
  THEN <<[g EXCEPT !.sync = TRUE], q>>
  ELSE IF load.mode = "strict" THEN <<g, q>>
  ELSE <<g, insertEvent(q, SubmitEvent, t + breakTime)>>

(***************************************************************************)
(* When a trace in strict mode has its next line submitted, which begins   *)
(* at tick 0.  A line earlier than the first one lies far ahead, as the    *)
(* subtraction wraps.                                                      *)
(***************************************************************************)
LineTick(g) == (g.line.tick - g.first) % Word

(***************************************************************************)
(* submitIO after the block layer took the I/O: o is the state the device  *)
(* was left in.                                                            *)
(***************************************************************************)
AfterSubmit(g, o, t) ==
  LET deeper == [g EXCEPT !.depth = @ + 1]
      parsed == parseLine(deeper, o.events, o.state)
      next   == parsed[1]
  IN  IF load.maxIO # 0 /\ g.count >= load.maxIO
      THEN <<[deeper EXCEPT !.reserve = TRUE], o.events>>
      ELSE IF next.reserve THEN parsed
      ELSE IF load.mode = "strict"
      THEN <<next, insertEvent(parsed[2], SubmitEvent,
                               Clamped(LineTick(next), t))>>
      ELSE IF load.mode = "async"
      THEN rescheduleSubmit(next, parsed[2], t, SubmissionLatency)
      ELSE parsed

\* Mutant: the first completion after the last submission ends the run.
EndAtOnce(g, q) == IF g.reserve THEN endCallback(g, q) ELSE <<g, q>>

EndWhenIdle(g, q) ==
  IF g.reserve /\ g.depth = 0 THEN endCallback(g, q) ELSE <<g, q>>

TraceCallback(g, q, t) ==
  LET u == EndWhenIdle([g EXCEPT !.depth = @ - 1], q)
  IN  IF load.mode = "sync" \/ g.sync
      THEN rescheduleSubmit([u[1] EXCEPT !.sync = FALSE], u[2], t,
                            SubmissionLatency + CompletionLatency)
      ELSE u

-----------------------------------------------------------------------------
(***************************************************************************)
(* The request generator.                                                  *)
(***************************************************************************)

(***************************************************************************)
(* The constructor and init: sizes and offset are rounded down to whole    *)
(* blocks, the range is cut off at the end of the device.                  *)
(***************************************************************************)
Rounded(n, unit) == (n \div unit) * unit

Capacity == LogicalPages * LogicalPageSize

Align(w) == IF w.blockalign = 0 THEN w.blocksize ELSE w.blockalign

Initialized(w) ==
  LET align == Rounded(Align(w), MinBlock)
      off   == Rounded(w.offset, align)
  IN  [w EXCEPT
         !.blocksize = Rounded(@, MinBlock), !.blockalign = align,
         !.offset = off,
         !.size = IF @ = 0 \/ off + @ > Capacity THEN Capacity - off ELSE @]

Invalid(w) ==
  \/ w.offset > Capacity \/ w.blocksize < MinBlock \/ Align(w) < MinBlock
  \/ Initialized(w).size = 0

(***************************************************************************)
(* generateAddress for sequential I/O: the offset is moved back until the  *)
(* block fits, in unsigned arithmetic.                                     *)
(***************************************************************************)
Minus(a, b) == (a - b + Word) % Word

MovedBack(w, off) ==
  LET back[o \in 0 .. Word - 1] ==
        IF (o + w.blocksize) % Word <= w.size THEN o
        ELSE back[Minus(o, IF o >= w.size THEN w.size ELSE w.blocksize)]
  IN  back[off]

generateAddress(w, count) ==
  IF w.type = "random"
  THEN {off - (off % w.blockalign) : off \in w.offset .. w.offset + w.size}
  ELSE {(MovedBack(w, count * w.blockalign) + w.offset) % Word}

AllGenerated(g, t) ==
  IF load.runtime = 0 THEN g.bytes >= load.ioSize ELSE load.runtime <= t

GenReschedule(g, q, t, breakTime) ==
  LET done == [g EXCEPT !.reserve = TRUE]
  IN  IF AllGenerated(g, t)
      THEN IF g.depth = 0 THEN endCallback(done, q) ELSE <<done, q>>
      ELSE IF /\ g.depth < load.depth
              /\ \A i \in Places(q, SubmitEvent) : q[i].tick < t + breakTime
      THEN <<g, insertEvent(q, SubmitEvent, t + breakTime)>>
      ELSE <<g, q>>

GenCallback(g, q, t) ==
  LET fewer == [g EXCEPT !.depth = @ - 1]
  IN  IF g.reserve
      THEN IF fewer.depth = 0 THEN endCallback(fewer, q) ELSE <<fewer, q>>
      ELSE GenReschedule(fewer, q, t, SubmissionLatency + CompletionLatency)

-----------------------------------------------------------------------------
(***************************************************************************)
(* doNextEvent with the event e: main's loop runs until the engine stops.  *)
(***************************************************************************)
Fires(e) ==
  /\ pc = "idle" /\ gen.status = "running"
  /\ eventQueue # <<>> /\ Head(eventQueue).eid = e
  /\ simTick' = Head(eventQueue).tick

HostBecomes(u) == gen' = u[1] /\ eventQueue' = u[2]

(***************************************************************************)
(* The block layer takes an I/O, and finds it again when it is completed.  *)
(***************************************************************************)
submitIO(bio) == ioQueue' = Append(ioQueue, bio)
completion(id) ==
  LET places == {i \in 1 .. Len(ioQueue) : ioQueue[i].id = id}
  IN  ioQueue' = IF places = {} THEN ioQueue ELSE RemoveAt(ioQueue, Min(places))

(***************************************************************************)
(* submitIO of the trace replayer with the generator g: the block layer    *)
(* notes the I/O, the scheduler passes it on, the driver converts it.      *)
(***************************************************************************)
TraceSubmits(g, t) ==
  LET bio == Bio(g.count, g.line.offset, g.line.length)
  IN  IF g.line.type = "unknown"
      THEN /\ gen' = [g EXCEPT !.status = "panic"]
           /\ eventQueue' = Tail(eventQueue)
           /\ UNCHANGED <<jobs, busy, completionQueue, lastScheduled, state,
                          ioQueue>>
      ELSE /\ submitIO(bio)
           /\ \E o \in Submissions(bio.id, Tail(eventQueue), t) :
                /\ Submitted(o)
                /\ HostBecomes(AfterSubmit(g, o, t))

GenSubmits(w, t) ==
  LET g == [gen EXCEPT !.count = @ + 1, !.depth = @ + 1,
                       !.bytes = @ + w.blocksize]
  IN  \E off \in generateAddress(w, gen.count) :
        LET bio == Bio(gen.count, off, w.blocksize)
        IN  /\ submitIO(bio)
            /\ \E o \in Submissions(bio.id, Tail(eventQueue), t) :
                 /\ Submitted(o)
                 /\ HostBecomes(GenReschedule(g, o.events, t,
                                              SubmissionLatency))

(***************************************************************************)
(* begin: the first line of the trace gives the first tick.                *)
(***************************************************************************)
BeginTrace ==
  /\ load.kind = "trace" /\ Fires(BeginEvent)
  /\ LET u == parseLine(gen, Tail(eventQueue), state)
         g == [u[1] EXCEPT !.first =
                 IF load.mode = "strict" THEN u[1].line.tick ELSE 0]
     IN  IF g.reserve
         THEN /\ HostBecomes(endCallback(g, u[2]))
              /\ UNCHANGED <<jobs, busy, completionQueue, lastScheduled,
                             state, ioQueue>>
         ELSE TraceSubmits(g, 0)
  /\ UNCHANGED <<numCores, pc, load>>

SubmitTrace ==
  /\ load.kind = "trace" /\ Fires(SubmitEvent)
  /\ TraceSubmits(gen, Head(eventQueue).tick)
  /\ UNCHANGED <<numCores, pc, load>>

BeginGenerated ==
  /\ load.kind = "generator" /\ Fires(BeginEvent)
  /\ IF Invalid(load)
     THEN /\ gen' = [gen EXCEPT !.status = "panic"]
          /\ eventQueue' = Tail(eventQueue)
          /\ UNCHANGED <<jobs, busy, completionQueue, lastScheduled, state,
                         load, ioQueue>>
     ELSE /\ load' = Initialized(load)
          /\ GenSubmits(Initialized(load), 0)
  /\ UNCHANGED <<numCores, pc>>

SubmitGenerated ==
  /\ load.kind = "generator" /\ Fires(SubmitEvent)
  /\ GenSubmits(load, Head(eventQueue).tick)
  /\ UNCHANGED <<numCores, pc, load>>

Statistics ==
  /\ Fires(StatEvent) /\ simTick' <= LastLog
  /\ eventQueue' = insertEvent(Tail(eventQueue), StatEvent,
                               simTick' + load.period)
  /\ UNCHANGED <<numCores, jobs, busy, completionQueue, lastScheduled, pc,
                 state, load, gen, ioQueue>>

(***************************************************************************)
(* A request is completed: the callbacks of driver, block layer and        *)
(* generator run before the HIL takes it off its queue.                    *)
(***************************************************************************)
CompleteIO ==
  /\ load.kind # "driver" /\ pc = "completing"
  /\ \E x \in Tops(completionQueue) :
       /\ Due(x)
       /\ completionQueue' = completionQueue \ {x}
       /\ state' = [state EXCEPT ![x.req] = "done"]
       /\ completion(x.req)
  /\ HostBecomes(IF load.kind = "trace"
                 THEN TraceCallback(gen, eventQueue, simTick)
                 ELSE GenCallback(gen, eventQueue, simTick))
  /\ UNCHANGED <<numCores, simTick, jobs, busy, lastScheduled, pc, load>>

Idle == UNCHANGED <<load, gen, ioQueue>>

Device == UNCHANGED <<numCores, jobs, busy, completionQueue, lastScheduled, pc,
                      state>>

(***************************************************************************)
(* Another driver's own events; gen.count bounds the calls of a run.       *)
(***************************************************************************)
DriverFires(e) ==
  /\ load.kind = "driver" /\ Fires(e)
  /\ eventQueue' = Tail(eventQueue)
  /\ Device /\ Idle

DriverSchedules(e, t) ==
  /\ gen.count < load.calls
  /\ gen' = [gen EXCEPT !.count = @ + 1]
  /\ eventQueue' = insertEvent(eventQueue, e, Clamped(t, simTick))
  /\ UNCHANGED <<simTick, load, ioQueue>> /\ Device

DriverDeschedules(e) ==
  /\ Places(eventQueue, e) # {}
  /\ eventQueue' = removeEvent(eventQueue, e)
  /\ UNCHANGED simTick /\ Device /\ Idle

(***************************************************************************)
(* What the engine and the device do, whatever the host is.                *)
(***************************************************************************)
Simulation ==
  \/ BeginTrace \/ SubmitTrace \/ BeginGenerated \/ SubmitGenerated
  \/ Statistics \/ CompleteIO
  \/ /\ gen.status = "running"
     /\ (\E c \in Core : jobDone(c)) \/ StartCompletion
     /\ Idle
  \/ load.kind = "driver" /\ CompleteTop /\ Idle
  \/ \E e \in DriverEvents : DriverFires(e)
  \/ EndCompletion /\ Idle

OtherDriver ==
  /\ load.kind = "driver"
  /\ \/ /\ \E r \in load.requests : \/ \E t \in 0 .. MaxTick : HostSubmits(r, t)
                                    \/ CallbackSubmits(r)
        /\ Idle
     \/ \E e \in DriverEvents : \/ \E t \in 0 .. MaxTick : DriverSchedules(e, t)
                                \/ DriverDeschedules(e)

StackNext == Simulation \/ OtherDriver

(***************************************************************************)
(* The loop of main runs as long as there are events.                      *)
(***************************************************************************)
StackSpec == StackInit /\ [][StackNext]_stackVars /\ WF_stackVars(Simulation)

-----------------------------------------------------------------------------
(***************************************************************************)
(* insertEvent keeps the engine's list sorted, whatever is moved from      *)
(* where to where, with nothing overdue in it and one entry per event: the *)
(* loop can take the front, and time never goes back.                      *)
(***************************************************************************)
QueueInvariant ==
  \A i, j \in 1 .. Len(eventQueue) :
    /\ i <= j => eventQueue[i].tick <= eventQueue[j].tick
    /\ eventQueue[i].eid = eventQueue[j].eid => i = j
    /\ simTick <= eventQueue[i].tick

(***************************************************************************)
(* Events due at the same tick fire in the order in which they were        *)
(* scheduled: no step puts an entry before one that was there already and  *)
(* is due no later.                                                        *)
(***************************************************************************)
FirstScheduledFirst ==
  [][\A i, j \in 1 .. Len(eventQueue') :
       /\ i < j /\ eventQueue'[i].tick = eventQueue'[j].tick
       /\ \E k \in 1 .. Len(eventQueue) : eventQueue[k] = eventQueue'[j]
       => \E k \in 1 .. Len(eventQueue) : eventQueue[k] = eventQueue'[i]]_stackVars

(***************************************************************************)
(* The device never forgets a wake-up: between events, requests that wait  *)
(* for completion have the event scheduled for the first of them (skipping *)
(* schedule() when the tick equals lastScheduled loses none), and a core   *)
(* has an event exactly while it has jobs (hil.cc, cpu.cc).  And the       *)
(* engine's list is in order, so that each of them comes at its tick.      *)
(***************************************************************************)
WakeUpsArmed == CompletionArmed /\ CoresWork /\ QueueInvariant

(***************************************************************************)
(* A request is completed at the very tick at which it is finished, so the *)
(* latency the block layer records is the one the device computed.         *)
(***************************************************************************)
OnTime ==
  [][\A x \in completionQueue \ completionQueue' :
       simTick' = x.finishedAt]_stackVars

(***************************************************************************)
(* The block layer and the generator agree on what is outstanding, and     *)
(* that never exceeds the queue depth, whatever order the completions and  *)
(* the submit event come in.                                               *)
(***************************************************************************)
MaxDepth ==
  IF load.kind = "trace"
  THEN IF load.mode = "sync" THEN 1
       ELSE IF load.mode = "async" THEN load.depth ELSE Len(load.lines)
  ELSE load.depth

DepthKept ==
  load.kind # "driver" =>
    /\ gen.depth = Len(ioQueue) /\ gen.depth <= MaxDepth
    /\ {ioQueue[i].id : i \in 1 .. Len(ioQueue)} =
         {r \in Requests : state[r] \in {"queued", "device"}}

(***************************************************************************)
(* The simulation is stopped only when nothing is outstanding and the      *)
(* workload is complete: every line of the trace (up to IOLimit, or to the *)
(* page limit) or every byte and tick asked of the generator.              *)
(***************************************************************************)
Smaller(a, b) == IF a < b THEN a ELSE b

Workload ==
  IF load.kind = "trace"
  THEN \/ IclCount(state) > load.limit
       \/ Cardinality({r \in Requests : state[r] = "done"}) =
            IF load.maxIO = 0 THEN Cardinality(Matched)
            ELSE Smaller(load.maxIO, Cardinality(Matched))
  ELSE AllGenerated(gen, simTick)

EndsComplete ==
  gen.status = "ended" =>
    /\ ioQueue = <<>>
    /\ \A r \in Requests : state[r] \in {"new", "done"}
    /\ Workload

(***************************************************************************)
(* The simulation ends: no interleaving of completions, the submit event   *)
(* and the statistics leaves the generator waiting.  With another driver,  *)
(* every request is completed.                                             *)
(***************************************************************************)
SimulationEnds ==
  <>[](IF load.kind = "driver"
       THEN \A r \in Requests : state[r] \in {"new", "done"}
       ELSE gen.status # "running")
=============================================================================
