-------------------------------- MODULE HIL --------------------------------
(***************************************************************************)
(* A request on its way through the host interface layer                   *)
(* (simplessd/hil/hil.cc): it waits for a CPU core of the HIL, is executed *)
(* when the core's job event fires (simplessd/cpu/cpu.cc), which fixes the *)
(* tick at which it will be finished, and is completed by the completion   *)
(* event, whose callback may submit the next request.                      *)
(*                                                                         *)
(* The layers below the HIL take any of DeviceLatency ticks for a request. *)
(* With no core (HILCoreCount = 0) a request is executed within the call   *)
(* that submits it, the callback of another request included.              *)
(* HostStack composes these steps with the hosts that use the HIL.         *)
(***************************************************************************)
EXTENDS EventQueue

CONSTANTS
  Requests,        \* the requests of the host
  CoreCounts,      \* the values of HILCoreCount to look at
  CoreLatency,     \* the ticks the firmware may take on a core
  DeviceLatency,   \* the ticks cache, FTL and flash may take
  MaxTick          \* the last tick at which the host submits (bounds a run)

ASSUME HILAssumption ==
  /\ CoreCounts \subseteq Nat /\ MaxTick \in Nat
  /\ CoreLatency \subseteq Nat /\ CoreLatency # {}
  /\ DeviceLatency \subseteq Nat \ {0} /\ DeviceLatency # {}

Completion == 0        \* completionEvent; core c has the event c

VARIABLES
  numCores,            \* HILCoreCount, read once from the configuration
  simTick, eventQueue, \* the engine
  jobs,                \* the job queue of every core
  busy,                \* and its busy flag
  completionQueue,     \* requests with the tick they are finished at
  lastScheduled,       \* the tick completionEvent was scheduled for last
  pc,                  \* "idle", or "completing" within completion()
  state                \* "new", "queued" on a core, "device" or "done"

vars == <<numCores, simTick, eventQueue, jobs, busy, completionQueue,
          lastScheduled, pc, state>>

Core == 1 .. numCores

DeviceInit ==
  /\ numCores \in CoreCounts
  /\ simTick = 0
  /\ jobs = [c \in Core |-> <<>>]
  /\ busy = [c \in Core |-> FALSE]
  /\ completionQueue = {}
  /\ lastScheduled = 0
  /\ pc = "idle"
  /\ state = [r \in Requests |-> "new"]

-----------------------------------------------------------------------------
Finished(r, t) == [req |-> r, finishedAt |-> t]

(***************************************************************************)
(* The top of the completion queue: any request that is finished first.    *)
(***************************************************************************)
Tops(cq) == {x \in cq : \A y \in cq : x.finishedAt <= y.finishedAt}

\* Mutant: the event is left alone while it is scheduled.
ScheduleOnce(q, cq) ==
  IF cq = {} \/ Places(q, Completion) # {} THEN <<q, lastScheduled>>
  ELSE LET t == (CHOOSE x \in Tops(cq) : TRUE).finishedAt
       IN  <<insertEvent(q, Completion, t), t>>

(***************************************************************************)
(* updateCompletion: (re)schedule the event unless it was scheduled for    *)
(* the same tick last.  The result is the new event queue and              *)
(* lastScheduled.                                                          *)
(***************************************************************************)
updateCompletion(q, cq) ==
  IF cq = {} THEN <<q, lastScheduled>>
  ELSE LET t == (CHOOSE x \in Tops(cq) : TRUE).finishedAt
       IN  IF t = lastScheduled THEN <<q, lastScheduled>>
           ELSE <<insertEvent(q, Completion, t), t>>

(***************************************************************************)
(* What the handler of a request (doRead, doWrite, ...) leaves behind when *)
(* it runs at tick t with the event queue q.                               *)
(***************************************************************************)
Execute(r, q, t) ==
  {LET cq == completionQueue \cup {Finished(r, t + d)}
       u  == updateCompletion(q, cq)
   IN  [completions |-> cq, events |-> u[1], last |-> u[2]] :
     d \in DeviceLatency}

Executed(r, e) ==
  /\ completionQueue' = e.completions
  /\ lastScheduled' = e.last
  /\ state' = [state EXCEPT ![r] = "device"]

-----------------------------------------------------------------------------
(***************************************************************************)
(* leastBusyCPU: an idle core (which one depends on the times they were    *)
(* busy), else the last of those with the fewest jobs.                     *)
(***************************************************************************)
leastBusyCPU ==
  LET idle   == {c \in Core : ~busy[c]}
      fewest == {c \in Core : \A d \in Core : Len(jobs[c]) <= Len(jobs[d])}
  IN  IF idle # {} THEN idle
      ELSE {c \in fewest : \A d \in fewest : d <= c}

(***************************************************************************)
(* execute() for request r at tick t with the event queue q: submitJob     *)
(* and, on a core that is not busy, handleJob; without a core the handler  *)
(* runs at once.  Each result is the state it leaves.                      *)
(***************************************************************************)
Submissions(r, q, t) ==
  IF numCores = 0
  THEN {[jobs |-> jobs, busy |-> busy, events |-> e.events, last |-> e.last,
         completions |-> e.completions,
         state |-> [state EXCEPT ![r] = "device"]] : e \in Execute(r, q, t)}
  ELSE {[jobs |-> [jobs EXCEPT ![c] = Append(@, r)],
         busy |-> [busy EXCEPT ![c] = TRUE],
         events |-> IF busy[c] THEN q ELSE insertEvent(q, c, t + d),
         last |-> lastScheduled, completions |-> completionQueue,
         state |-> [state EXCEPT ![r] = "queued"]] :
           c \in leastBusyCPU, d \in CoreLatency}

(***************************************************************************)
(* Everything of o but the event queue, which the caller may change still. *)
(***************************************************************************)
Submitted(o) ==
  /\ jobs' = o.jobs /\ busy' = o.busy
  /\ completionQueue' = o.completions /\ lastScheduled' = o.last
  /\ state' = o.state

Submit(r, t) ==
  /\ state[r] = "new"
  /\ \E o \in Submissions(r, eventQueue, t) :
       Submitted(o) /\ eventQueue' = o.events

(***************************************************************************)
(* An event of the host (the trace replayer, a driver) at tick t submits a *)
(* request.  It comes before or after the device's events of that tick.    *)
(***************************************************************************)
HostSubmits(r, t) ==
  /\ pc = "idle"
  /\ simTick <= t
  /\ eventQueue # <<>> => t <= Head(eventQueue).tick
  /\ simTick' = t
  /\ Submit(r, t)
  /\ UNCHANGED <<numCores, pc>>

(***************************************************************************)
(* The end of jobDone: the core is free, or it takes the next job.         *)
(***************************************************************************)
NextJob(c, q) ==
  IF Len(jobs[c]) > 1
  THEN {<<insertEvent(q, c, Head(eventQueue).tick + d), TRUE>> :
          d \in CoreLatency}
  ELSE {<<q, FALSE>>}

jobDone(c) ==
  /\ pc = "idle" /\ eventQueue # <<>> /\ Head(eventQueue).eid = c
  /\ simTick' = Head(eventQueue).tick
  /\ \E e \in Execute(Head(jobs[c]), Tail(eventQueue), Head(eventQueue).tick) :
       /\ Executed(Head(jobs[c]), e)
       /\ \E n \in NextJob(c, e.events) :
            eventQueue' = n[1] /\ busy' = [busy EXCEPT ![c] = n[2]]
  /\ jobs' = [jobs EXCEPT ![c] = Tail(@)]
  /\ UNCHANGED <<numCores, pc>>

-----------------------------------------------------------------------------
(***************************************************************************)
(* completion(): the requests that are finished are completed one by one,  *)
(* then the event is scheduled for the next one.                           *)
(***************************************************************************)
StartCompletion ==
  /\ pc = "idle" /\ eventQueue # <<>> /\ Head(eventQueue).eid = Completion
  /\ simTick' = Head(eventQueue).tick
  /\ eventQueue' = Tail(eventQueue)
  /\ pc' = "completing"
  /\ UNCHANGED <<numCores, jobs, busy, completionQueue, lastScheduled, state>>

\* Mutant: a request is completed one tick early.
DueEarly(x) == x.finishedAt <= simTick + 1

Due(x) == x.finishedAt <= simTick

(***************************************************************************)
(* The callback of the request may submit request r before it is popped.   *)
(***************************************************************************)
CompleteTop ==
  /\ pc = "completing"
  /\ \E x \in Tops(completionQueue) :
       /\ Due(x)
       /\ completionQueue' = completionQueue \ {x}
       /\ state' = [state EXCEPT ![x.req] = "done"]
  /\ UNCHANGED <<numCores, simTick, eventQueue, jobs, busy, lastScheduled, pc>>

CallbackSubmits(r) ==
  /\ pc = "completing"
  /\ \E x \in Tops(completionQueue) : Due(x)
  /\ Submit(r, simTick)
  /\ UNCHANGED <<numCores, simTick, pc>>

EndCompletion ==
  LET u == updateCompletion(eventQueue, completionQueue)
  IN  /\ pc = "completing"
      /\ \A x \in completionQueue : ~Due(x)
      /\ eventQueue' = u[1]
      /\ lastScheduled' = u[2]
      /\ pc' = "idle"
      /\ UNCHANGED <<numCores, simTick, jobs, busy, completionQueue, state>>

-----------------------------------------------------------------------------
(***************************************************************************)
(* Whenever requests wait for completion, the event is scheduled for the   *)
(* first of them: comparing with lastScheduled never loses the wake-up.    *)
(***************************************************************************)
CompletionArmed ==
  pc = "idle" /\ completionQueue # {} =>
    \E x \in Tops(completionQueue) :
      ScheduledAt(eventQueue, Completion, x.finishedAt)

(***************************************************************************)
(* A core that has jobs is working on the first of them.                   *)
(***************************************************************************)
CoresWork ==
  \A c \in Core : /\ busy[c] <=> jobs[c] # <<>>
                  /\ busy[c] <=> Places(eventQueue, c) # {}
=============================================================================
