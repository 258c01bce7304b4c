--------------------------- MODULE NVMeController ---------------------------
(***************************************************************************)
(* The NVMe controller (simplessd/hil/nvme/controller.cc, queue.cc, the    *)
(* admin commands of subsystem.cc) and the host driver (sil/nvme/nvme.cc). *)
(*                                                                         *)
(* The host writes a command into a submission queue and rings its         *)
(* doorbell.  The controller's main loop collects commands by DMA into     *)
(* lSQFIFO, passes them on, and the answers come back through lCQFIFO, are *)
(* written by DMA into a completion queue, and announced by an interrupt,  *)
(* upon which the host takes them out.  Every DMA and every firmware call  *)
(* takes time, during which anything else may happen.                      *)
(*                                                                         *)
(* What a command transfers, and what the layers below do with it, is left *)
(* out: an I/O command is answered some time after it was passed on.       *)
(* Completion queue q interrupts with vector q, as the driver sets it up.  *)
(***************************************************************************)
EXTENDS Integers, Sequences, FiniteSets

LOCAL INSTANCE SequencesExt
LOCAL INSTANCE FiniteSetsExt

CONSTANTS
  NumSQ, NumCQ,           \* MaxIOSQueue and MaxIOCQueue
  QueueSize,              \* the entries of a queue
  WRRHigh, WRRMedium,
  MaxRequest,             \* MaxRequestCount: commands passed on per loop
  AggregationTime,        \* is the aggregation time of interrupts above zero?
  AggregationThreshold,
  Hosts                   \* the hosts to look at

ASSUME NVMeAssumption ==
  /\ {NumSQ, NumCQ, QueueSize, MaxRequest, WRRHigh, WRRMedium} \subseteq
     Nat \ {0}
  /\ QueueSize > 1
  /\ AggregationThreshold \in Nat /\ AggregationTime \in BOOLEAN
  /\ \A h \in Hosts : /\ DOMAIN h.queues \subseteq 1 .. NumSQ
                       /\ h.arbitration \in {"rr", "wrr"}
                       /\ h.depth \in Nat \ {0} /\ h.commands \in Nat
                       /\ h.deleteBusy \in BOOLEAN

SQID == 0 .. NumSQ
CQID == 0 .. NumCQ
Slot == 0 .. QueueSize - 1
Next1(i) == (i + 1) % QueueSize

VARIABLES
  setup,            \* the host: how it uses the controller
  status,           \* of the controller: CC.EN, CC.SHN and CSTS together
  chain,            \* where the main loop is
  sq, cq,           \* ppSQueue and ppCQueue
  fetching,         \* commands whose DMA read is under way
  lSQFIFO, requestCounter,
  working,          \* commands passed on to the subsystem
  lCQFIFO, completionEvent,
  agg,              \* aggregationMap
  batches,          \* answers whose DMA write is under way, per completion()
  busy,             \* the loop a handler is in the middle of
  cmds, answered,   \* the host's commands, and those it got an answer to
  upSQ, upCQ,       \* the I/O queues the host uses
  sqMem, cqMem,     \* the queues in host memory
  cqHead, cqPhase,  \* the host's head and phase of each completion queue
  panic

host == <<cmds, answered, upSQ, upCQ, sqMem, cqMem, cqHead, cqPhase>>
loop == <<status, chain, fetching, lSQFIFO, requestCounter>>
answers == <<lCQFIFO, completionEvent, agg, batches>>
vars == <<setup, loop, sq, cq, working, answers, busy, host, panic>>

Queues == setup.queues            \* I/O submission queues at start, [cq, prio]
Arbitration == setup.arbitration  \* CC.AMS: "rr" or "wrr"
Operations == setup.operations    \* what the host does besides I/O
Depth == setup.depth              \* commands outstanding per completion queue
DeleteBusy == setup.deleteBusy    \* are queues with commands in them deleted?
MaxCommands == setup.commands     \* bounds a run

NoQueue == [none |-> TRUE]
Idle == [pc |-> "idle"]

\* The program runs, and is in the loop named pc or, idle, in none.
In(pc) == panic = "no" /\ busy.pc = pc

\* completionEvent is not scheduled, due, or set to the end of the aggregation
\* time of vector c > 0.
Off == -1
Now == 0

SQueue(c, prio) == [cq |-> c, prio |-> prio, head |-> 0, tail |-> 0]
CQueue == [head |-> 0, tail |-> 0, phase |-> TRUE]
NoAggregation ==
  [valid |-> FALSE, open |-> FALSE, count |-> 0, pending |-> FALSE]
EmptyMem == [s \in Slot |-> [cid |-> 0, ok |-> FALSE, phase |-> FALSE]]

Init ==
  /\ setup \in Hosts
  /\ status = "off"
  /\ chain = "none"
  /\ sq = [q \in SQID |->
             CASE q = 0 -> SQueue(0, "urgent")
               [] q \in DOMAIN Queues -> SQueue(Queues[q].cq, Queues[q].prio)
               [] OTHER -> NoQueue]
  /\ upSQ = DOMAIN Queues
  /\ upCQ = {Queues[q].cq : q \in DOMAIN Queues}
  /\ cq = [c \in CQID |-> IF c = 0 \/ c \in upCQ THEN CQueue ELSE NoQueue]
  /\ fetching = <<>> /\ lSQFIFO = <<>> /\ requestCounter = 0
  /\ working = {}
  /\ lCQFIFO = <<>> /\ completionEvent = Off
  /\ agg = [c \in CQID |-> NoAggregation]
  /\ batches = <<>>
  /\ busy = Idle
  /\ cmds = <<>> /\ answered = {}
  /\ sqMem = [q \in SQID |-> [s \in Slot |-> 0]]
  /\ cqMem = [c \in CQID |-> EmptyMem]
  /\ cqHead = [c \in CQID |-> 0]
  /\ cqPhase = [c \in CQID |-> TRUE]
  /\ panic = "no"

-----------------------------------------------------------------------------
(***************************************************************************)
(* The host.                                                               *)
(***************************************************************************)
Pending == (1 .. Len(cmds)) \ answered
OutstandingIn(q) == {i \in Pending : cmds[i].sq = q}
\* The completion queue a command is answered in.
CQOf(c) == IF c.sq = 0 THEN 0 ELSE c.y
Changing(ops, q) == \E i \in Pending : cmds[i].op \in ops /\ cmds[i].x = q

\* May the host issue command c now?
Sensible(c) ==
  \/ c.op = "io"
  \/ /\ c.op = "deleteSQ" /\ c.x \in upSQ
     /\ DeleteBusy \/ OutstandingIn(c.x) = {}
  \/ /\ c.op = "createSQ" /\ c.x \notin upSQ /\ c.y \in upCQ
     /\ ~Changing({"createSQ", "deleteSQ"}, c.x)
  \/ /\ c.op = "deleteCQ" /\ c.x \in upCQ
     /\ ~\E i \in Pending : cmds[i].op = "createSQ" /\ cmds[i].y = c.x
  \/ /\ c.op = "createCQ" /\ c.x \notin upCQ
     /\ ~Changing({"createCQ", "deleteCQ"}, c.x)
  \/ c.op \in {"coalesce", "decoalesce"} /\ c.x \in upCQ
  \/ c.op = "abort" /\ c.x \in Pending /\ cmds[c.x].sq # 0

Commands ==
  {[sq |-> q, op |-> "io", x |-> 0, y |-> sq[q].cq] : q \in upSQ} \cup
  [sq : {0}, op : Operations \cap {"deleteSQ"}, x : upSQ, y : {0}] \cup
  [sq : {0}, op : Operations \cap {"createSQ"}, x : SQID \ {0}, y : upCQ] \cup
  [sq : {0}, op : Operations \cap {"createCQ", "deleteCQ", "coalesce",
                                   "decoalesce"}, x : CQID \ {0}, y : {0}] \cup
  [sq : {0}, op : Operations \cap {"abort"}, x : Pending, y : {0}]

(***************************************************************************)
(* Driver::submitCommand and ringSQTailDoorbell.                           *)
(***************************************************************************)
Submit(c) ==
  /\ In("idle") /\ status = "ready"
  /\ Len(cmds) < MaxCommands
  /\ Cardinality({i \in Pending : CQOf(cmds[i]) = CQOf(c)}) < Depth
  /\ Sensible(c)
  /\ cmds' = Append(cmds, c)
  /\ sqMem' = [sqMem EXCEPT ![c.sq][sq[c.sq].tail] = Len(cmds) + 1]
  /\ sq' = [sq EXCEPT ![c.sq].tail = Next1(@)]
  /\ upSQ' = IF c.op = "deleteSQ" THEN upSQ \ {c.x} ELSE upSQ
  /\ upCQ' = IF c.op = "deleteCQ" THEN upCQ \ {c.x} ELSE upCQ
  /\ IF c.op = "createCQ"
     THEN /\ cqMem' = [cqMem EXCEPT ![c.x] = EmptyMem]
          /\ cqHead' = [cqHead EXCEPT ![c.x] = 0]
          /\ cqPhase' = [cqPhase EXCEPT ![c.x] = TRUE]
     ELSE UNCHANGED <<cqMem, cqHead, cqPhase>>
  /\ UNCHANGED <<setup, loop, cq, working, answers, busy, answered, panic>>

(***************************************************************************)
(* Writes of the controller configuration: enable, shut down, disable.     *)
(***************************************************************************)
EnableController ==
  /\ In("idle") /\ status = "off"
  /\ status' = "ready" /\ chain' = "event"
  /\ UNCHANGED <<setup, fetching, lSQFIFO, requestCounter, sq, cq, working,
                 answers, busy, host, panic>>

ShutdownController ==
  /\ In("idle") /\ status = "ready" /\ "shutdown" \in Operations
  /\ status' = "shutting"
  /\ UNCHANGED <<setup, chain, fetching, lSQFIFO, requestCounter, sq, cq,
                 working, answers, busy, host, panic>>

DisableController ==
  /\ In("idle") /\ status = "ready" /\ "disable" \in Operations
  /\ status' = "disabled"
  /\ chain' = IF chain = "event" THEN "none" ELSE chain
  /\ UNCHANGED <<setup, fetching, lSQFIFO, requestCounter, sq, cq, working,
                 answers, busy, host, panic>>

-----------------------------------------------------------------------------
(***************************************************************************)
(* The main loop: work() starts collectSQueue, which visits the submission *)
(* queues in the order of the arbitration and starts a DMA read for every  *)
(* command it finds.  busy holds the state of its loops.                   *)
(***************************************************************************)
\* Mutant: work() does not look at CSTS.RDY.
AlwaysReady == TRUE

Ready == status \in {"ready", "shutting"}

Scan(class) ==
  [pc |-> "scan", class |-> class, at |-> 0, updated |-> 0, total |-> 0]

work ==
  /\ In("idle") /\ chain = "event"
  /\ IF Ready
     THEN /\ chain' = "collect"
          /\ busy' = Scan(IF Arbitration = "rr" THEN "all" ELSE "admin")
     ELSE chain' = "none" /\ UNCHANGED busy
  /\ UNCHANGED <<setup, status, fetching, lSQFIFO, requestCounter, sq, cq,
                 working, answers, host, panic>>

\* The queues a loop looks at.  The last loop of the weighted round robin,
\* "low", looks at queues of medium priority.
InClass(class, q) ==
  CASE class = "all"   -> TRUE
    [] class = "admin" -> q = 0
    [] class = "low"   -> q > 0 /\ sq[q].prio = "medium"
    [] OTHER           -> q > 0 /\ sq[q].prio = class

Waiting(q) == sq[q] # NoQueue /\ sq[q].head # sq[q].tail

\* Mutant: a collected command is taken from the slot after the head.
SlotAfterHead(q) == Next1(sq[q].head)

SlotToFetch(q) == sq[q].head

(***************************************************************************)
(* checkQueue on the next queue with a command.                            *)
(***************************************************************************)
ScanFetch ==
  /\ In("scan")
  /\ \E q \in busy.at .. NumSQ :
       /\ Waiting(q) /\ InClass(busy.class, q)
       /\ \A p \in busy.at .. q - 1 :
            ~(Waiting(p) /\ InClass(busy.class, p))
       /\ fetching' = Append(fetching, [sq |-> q, cq |-> sq[q].cq,
                                        slot |-> SlotToFetch(q),
                                        wild |-> FALSE, last |-> FALSE])
       /\ sq' = [sq EXCEPT ![q].head = Next1(@)]
       /\ LET b == [busy EXCEPT !.at = q + 1, !.updated = @ + 1,
                                !.total = @ + 1]
          IN  busy' =
                CASE b.class = "admin" -> [b EXCEPT !.at = 0]
                  [] b.class = "high" /\ b.updated = WRRHigh ->
                       [b EXCEPT !.at = 1, !.class = "medium", !.updated = 0]
                  [] b.class = "medium" /\ b.updated = WRRMedium ->
                       [b EXCEPT !.at = 1, !.class = "low", !.updated = 0]
                  [] b.class = "low" ->
                       [b EXCEPT !.at = NumSQ + 1, !.updated = @ - 1]
                  [] OTHER -> b
  /\ UNCHANGED <<setup, status, chain, lSQFIFO, requestCounter, cq, working,
                 answers, host, panic>>

\* The loop after the one that ended, or "end".
NextClass ==
  CASE busy.class \in {"all", "urgent"} /\ busy.updated > 0 -> busy.class
    [] busy.class = "admin"  -> "urgent"
    [] busy.class = "urgent" -> "high"
    [] busy.class = "high"   -> "medium"
    [] busy.class = "medium" -> "low"
    [] busy.class = "low" /\ busy.total > 0 -> "high"
    [] OTHER -> "end"

(***************************************************************************)
(* A loop has looked at every queue.  When the last one ends with commands *)
(* under way, the main loop goes on after their DMA, else at once.         *)
(***************************************************************************)
ScanLoopEnd ==
  /\ In("scan")
  /\ \A q \in busy.at .. NumSQ : ~(Waiting(q) /\ InClass(busy.class, q))
  /\ IF NextClass # "end"
     THEN /\ busy' = [busy EXCEPT
                        !.class = NextClass,
                        !.at = IF NextClass = "all" THEN 0 ELSE 1,
                        !.updated = IF busy.class \in {"all", "admin", "urgent"}
                                    THEN 0 ELSE @,
                        !.total = IF busy.class \in {"urgent", "low"}
                                  THEN 0 ELSE @]
          /\ UNCHANGED <<chain, fetching>>
     ELSE /\ busy' = Idle
          /\ IF fetching = <<>>
             THEN chain' = "work" /\ UNCHANGED fetching
             ELSE /\ fetching' = [fetching EXCEPT ![Len(fetching)].last = TRUE]
                  /\ UNCHANGED chain
  /\ UNCHANGED <<setup, status, lSQFIFO, requestCounter, sq, cq, working,
                 answers, host, panic>>

(***************************************************************************)
(* The DMA read of a command is done (doRead in checkQueue).  The callback *)
(* uses the SQueue object, which may have been deleted.                    *)
(***************************************************************************)
FetchDone ==
  /\ In("idle") /\ fetching # <<>>
  /\ LET f == Head(fetching)
     IN  /\ fetching' = Tail(fetching)
         /\ IF f.wild THEN panic' = "use after free" /\ UNCHANGED lSQFIFO
            ELSE /\ lSQFIFO' = Append(lSQFIFO, [sq |-> f.sq, cq |-> f.cq,
                                                cid |-> sqMem[f.sq][f.slot]])
                 /\ UNCHANGED panic
         /\ chain' = IF f.last THEN "work" ELSE chain
  /\ UNCHANGED <<setup, status, requestCounter, sq, cq, working, answers, busy,
                 host>>

(***************************************************************************)
(* queueFunction in work(): a reserved shutdown is carried out here.       *)
(***************************************************************************)
queueFunction ==
  /\ In("idle") /\ chain = "work"
  /\ chain' = "handle"
  /\ requestCounter' = 0
  /\ IF status = "shutting" THEN status' = "shut down" /\ lSQFIFO' = <<>>
     ELSE UNCHANGED <<status, lSQFIFO>>
  /\ UNCHANGED <<setup, fetching, sq, cq, working, answers, busy, host, panic>>

\* Mutant: the main loop goes on only while there are commands.
StopWhenEmpty(rest, n) ==
  CASE rest # <<>> /\ n < MaxRequest -> "request"
    [] rest = <<>> /\ n = 1 -> "none"
    [] OTHER -> "event"

\* Where the main loop goes after the n-th command: requestEvent or workEvent.
AfterRequest(rest, n) ==
  IF rest # <<>> /\ n < MaxRequest THEN "request" ELSE "event"

\* A command passed on; made: its answer is on the way.
Passed(f) == [sq |-> f.sq, cq |-> f.cq, cid |-> f.cid, made |-> FALSE]

handleRequest ==
  /\ In("idle") /\ chain \in {"handle", "request"}
  /\ LET rest == IF lSQFIFO = <<>> THEN <<>> ELSE Tail(lSQFIFO)
     IN  /\ lSQFIFO' = rest
         /\ working' = IF lSQFIFO = <<>> THEN working
                       ELSE working \cup {Passed(Head(lSQFIFO))}
         /\ requestCounter' = requestCounter + 1
         /\ chain' = AfterRequest(rest, requestCounter + 1)
  /\ UNCHANGED <<setup, status, fetching, sq, cq, answers, busy, host, panic>>

-----------------------------------------------------------------------------
(***************************************************************************)
(* Controller::submit for the answers es.                                  *)
(***************************************************************************)
Answer(w, ok) == [cq |-> w.cq, cid |-> w.cid, ok |-> ok]

submit(es) ==
  IF \E i \in DOMAIN es : cq[es[i].cq] = NoQueue
  THEN panic' = "Completion Queue not created" /\ UNCHANGED answers
  ELSE /\ lCQFIFO' = lCQFIFO \o es
       /\ completionEvent' = Now
       /\ UNCHANGED <<agg, batches, panic>>

\* The answer to an I/O command, or to a create command whose queue exists.
Respond(w) ==
  /\ In("idle")
  /\ cmds[w.cid].op = "io" \/ w.made
  /\ working' = working \ {w}
  /\ submit(<<Answer(w, TRUE)>>)
  /\ UNCHANGED <<setup, loop, sq, cq, busy, host>>

(***************************************************************************)
(* The admin commands.  A create command that fails is never answered.     *)
(***************************************************************************)
Made(w) == (working \ {w}) \cup {[w EXCEPT !.made = TRUE]}

createSQueue(w) ==
  LET c == cmds[w.cid]
  IN  /\ In("idle") /\ c.op = "createSQ" /\ ~w.made
      /\ IF sq[c.x] = NoQueue /\ cq[c.y] # NoQueue
         THEN /\ sq' = [sq EXCEPT ![c.x] = SQueue(c.y, "medium")]
              /\ working' = Made(w)
         ELSE working' = working \ {w} /\ UNCHANGED sq
      /\ UNCHANGED <<setup, loop, cq, answers, busy, host, panic>>

createCQueue(w) ==
  LET c == cmds[w.cid]
  IN  /\ In("idle") /\ c.op = "createCQ" /\ ~w.made
      /\ IF cq[c.x] = NoQueue
         THEN /\ cq' = [cq EXCEPT ![c.x] = CQueue]
              /\ agg' = [agg EXCEPT ![c.x] = NoAggregation]
              /\ working' = Made(w)
         ELSE working' = working \ {w} /\ UNCHANGED <<cq, agg>>
      /\ UNCHANGED <<setup, loop, sq, lCQFIFO, completionEvent, batches, busy,
                     host, panic>>

\* The submission queues whose completion queue deleteCQueue looks at: its
\* loop ends at the number of completion queues.
LookedAt == {q \in 1 .. NumCQ : q \in SQID /\ sq[q] # NoQueue}

SQsOf(c) == {q \in LookedAt : sq[q].cq = c}

deleteCQueue(w) ==
  LET c == cmds[w.cid]
      ok == cq[c.x] # NoQueue /\ SQsOf(c.x) = {}
  IN  /\ In("idle") /\ c.op = "deleteCQ"
      /\ cq' = IF ok THEN [cq EXCEPT ![c.x] = NoQueue] ELSE cq
      /\ working' = working \ {w}
      /\ submit(<<Answer(w, ok)>>)
      /\ UNCHANGED <<setup, loop, sq, busy, host>>

(***************************************************************************)
(* deleteSQueue: the loop over lSQFIFO aborts commands of the queue.       *)
(* Erasing a command moves the iterator to the one behind it, and then the *)
(* loop moves it once more; moved from the end of the list it comes back   *)
(* to its beginning (std::list of libstdc++).                              *)
(***************************************************************************)
StartDeleteSQueue(w) ==
  LET c == cmds[w.cid]
  IN  /\ In("idle") /\ c.op = "deleteSQ"
      /\ working' = working \ {w}
      /\ IF sq[c.x] # NoQueue
         THEN /\ busy' = [pc |-> "delete", q |-> c.x, at |-> 1, w |-> w]
              /\ UNCHANGED <<answers, panic>>
         ELSE submit(<<Answer(w, FALSE)>>) /\ UNCHANGED busy
      /\ UNCHANGED <<setup, loop, sq, cq, host>>

\* The position the iterator has after the command at i is erased, where n
\* commands are left.
AfterErase(i, n) == IF i <= n THEN i + 1 ELSE 1

Erased(i) == RemoveAt(lSQFIFO, i)

DeleteSQueueLoop ==
  /\ In("delete") /\ busy.at <= Len(lSQFIFO)
  /\ LET f == lSQFIFO[busy.at]
     IN  IF f.sq = busy.q
         THEN /\ submit(<<Answer(f, FALSE)>>)
              /\ lSQFIFO' = Erased(busy.at)
              /\ busy' = [busy EXCEPT !.at = AfterErase(@, Len(lSQFIFO) - 1)]
         ELSE /\ busy' = [busy EXCEPT !.at = @ + 1]
              /\ UNCHANGED <<lSQFIFO, answers, panic>>
  /\ UNCHANGED <<setup, status, chain, fetching, requestCounter, sq, cq,
                 working, host>>

EndDeleteSQueue ==
  /\ In("delete") /\ busy.at > Len(lSQFIFO)
  /\ sq' = [sq EXCEPT ![busy.q] = NoQueue]
  /\ fetching' = [i \in DOMAIN fetching |->
                    IF fetching[i].sq = busy.q
                    THEN [fetching[i] EXCEPT !.wild = TRUE] ELSE fetching[i]]
  /\ submit(<<Answer(busy.w, TRUE)>>)
  /\ busy' = Idle
  /\ UNCHANGED <<setup, status, chain, lSQFIFO, requestCounter, cq, working,
                 host>>

(***************************************************************************)
(* abort: the command is answered if it still is in lSQFIFO.               *)
(***************************************************************************)
abort(w) ==
  LET c == cmds[w.cid]
      at == {i \in DOMAIN lSQFIFO : lSQFIFO[i].cid = c.x}
  IN  /\ In("idle") /\ c.op = "abort"
      /\ working' = working \ {w}
      /\ IF at = {} THEN submit(<<Answer(w, TRUE)>>) /\ UNCHANGED lSQFIFO
         ELSE LET i == CHOOSE i \in at : \A j \in at : i <= j
              IN  IF sq[lSQFIFO[i].sq] = NoQueue
                  THEN panic' = "null queue" /\ UNCHANGED <<lSQFIFO, answers>>
                  ELSE /\ submit(<<Answer(lSQFIFO[i], FALSE),
                                   Answer(w, TRUE)>>)
                       /\ lSQFIFO' = Erased(i)
      /\ UNCHANGED <<setup, status, chain, fetching, requestCounter, sq, cq,
                     busy, host>>

setCoalescing(w) ==
  LET c == cmds[w.cid]
  IN  /\ In("idle") /\ c.op \in {"coalesce", "decoalesce"}
      /\ working' = working \ {w}
      /\ agg' = IF cq[c.x] = NoQueue THEN agg
                ELSE [agg EXCEPT ![c.x] = [NoAggregation EXCEPT
                                             !.valid = c.op = "coalesce"]]
      /\ lCQFIFO' = Append(lCQFIFO, Answer(w, TRUE))
      /\ completionEvent' = Now
      /\ UNCHANGED <<setup, loop, sq, cq, batches, busy, host, panic>>

-----------------------------------------------------------------------------
(***************************************************************************)
(* completion(): every answer gets its slot in its completion queue and a  *)
(* DMA write, and it is settled which vectors will interrupt.              *)
(***************************************************************************)
StartCompletion ==
  /\ In("idle") /\ completionEvent = Now
  /\ completionEvent' = Off
  /\ busy' = [pc |-> "post", entries |-> <<>>, ivs |-> {}]
  /\ UNCHANGED <<setup, loop, sq, cq, working, lCQFIFO, agg, batches, host,
                 panic>>

\* Is the interrupt for an answer of queue c held back?
Held(c) ==
  /\ c > 0 /\ agg[c].valid /\ agg[c].open
  /\ agg[c].count + 1 <= AggregationThreshold

Counted(c) ==
  IF c = 0 \/ ~agg[c].valid THEN agg[c]
  ELSE IF Held(c)
  THEN [agg[c] EXCEPT !.count = @ + 1, !.pending = TRUE]
  ELSE [agg[c] EXCEPT !.count = 0, !.open = AggregationTime]

\* CQueue::setData: the phase of the queue once its tail has moved on.
PhaseAfter(q) == IF Next1(q.tail) = 0 THEN ~q.phase ELSE q.phase

PostEntry ==
  /\ In("post") /\ lCQFIFO # <<>>
  /\ LET e == Head(lCQFIFO)
         q == cq[e.cq]
     IN  IF q = NoQueue
         THEN /\ panic' = "null queue"
              /\ UNCHANGED <<cq, lCQFIFO, agg, busy>>
         ELSE /\ lCQFIFO' = Tail(lCQFIFO)
              /\ cq' = [cq EXCEPT ![e.cq].tail = Next1(@),
                                  ![e.cq].phase = PhaseAfter(q)]
              /\ panic' = IF Next1(q.tail) = q.head
                          THEN "Completion queue overflow" ELSE panic
              /\ agg' = [agg EXCEPT ![e.cq] = Counted(e.cq)]
              /\ busy' = [busy EXCEPT
                   !.entries = Append(@, [cq |-> e.cq, slot |-> q.tail,
                                          data |-> [cid |-> e.cid, ok |-> e.ok,
                                                    phase |-> q.phase]]),
                   !.ivs = IF Held(e.cq) THEN @ ELSE @ \cup {e.cq}]
  /\ UNCHANGED <<setup, loop, sq, working, completionEvent, batches, host>>

\* Vectors whose aggregation time is over.
Overdue == {c \in CQID : agg[c].valid /\ agg[c].pending /\ ~agg[c].open}

EndCompletion ==
  /\ In("post") /\ lCQFIFO = <<>>
  /\ agg' = [c \in CQID |->
               IF c \in Overdue
               THEN [agg[c] EXCEPT !.open = AggregationTime, !.count = 0,
                                   !.pending = FALSE]
               ELSE agg[c]]
  /\ batches' = IF busy.entries = <<>> THEN batches
                ELSE Append(batches, [entries |-> busy.entries,
                                      ivs |-> busy.ivs \cup Overdue])
  /\ busy' = Idle
  /\ UNCHANGED <<setup, loop, sq, cq, working, lCQFIFO, completionEvent, host,
                 panic>>

\* The next DMA write is done.
WriteDone ==
  /\ In("idle")
  /\ \E i \in DOMAIN batches :
       /\ batches[i].entries # <<>>
       /\ \A j \in 1 .. i - 1 : batches[j].entries = <<>>
       /\ LET e == Head(batches[i].entries)
          IN  cqMem' = [cqMem EXCEPT ![e.cq][e.slot] = e.data]
       /\ batches' = [batches EXCEPT ![i].entries = Tail(@)]
  /\ UNCHANGED <<setup, loop, sq, cq, working, lCQFIFO, completionEvent, agg,
                 busy, cmds, answered, upSQ, upCQ, sqMem, cqHead, cqPhase,
                 panic>>

-----------------------------------------------------------------------------
(***************************************************************************)
(* The host at an interrupt of vector c (Driver::updateInterrupt): it      *)
(* takes the answers whose phase is right, in order, and rings the         *)
(* doorbell (ringCQHeadDoorbell).                                          *)
(***************************************************************************)
SlotAt(c, j) == (cqHead[c] + j) % QueueSize

\* Mutant: the host expects the same phase after the queue has wrapped.
PhaseKept(c, j) == cqPhase[c]

PhaseAt(c, j) == IF cqHead[c] + j < QueueSize THEN cqPhase[c] ELSE ~cqPhase[c]

NumNew(c) ==
  CHOOSE n \in 0 .. QueueSize :
    /\ \A j \in 0 .. n - 1 : cqMem[c][SlotAt(c, j)].phase = PhaseAt(c, j)
    /\ n < QueueSize => cqMem[c][SlotAt(c, n)].phase # PhaseAt(c, n)

Taken(ivs) ==
  {cqMem[c][SlotAt(c, j)] : <<c, j>> \in
     {p \in ivs \X (0 .. QueueSize - 1) : p[2] < NumNew(p[1])}}

\* Mutant: reserveCompletion looks at lCQFIFO only.
ReserveForAnswers ==
  IF lCQFIFO # <<>> THEN completionEvent' = Now ELSE UNCHANGED completionEvent

\* reserveCompletion: answers that wait, or the aggregation time of a vector.
reserveCompletion ==
  LET held == {c \in CQID : agg[c].valid /\ agg[c].pending}
  IN  CASE lCQFIFO # <<>> \/ Overdue # {} -> completionEvent' = Now
        [] lCQFIFO = <<>> /\ Overdue = {} /\ held # {} ->
             \E c \in held : completionEvent' = c
        [] OTHER -> UNCHANGED completionEvent

\* All writes of a batch are done: its interrupts are sent (send).
SendInterrupts(i) ==
  LET ivs == batches[i].ivs
      new == {e \in Taken(ivs) : e.cid \in Pending}
      ids == {e.cid : e \in new}
  IN  /\ In("idle") /\ batches[i].entries = <<>>
      /\ batches' = RemoveAt(batches, i)
      /\ panic' = IF new = Taken(ivs) THEN panic ELSE "Invalid interrupt"
      /\ answered' = answered \cup ids
      /\ upSQ' = upSQ \cup {cmds[k].x : k \in {k \in ids :
                                                cmds[k].op = "createSQ"}}
      /\ upCQ' = upCQ \cup {cmds[e.cid].x : e \in {e \in new :
                   \/ cmds[e.cid].op = "createCQ"
                   \/ cmds[e.cid].op = "deleteCQ" /\ ~e.ok}}
      /\ cqHead' = [c \in CQID |-> IF c \in ivs THEN SlotAt(c, NumNew(c))
                                   ELSE cqHead[c]]
      /\ cqPhase' = [c \in CQID |-> IF c \in ivs THEN PhaseAt(c, NumNew(c))
                                    ELSE cqPhase[c]]
      /\ cq' = [c \in CQID |->
                  IF c \in ivs /\ cq[c] # NoQueue /\ NumNew(c) > 0
                  THEN [cq[c] EXCEPT !.head = SlotAt(c, NumNew(c))]
                  ELSE cq[c]]
      /\ reserveCompletion
      /\ UNCHANGED <<setup, loop, sq, working, lCQFIFO, agg, busy, cmds, sqMem,
                     cqMem>>

\* The aggregation time of vector c is over.
AggregationTimeOver(c) ==
  /\ In("idle") /\ agg[c].open
  /\ agg' = [agg EXCEPT ![c].open = FALSE]
  /\ completionEvent' = IF completionEvent = c THEN Now ELSE completionEvent
  /\ UNCHANGED <<setup, loop, sq, cq, working, lCQFIFO, batches, busy, host,
                 panic>>

-----------------------------------------------------------------------------
Execute(w) ==
  \/ Respond(w) \/ createSQueue(w) \/ createCQueue(w) \/ deleteCQueue(w)
  \/ StartDeleteSQueue(w) \/ abort(w) \/ setCoalescing(w)

Host ==
  \/ \E c \in Commands : Submit(c)
  \/ ShutdownController \/ DisableController

MainLoop ==
  \/ EnableController \/ work \/ ScanFetch \/ ScanLoopEnd \/ FetchDone
  \/ queueFunction \/ handleRequest

Completing ==
  \/ StartCompletion \/ PostEntry \/ EndCompletion
  \/ DeleteSQueueLoop \/ EndDeleteSQueue

Next ==
  \/ Host
  \/ MainLoop
  \/ Completing
  \/ \E w \in working : Execute(w)
  \/ WriteDone
  \/ \E i \in DOMAIN batches : SendInterrupts(i)
  \/ \E c \in CQID : AggregationTimeOver(c)

Spec == Init /\ [][Next]_vars

(***************************************************************************)
(* Every event of the engine fires, every DMA and every firmware call ends *)
(* and every command passed on is answered.  The fairness is strong as the *)
(* loops of a handler, one call in the code, are steps of the model during *)
(* which nothing else is enabled.                                          *)
(***************************************************************************)
Fairness ==
  /\ SF_vars(MainLoop)
  /\ SF_vars(Completing)
  /\ SF_vars(WriteDone)
  /\ SF_vars(\E w \in working : Execute(w))
  /\ SF_vars(\E i \in DOMAIN batches : SendInterrupts(i))

FairSpec == Spec /\ Fairness

-----------------------------------------------------------------------------
(***************************************************************************)
(* The program never ends in a panic or in undefined behaviour: no answer  *)
(* for a queue that is gone, no overflow of a completion queue, no use of  *)
(* a deleted queue, unless the host deletes a busy queue; and never does   *)
(* the driver get an answer it does not expect ("Invalid interrupt"), a    *)
(* second one, say, whatever is deleted and aborted.                       *)
(***************************************************************************)
NeverPanics ==
  /\ panic # "Invalid interrupt"
  /\ DeleteBusy \/ panic = "no"

(***************************************************************************)
(* Where command k is: in its submission queue, being read, in lSQFIFO,    *)
(* passed on, in lCQFIFO, being written, or in its completion queue.       *)
(***************************************************************************)
Distance(a, b) == (b - a + QueueSize) % QueueSize

InRing(q, s) ==
  sq[q] # NoQueue /\ Distance(sq[q].head, s) < Distance(sq[q].head, sq[q].tail)

Locations(k) ==
  LET ring == {p \in SQID \X Slot :
                 InRing(p[1], p[2]) /\ sqMem[p[1]][p[2]] = k}
      read == {i \in DOMAIN fetching :
                 sqMem[fetching[i].sq][fetching[i].slot] = k}
      writes == {p \in (DOMAIN batches) \X (1 .. MaxCommands) :
                   /\ p[2] \in DOMAIN batches[p[1]].entries
                   /\ batches[p[1]].entries[p[2]].data.cid = k}
      posted == IF busy.pc # "post" THEN {}
                ELSE {i \in DOMAIN busy.entries : busy.entries[i].data.cid = k}
      new == {p \in CQID \X Slot :
                p[2] < NumNew(p[1]) /\ cqMem[p[1]][SlotAt(p[1], p[2])].cid = k}
  IN  {<<"submission queue", p>> : p \in ring}
      \cup {<<"read", <<i>> >> : i \in read}
      \cup {<<"lSQFIFO", <<i>> >> :
              i \in {i \in DOMAIN lSQFIFO : lSQFIFO[i].cid = k}}
      \cup {<<"working", <<w.sq, w.cq>> >> : w \in {w \in working : w.cid = k}}
      \cup {<<"delete", <<>> >> : b \in {b \in {busy} :
              b.pc = "delete" /\ b.w.cid = k}}
      \cup {<<"lCQFIFO", <<i>> >> :
              i \in {i \in DOMAIN lCQFIFO : lCQFIFO[i].cid = k}}
      \cup {<<"post", <<i>> >> : i \in posted}
      \cup {<<"write", p>> : p \in writes}
      \cup {<<"completion queue", p>> : p \in new}

(***************************************************************************)
(* A command without an answer is in exactly one place, and an answered    *)
(* one is nowhere: the DMA transfers, the phase bits and the two FIFOs     *)
(* neither lose nor duplicate a command or its answer.                     *)
(***************************************************************************)
NoCommandLost ==
  ~DeleteBusy /\ panic = "no" =>
    \A k \in 1 .. Len(cmds) :
      Cardinality(Locations(k)) = IF k \in answered THEN 0 ELSE 1

(***************************************************************************)
(* As long as a completion queue holds answers, an interrupt for it is on  *)
(* the way (without interrupt coalescing): completion() never leaves the   *)
(* host with answers it is not told of.  While coalescing holds one back,  *)
(* completion() will run again: its event is scheduled, or the interrupts  *)
(* of a batch are still to be sent, which schedules it.  (With one vector; *)
(* see the README for two.)                                                *)
(***************************************************************************)
InterruptOwed ==
  /\ panic = "no" /\ "coalesce" \notin Operations =>
       \A c \in CQID :
         (cq[c] # NoQueue /\ cq[c].head # cq[c].tail) =>
           \/ \E i \in DOMAIN batches : c \in batches[i].ivs
           \/ busy.pc = "post" /\ c \in busy.ivs
  /\ (\E c \in CQID : agg[c].valid /\ agg[c].pending) =>
       completionEvent # Off \/ batches # <<>> \/ busy.pc = "post"

(***************************************************************************)
(* Once deleteSQueue has aborted all commands of a queue and deleted it,   *)
(* none of them is left in lSQFIFO.                                        *)
(***************************************************************************)
DeletedQueuesDrained ==
  \A i \in DOMAIN lSQFIFO : sq[lSQFIFO[i].sq] # NoQueue

(***************************************************************************)
(* Every command of the host is answered, unless the host shuts down or    *)
(* disables the controller.                                                *)
(***************************************************************************)
AllAnswered ==
  \A k \in 1 .. Max({h.commands : h \in Hosts}) :
    (k <= Len(cmds)) ~> (k \in answered \/ status \notin {"off", "ready"})

(***************************************************************************)
(* A shutdown completes, and after a shutdown or a reset of CC.EN the main *)
(* loop stops for good, although handleRequest schedules work() again.     *)
(***************************************************************************)
ShutdownStops ==
  (status \in {"shutting", "disabled"}) ~>
    [](status # "shutting" /\ chain = "none")
=============================================================================
