-------------------------------- MODULE SATA --------------------------------
(***************************************************************************)
(* The AHCI host adapter (hil/sata/hba.cc) and the SATA device behind it   *)
(* (hil/sata/device.cc).  The host issues commands in slots by writing     *)
(* PxSACT and PxCI; the adapter fetches them one by one; the device works  *)
(* on all of them at once and answers with FISes (frames), which the       *)
(* adapter writes to the host one after the other, each followed by an     *)
(* interrupt that the host clears by writing PxIS.                         *)
(*                                                                         *)
(* The host (its driver is not part of the repository) follows AHCI: its   *)
(* interrupt handler clears IS, then PxIS, then looks at PxCI and PxSACT;  *)
(* a slot is free when neither has its bit; queued and other commands are  *)
(* never mixed; the port is stopped and the adapter reset only when idle.  *)
(*                                                                         *)
(* The host leaves slot 0 alone: answers for which the device names no     *)
(* slot (DMA setup, device bits) clear bit 0 of PxCI, so a command in slot *)
(* 0 can look completed while it runs.                                     *)
(***************************************************************************)
EXTENDS Integers, Sequences, FiniteSets

CONSTANTS
  Slots,         \* the command slots the host uses
  Kinds,         \* the kinds of commands the host issues
  MaxCommands,   \* commands of a run                        (bounds a run)
  MaxResets      \* resets of the adapter in a run           (bounds a run)

Queued == {"readNCQ", "writeNCQ"}
AllKinds == Queued \cup {"readDMA", "writeDMA", "flushCache", "identifyDevice",
                         "setMode", "readVerify", "unknown"}

ASSUME SATAAssumption ==
  /\ Slots \subseteq Nat \ {0}
  /\ Kinds \subseteq AllKinds
  /\ MaxCommands \in Nat /\ MaxResets \in Nat

VARIABLES
  phase,           \* what the host has done: "off", "reset" or "ready"
  irqEnabled,      \* HOST_IRQ_EN of GHC
  deviceInited,    \* the device has seen COMRESET
  chain,           \* the adapter's event: "none", "work" or "request"
  commandIssue,    \* PxCI, as a set of slots
  active,          \* PxSACT
  portStatus,      \* PxIS, as a set of causes
  hostStatus,      \* the port's bit of IS
  line,            \* the interrupt line
  lRequestQueue,   \* slots to fetch
  lResponseQueue,  \* answers to deliver
  fisDMA,          \* the writes of answers under way: the causes to set
  jobs,            \* what the device is working on: <<slot, step>>
  command,         \* the host's command of a slot
  isr,             \* the step of the host's interrupt handler
  issued, resets   \* counted for the bounds

vars == <<phase, irqEnabled, deviceInited, chain, commandIssue, active,
          portStatus, hostStatus, line, lRequestQueue, lResponseQueue, fisDMA,
          jobs, command, isr, issued, resets>>

answers == <<active, lResponseQueue, fisDMA>>
registers == <<portStatus, hostStatus, line>>
host == <<phase, irqEnabled, command, isr, issued, resets>>

\* A command with what was done for it: the flash was read, written or
\* flushed; data went to or came from the host's memory.
Free == [kind |-> "none", nand |-> FALSE, moved |-> FALSE]
New(kind) == [Free EXCEPT !.kind = kind]

Init ==
  /\ phase = "off" /\ irqEnabled = FALSE /\ deviceInited = FALSE
  /\ chain = "none"
  /\ commandIssue = {} /\ active = {}
  /\ portStatus = {} /\ hostStatus = FALSE /\ line = FALSE
  /\ lRequestQueue = <<>> /\ lResponseQueue = <<>> /\ fisDMA = <<>>
  /\ jobs = {}
  /\ command = [s \in Slots |-> Free]
  /\ isr = "idle"
  /\ issued = 0 /\ resets = 0

-----------------------------------------------------------------------------
(***************************************************************************)
(* A Completion: the slot whose PxCI bit its delivery clears (0 when the   *)
(* device names none), the slot it is about, its causes of interrupt, and  *)
(* whether writeDMASetup is called once the host has taken it.             *)
(***************************************************************************)
Completion(slot, of, causes, setup) ==
  [slotIndex |-> slot, of |-> of, maskIS |-> causes, setup |-> setup]

RegD2H(s, causes) == Completion(s, s, causes \cup {"D2H"}, FALSE)
DmaSetup(s) == Completion(0, s, {"DMAS"}, FALSE)
DevBits(s) == Completion(0, s, {"SDB"}, FALSE)

Answers == [active |-> active, queue |-> lResponseQueue, dma |-> fisDMA]

(***************************************************************************)
(* handleResponse writes the FIS at the front of the queue.                *)
(***************************************************************************)
handleResponse(a) == [a EXCEPT !.dma = Append(@, Head(a.queue).maskIS)]

\* Mutant: a frame with device bits clears all of PxSACT.
ClearAllBits(a, resp) ==
  handleResponse([a EXCEPT !.active = IF "SDB" \in resp.maskIS THEN {} ELSE @,
                           !.queue = Append(@, resp)])

(***************************************************************************)
(* submitFIS: device bits clear the slot's bit of PxSACT at once.          *)
(***************************************************************************)
submitFIS(a, resp) ==
  handleResponse(
    [a EXCEPT !.active = IF "SDB" \in resp.maskIS THEN @ \ {resp.of} ELSE @,
              !.queue = Append(@, resp)])

Become(a) ==
  active' = a.active /\ lResponseQueue' = a.queue /\ fisDMA' = a.dma

(***************************************************************************)
(* doCompletion: an answer has reached the host's memory.                  *)
(***************************************************************************)
FISWritten ==
  /\ fisDMA # <<>>
  /\ fisDMA' = Tail(fisDMA)
  /\ portStatus' = portStatus \cup Head(fisDMA)
  /\ hostStatus' = TRUE
  /\ line' = (line \/ irqEnabled \/ "signal" \in Head(fisDMA))
  /\ UNCHANGED <<deviceInited, chain, commandIssue, active, lRequestQueue,
                 lResponseQueue, jobs, host>>

\* Mutant: the next answer is not written.
PopOnly(a) == [a EXCEPT !.queue = Tail(@)]

(***************************************************************************)
(* The front is taken off; the next answer, if any, is written.            *)
(***************************************************************************)
PopResponse(a) ==
  LET rest == [a EXCEPT !.queue = Tail(@)]
  IN  IF rest.queue = <<>> THEN rest ELSE handleResponse(rest)

(***************************************************************************)
(* The host writes PxIS.  Any write clears all causes used here, as the    *)
(* code also masks with 0x037FFF50; then interruptCleared.                 *)
(***************************************************************************)
WritePortStatus ==
  /\ isr = "port"
  /\ isr' = "scan"
  /\ portStatus' = {}
  /\ IF lResponseQueue = <<>>
     THEN UNCHANGED <<line, commandIssue, answers, jobs>>
     ELSE LET front  == Head(lResponseQueue)
              popped == PopResponse(Answers)
          IN  /\ line' = FALSE
              /\ commandIssue' = commandIssue \ {front.slotIndex}
              /\ IF front.setup
                 THEN /\ Become(submitFIS(popped, DmaSetup(front.of)))
                      /\ jobs' = jobs \cup {<<front.of, "prdtRead">>}
                 ELSE /\ Become(popped)
                      /\ UNCHANGED jobs
  /\ UNCHANGED <<phase, irqEnabled, deviceInited, chain, hostStatus,
                 lRequestQueue, command, issued, resets>>

-----------------------------------------------------------------------------
(***************************************************************************)
(* work() and handleRequest(): one slot is fetched, and the next round is  *)
(* soon when more wait.  (requestCounter is never increased.)              *)
(***************************************************************************)
handleRequest ==
  /\ chain # "none" /\ lRequestQueue # <<>>
  /\ jobs' = jobs \cup {<<Head(lRequestQueue), "header">>}
  /\ lRequestQueue' = Tail(lRequestQueue)
  /\ chain' = IF Len(lRequestQueue) > 1 THEN "request" ELSE "work"
  /\ UNCHANGED <<deviceInited, commandIssue, registers, answers, host>>

(***************************************************************************)
(* What the device starts when command FIS and PRDT are read (doRequest).  *)
(***************************************************************************)
FirstSteps(kind) ==
  CASE kind \in {"readDMA", "flushCache"} -> {"nand"}
    [] kind = "readNCQ"        -> {"nand", "scheduled"}
    [] kind = "writeNCQ"       -> {"scheduled"}
    [] kind = "writeDMA"       -> {"prdtRead"}
    [] kind = "identifyDevice" -> {"prdtWrite"}
    [] OTHER                   -> {}

(***************************************************************************)
(* The commands that are answered within doRequest.                        *)
(***************************************************************************)
Immediate(s, kind) ==
  CASE kind = "unknown"    -> {RegD2H(s, {"TF_ERR"})}
    [] kind = "setMode"    -> {RegD2H(s, {})}
    [] kind = "readVerify" -> {RegD2H(s, {}), RegD2H(s, {"TF_ERR"})}

doRequest(s) ==
  LET kind == command[s].kind
  IN  IF FirstSteps(kind) = {}
      THEN \E resp \in Immediate(s, kind) : /\ Become(submitFIS(Answers, resp))
                                            /\ jobs' = jobs \ {<<s, "fis">>,
                                                               <<s, "prdt">>}
      ELSE /\ jobs' = (jobs \ {<<s, "fis">>, <<s, "prdt">>})
                        \cup ({s} \X FirstSteps(kind))
           /\ UNCHANGED answers

(***************************************************************************)
(* The command header is read: submitCommand reads the command FIS and the *)
(* PRDT; the command starts when both have come.                           *)
(***************************************************************************)
HeaderRead(s) ==
  /\ <<s, "header">> \in jobs
  /\ jobs' = (jobs \ {<<s, "header">>}) \cup {<<s, "fis">>, <<s, "prdt">>}
  /\ UNCHANGED <<answers, command>>

TableRead(s, part, other) ==
  /\ <<s, part>> \in jobs
  /\ IF <<s, other>> \in jobs
     THEN jobs' = jobs \ {<<s, part>>} /\ UNCHANGED answers
     ELSE doRequest(s)
  /\ UNCHANGED command

(***************************************************************************)
(* The D2H frame that says a queued command is scheduled.  That of a write *)
(* starts the transfer once the host has taken it.                         *)
(***************************************************************************)
SendScheduled(s) ==
  /\ <<s, "scheduled">> \in jobs
  /\ jobs' = jobs \ {<<s, "scheduled">>}
  /\ Become(submitFIS(Answers,
              [RegD2H(s, {}) EXCEPT !.setup = command[s].kind = "writeNCQ"]))
  /\ UNCHANGED command

(***************************************************************************)
(* prdtRead: the data of a write has come from the host.                   *)
(***************************************************************************)
DataRead(s) ==
  /\ <<s, "prdtRead">> \in jobs
  /\ jobs' = (jobs \ {<<s, "prdtRead">>}) \cup {<<s, "nand">>}
  /\ command' = [command EXCEPT ![s].moved = TRUE]
  /\ UNCHANGED answers

(***************************************************************************)
(* The HIL is done: a read goes on with the transfer (a queued one first   *)
(* announces it), a write or flush is answered.  The CPU job that sends    *)
(* the "scheduled" frame of a queued read is queued before every job the   *)
(* read goes through after its first, so it ends before the read does.     *)
(***************************************************************************)
NandDone(s) ==
  LET kind == command[s].kind
      rest == jobs \ {<<s, "nand">>}
  IN  /\ <<s, "nand">> \in jobs /\ <<s, "scheduled">> \notin jobs
      /\ command' = [command EXCEPT ![s].nand = TRUE]
      /\ jobs' = IF kind \in {"readDMA", "readNCQ"}
                 THEN rest \cup {<<s, "prdtWrite">>} ELSE rest
      /\ CASE kind = "readDMA"    -> UNCHANGED answers
           [] kind = "readNCQ"    -> Become(submitFIS(Answers, DmaSetup(s)))
           [] kind = "writeNCQ"   -> Become(submitFIS(Answers, DevBits(s)))
           [] kind = "writeDMA"   ->
                Become(submitFIS(Answers, RegD2H(s, {"SG_DONE"})))
           [] kind = "flushCache" -> Become(submitFIS(Answers, RegD2H(s, {})))

(***************************************************************************)
(* prdtWrite: the data of a read or of identify is in the host's memory.   *)
(***************************************************************************)
DataWritten(s) ==
  /\ <<s, "prdtWrite">> \in jobs
  /\ jobs' = jobs \ {<<s, "prdtWrite">>}
  /\ command' = [command EXCEPT ![s].moved = TRUE]
  /\ Become(submitFIS(Answers, IF command[s].kind = "readNCQ" THEN DevBits(s)
                               ELSE RegD2H(s, {"SG_DONE"})))

DeviceWorks ==
  /\ \E s \in Slots :
       \/ HeaderRead(s)
       \/ TableRead(s, "fis", "prdt") \/ TableRead(s, "prdt", "fis")
       \/ SendScheduled(s) \/ DataRead(s) \/ NandDone(s) \/ DataWritten(s)
  /\ UNCHANGED <<phase, irqEnabled, deviceInited, chain, commandIssue,
                 registers, lRequestQueue, isr, issued, resets>>

-----------------------------------------------------------------------------
(***************************************************************************)
(* The host.  PxSCTL: the first COMRESET makes the device send its         *)
(* signature; submitSignal writes that frame itself and raises the         *)
(* interrupt whether interrupts are enabled or not.                        *)
(***************************************************************************)
Comreset ==
  LET signal == Completion(0, 0, {"TF_ERR", "D2H", "signal"}, FALSE)
  IN  /\ phase = "off" /\ ~deviceInited
      /\ phase' = "reset"
      /\ deviceInited' = TRUE
      /\ Become([Answers EXCEPT !.queue = Append(@, signal),
                                !.dma = Append(@, signal.maskIS)])
      /\ UNCHANGED <<irqEnabled, chain, commandIssue, registers,
                     lRequestQueue, jobs, command, isr, issued, resets>>

Idle == \A s \in Slots : command[s] = Free

(***************************************************************************)
(* PxCMD: starting schedules work() unless the loop is running; stopping   *)
(* deschedules work(), but not the event that continues a round.           *)
(***************************************************************************)
StartPort ==
  /\ phase = "ready" /\ ~irqEnabled
  /\ irqEnabled' = TRUE
  /\ chain' = IF chain = "none" THEN "work" ELSE chain
  /\ UNCHANGED <<phase, deviceInited, commandIssue, registers, answers,
                 lRequestQueue, jobs, command, isr, issued, resets>>

(***************************************************************************)
(* The host stops the port and resets the adapter (HBA::init).             *)
(***************************************************************************)
ResetAdapter ==
  /\ phase = "ready" /\ Idle /\ isr = "idle" /\ resets < MaxResets
  /\ phase' = "off"
  /\ irqEnabled' = FALSE /\ hostStatus' = FALSE /\ deviceInited' = FALSE
  /\ chain' = IF chain = "work" THEN "none" ELSE chain
  /\ resets' = resets + 1
  /\ UNCHANGED <<commandIssue, portStatus, line, answers, lRequestQueue, jobs,
                 command, isr, issued>>

(***************************************************************************)
(* PxSACT and PxCI: processCommand queues the slots whose bit is new.      *)
(***************************************************************************)
Issue(s, kind) ==
  /\ phase = "ready" /\ irqEnabled /\ issued < MaxCommands
  /\ command[s] = Free
  /\ \A o \in Slots : command[o] = Free \/
                      (command[o].kind \in Queued <=> kind \in Queued)
  /\ command' = [command EXCEPT ![s] = New(kind)]
  /\ active' = IF kind \in Queued THEN active \cup {s} ELSE active
  /\ commandIssue' = commandIssue \cup {s}
  /\ lRequestQueue' = IF s \in commandIssue THEN lRequestQueue
                      ELSE Append(lRequestQueue, s)
  /\ issued' = issued + 1
  /\ UNCHANGED <<phase, irqEnabled, deviceInited, chain, registers,
                 lResponseQueue, fisDMA, jobs, isr, resets>>

(***************************************************************************)
(* The interrupt handler clears IS, then PxIS (WritePortStatus), then      *)
(* completes the commands that have neither bit.                           *)
(***************************************************************************)
EnterHandler ==
  /\ isr = "idle" /\ line
  /\ isr' = "port"
  /\ hostStatus' = FALSE
  /\ UNCHANGED <<phase, irqEnabled, deviceInited, chain, commandIssue, answers,
                 portStatus, line, lRequestQueue, jobs, command, issued,
                 resets>>

SeenDone(s) ==
  command[s] # Free /\ s \notin commandIssue /\ s \notin active

LeaveHandler ==
  /\ isr = "scan"
  /\ isr' = "idle"
  /\ phase' = IF phase = "reset" THEN "ready" ELSE phase
  /\ command' = [s \in Slots |-> IF SeenDone(s) THEN Free ELSE command[s]]
  /\ UNCHANGED <<irqEnabled, deviceInited, chain, commandIssue, registers,
                 answers, lRequestQueue, jobs, issued, resets>>

-----------------------------------------------------------------------------
Handler == EnterHandler \/ WritePortStatus \/ LeaveHandler

Next ==
  \/ FISWritten \/ handleRequest \/ DeviceWorks \/ Handler
  \/ Comreset \/ StartPort \/ ResetAdapter
  \/ \E s \in Slots, k \in Kinds : Issue(s, k)

Spec == Init /\ [][Next]_vars

(***************************************************************************)
(* Events fire, transfers and flash operations end, and the host serves    *)
(* its interrupts.  A run has finitely many commands, so no step of the    *)
(* device can be put off by others for ever.  (The handler needs fairness  *)
(* of its own: the line stays up when an interrupt comes for a queue that  *)
(* is empty by then, and the host enters its handler again and again.)     *)
(***************************************************************************)
FairSpec ==
  /\ Spec
  /\ WF_vars(FISWritten) /\ WF_vars(handleRequest) /\ WF_vars(DeviceWorks)
  /\ WF_vars(Handler)

-----------------------------------------------------------------------------
(***************************************************************************)
(* When the registers say that a command is done, it is: a write is in     *)
(* flash and its data was taken from the host before, a read has moved     *)
(* what flash delivered, and the device works on nothing for the slot.     *)
(***************************************************************************)
DoneMeansDone ==
  \A s \in Slots : SeenDone(s) =>
    LET kind == command[s].kind
    IN  /\ kind \in Queued \cup {"readDMA", "writeDMA"} =>
             command[s].nand /\ command[s].moved
        /\ kind = "flushCache" => command[s].nand
        /\ kind = "identifyDevice" => command[s].moved
        /\ \A j \in jobs : j[1] # s

(***************************************************************************)
(* Every command the host issues is completed to it.                       *)
(***************************************************************************)
AllCompleted == <>[](issued > 0 => Idle)
=============================================================================
