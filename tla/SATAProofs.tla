----------------------------- MODULE SATAProofs -----------------------------
(***************************************************************************)
(* The registers of the AHCI adapter never say too early that a command is *)
(* done, for every number of slots and commands.  What makes this          *)
(* inductive is an account of where a command can be at all: waiting to be *)
(* fetched, at one step of its work in the device, or answered by a frame  *)
(* that the host has not taken yet.                                        *)
(***************************************************************************)
EXTENDS SATA, TLAPS

StepName == {"header", "fis", "prdt", "scheduled", "prdtRead", "nand",
             "prdtWrite"}
Frame == [slotIndex : Slots \cup {0}, of : Slots \cup {0},
          maskIS : SUBSET {"D2H", "DMAS", "SDB", "TF_ERR", "SG_DONE", "signal"},
          setup : BOOLEAN]

SATATypes ==
  /\ command \in [Slots -> [kind : AllKinds \cup {"none"},
                            nand : BOOLEAN, moved : BOOLEAN]]
  /\ lRequestQueue \in Seq(Slots)
  /\ lResponseQueue \in Seq(Frame)
  /\ jobs \subseteq Slots \X StepName
  /\ commandIssue \subseteq Slots
  /\ active \subseteq Slots

(***************************************************************************)
(* Where the command of slot s is: waiting to be fetched, at step p, or    *)
(* answered by a frame that will clear its bit of PxCI.                    *)
(***************************************************************************)
Pending(s) == \E i \in 1 .. Len(lRequestQueue) : lRequestQueue[i] = s
On(s, p) == <<s, p>> \in jobs
Framed(s) == \E i \in 1 .. Len(lResponseQueue) : lResponseQueue[i].slotIndex = s

Early(s) == Pending(s) \/ On(s, "header") \/ On(s, "fis") \/ On(s, "prdt")
Moving(s) == On(s, "prdtRead") \/ On(s, "nand") \/ On(s, "prdtWrite")
Work(s) == Early(s) \/ On(s, "scheduled") \/ Moving(s)

(***************************************************************************)
(* A slot is fetched once and its bit of PxCI is cleared by one frame; a   *)
(* frame that starts a transfer is that of a queued write.                 *)
(***************************************************************************)
QueuesApart ==
  /\ \A i, j \in 1 .. Len(lRequestQueue) :
       lRequestQueue[i] = lRequestQueue[j] => i = j
  /\ \A i, j \in 1 .. Len(lResponseQueue) :
       /\ lResponseQueue[i].slotIndex = lResponseQueue[j].slotIndex
       /\ lResponseQueue[i].slotIndex # 0
       => i = j
  /\ \A i \in 1 .. Len(lResponseQueue) : lResponseQueue[i].setup =>
       /\ lResponseQueue[i].slotIndex = lResponseQueue[i].of
       /\ lResponseQueue[i].of \in Slots
       /\ command[lResponseQueue[i].of].kind = "writeNCQ"

(***************************************************************************)
(* A command is in one place only, except that the frame that says it is   *)
(* scheduled and the flash access of a queued read go on side by side.     *)
(***************************************************************************)
OnePlace(s) ==
  /\ Pending(s) => \A p \in StepName : ~On(s, p)
  /\ On(s, "header") => \A p \in StepName \ {"header"} : ~On(s, p)
  /\ On(s, "fis") \/ On(s, "prdt") => ~On(s, "scheduled") /\ ~Moving(s)
  /\ On(s, "prdtRead") => ~On(s, "nand") /\ ~On(s, "prdtWrite")
  /\ On(s, "nand") => ~On(s, "prdtWrite")
  /\ On(s, "scheduled") =>
       /\ ~On(s, "prdtRead") /\ ~On(s, "prdtWrite")
       /\ command[s].kind = "writeNCQ" => ~On(s, "nand")
  /\ Framed(s) =>
       /\ ~Early(s) /\ ~On(s, "scheduled")
       /\ command[s].kind # "readNCQ" => ~Moving(s)

(***************************************************************************)
(* A command goes only through the steps of its kind.                      *)
(***************************************************************************)
StepsOfKind(s) ==
  LET kind == command[s].kind
  IN  /\ On(s, "scheduled") => kind \in Queued
      /\ On(s, "prdtRead") => kind \in {"writeNCQ", "writeDMA"}
      /\ On(s, "nand") => kind \in Queued \cup {"readDMA", "writeDMA",
                                                "flushCache"}
      /\ On(s, "prdtWrite") => kind \in {"readNCQ", "readDMA",
                                         "identifyDevice"}
      /\ On(s, "nand") /\ kind \in {"writeNCQ", "writeDMA"} => command[s].moved
      /\ On(s, "prdtWrite") /\ kind \in {"readNCQ", "readDMA"} =>
           command[s].nand

(***************************************************************************)
(* Everything the command asks for has happened.                           *)
(***************************************************************************)
Finished(c) ==
  /\ c.kind \in Queued \cup {"readDMA", "writeDMA"} => c.nand /\ c.moved
  /\ c.kind = "flushCache" => c.nand
  /\ c.kind = "identifyDevice" => c.moved

(***************************************************************************)
(* What the bits of PxCI and PxSACT say of the slot.                       *)
(***************************************************************************)
BitsTrue(s) ==
  /\ s \notin commandIssue => ~Early(s) /\ ~On(s, "scheduled") /\ ~Framed(s)
  /\ command[s].kind \in Queued =>
       /\ Work(s) => s \in active
       /\ Framed(s) /\ command[s].kind = "writeNCQ" => s \in active
       /\ s \notin active => Finished(command[s])
  /\ command[s].kind \notin Queued =>
       /\ s \notin active
       /\ Work(s) => s \in commandIssue
       /\ Framed(s) \/ s \notin commandIssue => Finished(command[s])
  /\ command[s].kind = "none" =>
       /\ command[s] = Free
       /\ ~Work(s) /\ ~Framed(s) /\ s \notin commandIssue

SlotInv(s) == OnePlace(s) /\ StepsOfKind(s) /\ BitsTrue(s)

SATAInv == SATATypes /\ QueuesApart /\ \A s \in Slots : SlotInv(s)

-----------------------------------------------------------------------------
(***************************************************************************)
(* Nothing is known of a slot but where its command is, what was done for  *)
(* it and its two bits: when these stay, so does its invariant.            *)
(***************************************************************************)
LEMMA SlotUntouched ==
  ASSUME NEW s \in Slots, SlotInv(s), command'[s] = command[s],
         Pending(s)' <=> Pending(s), Framed(s)' <=> Framed(s),
         \A p \in StepName : On(s, p)' <=> On(s, p),
         s \in commandIssue' <=> s \in commandIssue,
         s \in active' <=> s \in active
  PROVE  SlotInv(s)'
<1>1. OnePlace(s)'
  BY DEF SlotInv, OnePlace, Early, Moving, StepName
<1>2. StepsOfKind(s)'
  BY DEF SlotInv, StepsOfKind, StepName
<1>3. BitsTrue(s)'
  BY DEF SlotInv, BitsTrue, Work, Early, Moving, StepName, Finished
<1> QED BY <1>1, <1>2, <1>3 DEF SlotInv

(***************************************************************************)
(* What submitFIS does to the queue of answers and to PxSACT.              *)
(***************************************************************************)
LEMMA SubmitFISLemma ==
  ASSUME SATATypes, NEW resp \in Frame, Become(submitFIS(Answers, resp))
  PROVE  /\ lResponseQueue' = Append(lResponseQueue, resp)
         /\ active' = IF "SDB" \in resp.maskIS THEN active \ {resp.of}
                      ELSE active
BY DEF Become, submitFIS, handleResponse, Answers

(***************************************************************************)
(* A frame that is queued names its slot; the others keep theirs.          *)
(***************************************************************************)
LEMMA AppendFrame ==
  ASSUME SATATypes, NEW resp \in Frame,
         lResponseQueue' = Append(lResponseQueue, resp)
  PROVE  /\ lResponseQueue' \in Seq(Frame)
         /\ \A s \in Slots :
              Framed(s)' <=> (Framed(s) \/ resp.slotIndex = s)
<1>1. lResponseQueue \in Seq(Frame)
  BY DEF SATATypes
<1>2. /\ lResponseQueue' \in Seq(Frame)
      /\ Len(lResponseQueue') = Len(lResponseQueue) + 1
      /\ lResponseQueue'[Len(lResponseQueue) + 1] = resp
      /\ \A i \in 1 .. Len(lResponseQueue) :
           lResponseQueue'[i] = lResponseQueue[i]
  BY <1>1
<1>3. Len(lResponseQueue) \in Nat
  BY <1>1
<1>4. ASSUME NEW s \in Slots
      PROVE  Framed(s)' <=> (Framed(s) \/ resp.slotIndex = s)
  BY <1>2, <1>3 DEF Framed
<1> QED BY <1>2, <1>4

(***************************************************************************)
(* A response is put behind the others.                                    *)
(***************************************************************************)
LEMMA AppendApart ==
  ASSUME SATATypes, QueuesApart, NEW resp \in Frame,
         lResponseQueue' = Append(lResponseQueue, resp),
         resp.slotIndex # 0 => ~Framed(resp.slotIndex),
         resp.setup => /\ resp.slotIndex = resp.of /\ resp.of \in Slots
                       /\ command[resp.of].kind = "writeNCQ",
         \A s \in Slots : command'[s].kind = command[s].kind,
         UNCHANGED lRequestQueue
  PROVE  QueuesApart'
<1>1. lResponseQueue \in Seq(Frame)
  BY DEF SATATypes
<1>2. /\ Len(lResponseQueue') = Len(lResponseQueue) + 1
      /\ lResponseQueue'[Len(lResponseQueue) + 1] = resp
      /\ \A i \in 1 .. Len(lResponseQueue) :
           lResponseQueue'[i] = lResponseQueue[i]
      /\ Len(lResponseQueue) \in Nat
  BY <1>1
<1>3. ASSUME NEW i \in 1 .. Len(lResponseQueue'),
             NEW j \in 1 .. Len(lResponseQueue'),
             lResponseQueue'[i].slotIndex = lResponseQueue'[j].slotIndex,
             lResponseQueue'[i].slotIndex # 0
      PROVE  i = j
  <2>1. CASE i \in 1 .. Len(lResponseQueue) /\ j \in 1 .. Len(lResponseQueue)
    BY <1>2, <1>3, <2>1 DEF QueuesApart
  <2>2. CASE ~(i \in 1 .. Len(lResponseQueue))
    BY <1>2, <1>3, <2>2 DEF Framed
  <2>3. CASE ~(j \in 1 .. Len(lResponseQueue))
    BY <1>2, <1>3, <2>3 DEF Framed
  <2> QED BY <2>1, <2>2, <2>3
<1>4. ASSUME NEW i \in 1 .. Len(lResponseQueue'), lResponseQueue'[i].setup
      PROVE  /\ lResponseQueue'[i].slotIndex = lResponseQueue'[i].of
             /\ lResponseQueue'[i].of \in Slots
             /\ command'[lResponseQueue'[i].of].kind = "writeNCQ"
  <2>1. CASE i \in 1 .. Len(lResponseQueue)
    BY <1>2, <1>4, <2>1 DEF QueuesApart
  <2>2. CASE i = Len(lResponseQueue) + 1
    BY <1>2, <1>4, <2>2
  <2> QED BY <1>2, <2>1, <2>2
<1>5. \A i, j \in 1 .. Len(lRequestQueue') :
        lRequestQueue'[i] = lRequestQueue'[j] => i = j
  BY DEF QueuesApart
<1> QED BY <1>3, <1>4, <1>5 DEF QueuesApart

(***************************************************************************)
(* The frames of the device are frames.                                    *)
(***************************************************************************)
LEMMA RegisterFrame ==
  ASSUME NEW s \in Slots, NEW causes, causes \subseteq {"TF_ERR", "SG_DONE"}
  PROVE  /\ RegD2H(s, causes) \in Frame
         /\ RegD2H(s, causes).slotIndex = s
         /\ RegD2H(s, causes).of = s
         /\ "SDB" \notin RegD2H(s, causes).maskIS
         /\ RegD2H(s, causes).setup = FALSE
BY DEF RegD2H, Completion, Frame

(***************************************************************************)
(* The frames of a queued command's transfer name no slot in PxCI.         *)
(***************************************************************************)
LEMMA TransferFrames ==
  ASSUME NEW s \in Slots
  PROVE  /\ DmaSetup(s) \in Frame /\ DmaSetup(s).slotIndex = 0
         /\ "SDB" \notin DmaSetup(s).maskIS /\ ~DmaSetup(s).setup
         /\ DevBits(s) \in Frame /\ DevBits(s).slotIndex = 0
         /\ DevBits(s).of = s
         /\ "SDB" \in DevBits(s).maskIS /\ ~DevBits(s).setup
BY DEF DmaSetup, DevBits, Completion, Frame

-----------------------------------------------------------------------------
(***************************************************************************)
(* The steps of the device on one slot.  jobs changes for this slot only.  *)
(***************************************************************************)
LEMMA HeaderReadKeeps ==
  ASSUME SATAInv, NEW s \in Slots, HeaderRead(s),
         UNCHANGED <<lRequestQueue, commandIssue>>
  PROVE  SATAInv'
<1> USE DEF SATAInv
<1>1. UNCHANGED <<lRequestQueue, lResponseQueue, active, command, commandIssue>>
  BY DEF HeaderRead, answers
<1>2. /\ On(s, "header")
      /\ jobs' = (jobs \ {<<s, "header">>}) \cup {<<s, "fis">>, <<s, "prdt">>}
  BY DEF HeaderRead, On
<1>3. SATATypes'
  BY <1>1, <1>2 DEF SATATypes, StepName
<1>4. QueuesApart'
  BY <1>1 DEF QueuesApart
<1>5. \A t \in Slots : (Pending(t)' <=> Pending(t)) /\ (Framed(t)' <=> Framed(t))
  BY <1>1 DEF Pending, Framed
<1>6. ASSUME NEW t \in Slots PROVE SlotInv(t)'
  <2>1. CASE t # s
    <3>1. \A p \in StepName : On(t, p)' <=> On(t, p)
      BY <1>2, <2>1 DEF On
    <3> QED BY <1>1, <1>5, <3>1, SlotUntouched
  <2>2. CASE t = s
    <3>1. /\ ~On(s, "header")' /\ On(s, "fis")' /\ On(s, "prdt")'
          /\ \A p \in StepName \ {"header", "fis", "prdt"} :
               ~On(s, p)' /\ ~On(s, p)
      BY <1>2 DEF On, SlotInv, OnePlace, StepName
    <3>2. OnePlace(s)'
      BY <1>1, <1>2, <1>5, <3>1
      DEF SlotInv, OnePlace, Early, Moving, StepName
    <3>3. StepsOfKind(s)'
      BY <3>1 DEF StepsOfKind, StepName
    <3>4. BitsTrue(s)'
      BY <1>1, <1>2, <1>5, <3>1
      DEF SlotInv, BitsTrue, Work, Early, Moving, StepName, Finished
    <3> QED BY <2>2, <3>2, <3>3, <3>4 DEF SlotInv
  <2> QED BY <2>1, <2>2
<1> QED BY <1>3, <1>4, <1>6

(***************************************************************************)
(* A part of the command table has come and the other has not.             *)
(***************************************************************************)
LEMMA FirstPartKeeps ==
  ASSUME SATAInv, NEW s \in Slots, NEW part \in {"fis", "prdt"},
         NEW other \in {"fis", "prdt"}, part # other,
         On(s, other), jobs' = jobs \ {<<s, part>>},
         UNCHANGED <<answers, command, lRequestQueue, commandIssue>>
  PROVE  SATAInv'
<1> USE DEF SATAInv
<1>1. UNCHANGED <<lRequestQueue, lResponseQueue, active, command, commandIssue>>
  BY DEF answers
<1>3. SATATypes'
  BY <1>1 DEF SATATypes, StepName
<1>4. QueuesApart'
  BY <1>1 DEF QueuesApart
<1>5. \A t \in Slots : (Pending(t)' <=> Pending(t)) /\ (Framed(t)' <=> Framed(t))
  BY <1>1 DEF Pending, Framed
<1>6. ASSUME NEW t \in Slots PROVE SlotInv(t)'
  <2>1. CASE t # s
    <3>1. \A p \in StepName : On(t, p)' <=> On(t, p)
      BY <2>1 DEF On
    <3> QED BY <1>1, <1>5, <3>1, SlotUntouched
  <2>2. CASE t = s
    <3>1. /\ ~On(s, part)' /\ On(s, other)'
          /\ \A p \in StepName \ {"fis", "prdt"} : On(s, p)' <=> On(s, p)
      BY DEF On, StepName
    <3>2. OnePlace(s)'
      BY <1>1, <1>5, <3>1
      DEF SlotInv, OnePlace, Early, Moving, StepName
    <3>3. StepsOfKind(s)'
      BY <1>1, <3>1 DEF SlotInv, StepsOfKind, StepName
    <3>4. BitsTrue(s)'
      BY <1>1, <1>5, <3>1
      DEF SlotInv, BitsTrue, Work, Early, Moving, StepName, Finished
    <3> QED BY <2>2, <3>2, <3>3, <3>4 DEF SlotInv
  <2> QED BY <2>1, <2>2
<1> QED BY <1>3, <1>4, <1>6

(***************************************************************************)
(* The device starts a command it cannot answer at once.                   *)
(***************************************************************************)
LEMMA StartedKeeps ==
  ASSUME SATAInv, NEW s \in Slots, On(s, "fis") \/ On(s, "prdt"),
         jobs' = (jobs \ {<<s, "fis">>, <<s, "prdt">>})
                   \cup ({s} \X FirstSteps(command[s].kind)),
         FirstSteps(command[s].kind) # {},
         UNCHANGED <<answers, command, lRequestQueue, commandIssue>>
  PROVE  SATAInv'
<1> DEFINE kind == command[s].kind
<1> USE DEF SATAInv
<1>1. UNCHANGED <<lRequestQueue, lResponseQueue, active, command, commandIssue>>
  BY DEF answers
<1>2. /\ FirstSteps(kind) \subseteq {"nand", "scheduled", "prdtRead", "prdtWrite"}
      /\ "nand" \in FirstSteps(kind) <=>
           kind \in {"readDMA", "flushCache", "readNCQ"}
      /\ "scheduled" \in FirstSteps(kind) <=> kind \in Queued
      /\ "prdtRead" \in FirstSteps(kind) <=> kind = "writeDMA"
      /\ "prdtWrite" \in FirstSteps(kind) <=> kind = "identifyDevice"
  BY DEF FirstSteps, Queued
<1>3. SATATypes'
  BY <1>1, <1>2 DEF SATATypes, StepName
<1>4. QueuesApart'
  BY <1>1 DEF QueuesApart
<1>5. \A t \in Slots : (Pending(t)' <=> Pending(t)) /\ (Framed(t)' <=> Framed(t))
  BY <1>1 DEF Pending, Framed
<1>6. ASSUME NEW t \in Slots PROVE SlotInv(t)'
  <2>1. CASE t # s
    <3>1. \A p \in StepName : On(t, p)' <=> On(t, p)
      BY <2>1 DEF On
    <3> QED BY <1>1, <1>5, <3>1, SlotUntouched
  <2>2. CASE t = s
    <3>1. /\ ~On(s, "fis")' /\ ~On(s, "prdt")' /\ ~On(s, "header")'
          /\ On(s, "nand")' <=> kind \in {"readDMA", "flushCache", "readNCQ"}
          /\ On(s, "scheduled")' <=> kind \in Queued
          /\ On(s, "prdtRead")' <=> kind = "writeDMA"
          /\ On(s, "prdtWrite")' <=> kind = "identifyDevice"
      BY <1>2 DEF On, SlotInv, OnePlace, StepName, Moving
    <3>2. ~Pending(s) /\ ~Framed(s)
      BY DEF SlotInv, OnePlace, StepName, Early
    <3>3. /\ s \in commandIssue /\ kind # "none"
          /\ kind \in Queued => s \in active
          /\ kind \notin Queued => s \notin active
      BY DEF SlotInv, BitsTrue, Work, Early
    <3>4. OnePlace(s)'
      BY <1>1, <1>5, <3>1, <3>2
      DEF OnePlace, Early, Moving, StepName, Queued
    <3>5. StepsOfKind(s)'
      BY <1>1, <3>1 DEF StepsOfKind, StepName, Queued
    <3>6. BitsTrue(s)'
      BY <1>1, <1>5, <3>1, <3>2, <3>3
      DEF BitsTrue, Work, Early, Moving, StepName, Queued, Finished
    <3> QED BY <2>2, <3>4, <3>5, <3>6 DEF SlotInv
  <2> QED BY <2>1, <2>2
<1> QED BY <1>3, <1>4, <1>6

(***************************************************************************)
(* A command that is answered within doRequest.                            *)
(***************************************************************************)
LEMMA ImmediateKeeps ==
  ASSUME SATAInv, NEW s \in Slots, On(s, "fis") \/ On(s, "prdt"),
         FirstSteps(command[s].kind) = {},
         NEW resp \in Immediate(s, command[s].kind),
         Become(submitFIS(Answers, resp)),
         jobs' = jobs \ {<<s, "fis">>, <<s, "prdt">>},
         UNCHANGED <<command, lRequestQueue, commandIssue>>
  PROVE  SATAInv'
<1> DEFINE kind == command[s].kind
<1> USE DEF SATAInv
<1>1. /\ ~Pending(s) /\ ~Framed(s) /\ s \in commandIssue /\ kind # "none"
      /\ kind \notin Queued => s \notin active
  BY DEF SlotInv, OnePlace, BitsTrue, Work, Early, StepName
<1>2. kind \in AllKinds \cup {"none"}
  BY DEF SATATypes
<1>3. kind \in {"unknown", "setMode", "readVerify"}
  <2>1. {"nand"} # {} /\ {"nand", "scheduled"} # {} /\ {"scheduled"} # {}
        /\ {"prdtRead"} # {} /\ {"prdtWrite"} # {}
    OBVIOUS
  <2> QED BY <1>1, <1>2, <2>1 DEF FirstSteps, AllKinds, Queued
<1>4. resp \in {RegD2H(s, {}), RegD2H(s, {"TF_ERR"})}
  BY <1>3 DEF Immediate
<1>5. resp \in Frame /\ resp.slotIndex = s /\ ~resp.setup
      /\ "SDB" \notin resp.maskIS
  <2>1. CASE resp = RegD2H(s, {})
    BY <2>1, RegisterFrame
  <2>2. CASE resp = RegD2H(s, {"TF_ERR"})
    <3>1. {"TF_ERR"} \subseteq {"TF_ERR", "SG_DONE"}
      OBVIOUS
    <3> QED BY <2>2, <3>1, RegisterFrame
  <2> QED BY <1>4, <2>1, <2>2
<1>6. lResponseQueue' = Append(lResponseQueue, resp) /\ active' = active
  BY <1>5, SubmitFISLemma
<1>7. /\ lResponseQueue' \in Seq(Frame)
      /\ \A t \in Slots : Framed(t)' <=> (Framed(t) \/ t = s)
  BY <1>5, <1>6, AppendFrame
<1>8. SATATypes'
  BY <1>6, <1>7 DEF SATATypes
<1>9. QueuesApart'
  BY <1>1, <1>5, <1>6, AppendApart
<1>10. \A t \in Slots : Pending(t)' <=> Pending(t)
  BY DEF Pending
<1>11. ASSUME NEW t \in Slots PROVE SlotInv(t)'
  <2>1. CASE t # s
    <3>1. \A p \in StepName : On(t, p)' <=> On(t, p)
      BY <2>1 DEF On
    <3> QED BY <1>6, <1>7, <1>10, <2>1, <3>1, SlotUntouched
  <2>2. CASE t = s
    <3>1. \A p \in StepName : ~On(s, p)'
      BY DEF On, SlotInv, OnePlace, StepName, Moving
    <3>2. OnePlace(s)' /\ StepsOfKind(s)'
      BY <1>1, <1>10, <3>1
      DEF OnePlace, StepsOfKind, Early, Moving, StepName
    <3>3. BitsTrue(s)'
      BY <1>1, <1>3, <1>6, <1>10, <3>1
      DEF BitsTrue, Work, Early, Moving, StepName, Queued, Finished
    <3> QED BY <2>2, <3>2, <3>3 DEF SlotInv
  <2> QED BY <2>1, <2>2
<1> QED BY <1>8, <1>9, <1>11

(***************************************************************************)
(* The steps of a command until its answer: tables read, the answer sent,  *)
(* data read, the flash done, data written.                                *)
(***************************************************************************)
LEMMA TableReadKeeps ==
  ASSUME SATAInv, NEW s \in Slots, NEW part \in {"fis", "prdt"},
         NEW other \in {"fis", "prdt"}, part # other,
         TableRead(s, part, other), UNCHANGED <<lRequestQueue, commandIssue>>
  PROVE  SATAInv'
<1>1. /\ On(s, "fis") \/ On(s, "prdt")
      /\ UNCHANGED command
  BY DEF TableRead, On
<1>2. CASE <<s, other>> \in jobs
  BY <1>1, <1>2, FirstPartKeeps DEF TableRead, On
<1>3. CASE <<s, other>> \notin jobs
  <2>1. doRequest(s)
    BY <1>3 DEF TableRead
  <2>2. CASE FirstSteps(command[s].kind) = {}
    BY <1>1, <2>1, <2>2, ImmediateKeeps DEF doRequest
  <2>3. CASE FirstSteps(command[s].kind) # {}
    BY <1>1, <2>1, <2>3, StartedKeeps DEF doRequest
  <2> QED BY <2>2, <2>3
<1> QED BY <1>2, <1>3

LEMMA SendScheduledKeeps ==
  ASSUME SATAInv, NEW s \in Slots, SendScheduled(s),
         UNCHANGED <<lRequestQueue, commandIssue>>
  PROVE  SATAInv'
<1> DEFINE kind == command[s].kind
           resp == [RegD2H(s, {}) EXCEPT !.setup = command[s].kind = "writeNCQ"]
<1> USE DEF SATAInv
<1>1. /\ On(s, "scheduled") /\ UNCHANGED command
      /\ jobs' = jobs \ {<<s, "scheduled">>}
      /\ Become(submitFIS(Answers, resp))
  BY DEF SendScheduled, On
<1>2. /\ ~Early(s) /\ ~Framed(s) /\ s \in commandIssue /\ kind \in Queued
      /\ s \in active
      /\ ~On(s, "prdtRead") /\ ~On(s, "prdtWrite")
      /\ kind = "writeNCQ" => ~On(s, "nand")
  BY <1>1 DEF SlotInv, OnePlace, StepsOfKind, BitsTrue, Work, Early, Moving,
              StepName
<1>3. /\ resp \in Frame /\ resp.slotIndex = s /\ resp.of = s
      /\ resp.setup <=> kind = "writeNCQ"
      /\ "SDB" \notin resp.maskIS
  <2>1. (command[s].kind = "writeNCQ") \in BOOLEAN
    OBVIOUS
  <2>2. RegD2H(s, {}) \in Frame
    BY RegisterFrame
  <2>3. resp \in Frame
    BY <2>1, <2>2 DEF Frame
  <2> QED BY <2>2, <2>3, RegisterFrame DEF Frame
<1> HIDE DEF resp
<1>4. lResponseQueue' = Append(lResponseQueue, resp) /\ active' = active
  BY <1>1, <1>3, SubmitFISLemma
<1>5. /\ lResponseQueue' \in Seq(Frame)
      /\ \A t \in Slots : Framed(t)' <=> (Framed(t) \/ t = s)
  BY <1>3, <1>4, AppendFrame
<1>6. SATATypes'
  BY <1>1, <1>4, <1>5 DEF SATATypes
<1>7. QueuesApart'
  BY <1>1, <1>2, <1>3, <1>4, AppendApart
<1>8. \A t \in Slots : Pending(t)' <=> Pending(t)
  BY DEF Pending
<1>9. ASSUME NEW t \in Slots PROVE SlotInv(t)'
  <2>1. CASE t # s
    <3>1. \A p \in StepName : On(t, p)' <=> On(t, p)
      BY <1>1, <2>1 DEF On
    <3> QED BY <1>1, <1>4, <1>5, <1>8, <2>1, <3>1, SlotUntouched
  <2>2. CASE t = s
    <3>1. /\ ~On(s, "scheduled")'
          /\ \A p \in StepName \ {"scheduled"} : On(s, p)' <=> On(s, p)
      BY <1>1 DEF On, StepName
    <3>2. ~Early(s)' /\ (Moving(s)' <=> On(s, "nand"))
      BY <1>2, <1>8, <3>1 DEF Early, Moving, StepName
    <3>3. OnePlace(s)'
      BY <1>1, <1>2, <3>1, <3>2
      DEF OnePlace, Early, Moving, StepName, Queued
    <3>4. StepsOfKind(s)'
      BY <1>1, <3>1 DEF SlotInv, StepsOfKind, StepName
    <3>5. BitsTrue(s)'
      BY <1>1, <1>2, <1>4, <3>1, <3>2
      DEF BitsTrue, Work, Queued
    <3> QED BY <2>2, <3>3, <3>4, <3>5 DEF SlotInv
  <2> QED BY <2>1, <2>2
<1> QED BY <1>6, <1>7, <1>9

LEMMA DataReadKeeps ==
  ASSUME SATAInv, NEW s \in Slots, DataRead(s),
         UNCHANGED <<lRequestQueue, commandIssue>>
  PROVE  SATAInv'
<1> DEFINE kind == command[s].kind
<1> USE DEF SATAInv
<1>1. /\ On(s, "prdtRead")
      /\ jobs' = (jobs \ {<<s, "prdtRead">>}) \cup {<<s, "nand">>}
      /\ command' = [command EXCEPT ![s].moved = TRUE]
      /\ UNCHANGED <<active, lResponseQueue>>
  BY DEF DataRead, On, answers
<1>2. /\ ~Early(s) /\ ~Framed(s) /\ kind \in {"writeNCQ", "writeDMA"}
      /\ ~On(s, "nand") /\ ~On(s, "prdtWrite") /\ ~On(s, "scheduled")
      /\ kind = "writeNCQ" => s \in active
      /\ kind = "writeDMA" => s \in commandIssue /\ s \notin active
  BY <1>1 DEF SlotInv, OnePlace, StepsOfKind, BitsTrue, Work, Early, Moving,
              StepName, Queued
<1>3. /\ command' \in [Slots -> [kind : AllKinds \cup {"none"},
                                 nand : BOOLEAN, moved : BOOLEAN]]
      /\ \A t \in Slots : command'[t].kind = command[t].kind
      /\ \A t \in Slots \ {s} : command'[t] = command[t]
      /\ command'[s].moved
  BY <1>1 DEF SATATypes
<1>4. SATATypes'
  BY <1>1, <1>3 DEF SATATypes, StepName
<1>5. QueuesApart'
  BY <1>1, <1>3 DEF QueuesApart
<1>6. \A t \in Slots : (Pending(t)' <=> Pending(t)) /\ (Framed(t)' <=> Framed(t))
  BY <1>1 DEF Pending, Framed
<1>7. ASSUME NEW t \in Slots PROVE SlotInv(t)'
  <2>1. CASE t # s
    <3>1. \A p \in StepName : On(t, p)' <=> On(t, p)
      BY <1>1, <2>1 DEF On
    <3> QED BY <1>1, <1>3, <1>6, <2>1, <3>1, SlotUntouched
  <2>2. CASE t = s
    <3>1. /\ ~On(s, "prdtRead")' /\ On(s, "nand")'
          /\ \A p \in StepName \ {"prdtRead", "nand"} : On(s, p)' <=> On(s, p)
      BY <1>1 DEF On, StepName
    <3>2. ~Early(s)' /\ ~On(s, "scheduled")' /\ ~On(s, "prdtWrite")'
      BY <1>2, <1>6, <3>1 DEF Early, StepName
    <3>3. OnePlace(s)'
      BY <1>2, <1>6, <3>1, <3>2 DEF OnePlace, Early
    <3>4. StepsOfKind(s)'
      BY <1>2, <1>3, <3>1, <3>2 DEF StepsOfKind, Queued
    <3>5. BitsTrue(s)'
      BY <1>1, <1>2, <1>3, <1>6, <3>1, <3>2
      DEF BitsTrue, Queued
    <3> QED BY <2>2, <3>3, <3>4, <3>5 DEF SlotInv
  <2> QED BY <2>1, <2>2
<1> QED BY <1>4, <1>5, <1>7

(***************************************************************************)
(* The flash of a read is done: the transfer starts.                       *)
(***************************************************************************)
LEMMA NandReadKeeps ==
  ASSUME SATAInv, NEW s \in Slots, NandDone(s),
         command[s].kind \in {"readDMA", "readNCQ"},
         UNCHANGED <<lRequestQueue, commandIssue>>
  PROVE  SATAInv'
<1> DEFINE kind == command[s].kind
<1> USE DEF SATAInv
<1>1. /\ On(s, "nand") /\ ~On(s, "scheduled")
      /\ jobs' = (jobs \ {<<s, "nand">>}) \cup {<<s, "prdtWrite">>}
      /\ command' = [command EXCEPT ![s].nand = TRUE]
      /\ kind = "readDMA" => UNCHANGED <<active, lResponseQueue>>
      /\ kind = "readNCQ" => Become(submitFIS(Answers, DmaSetup(s)))
  BY DEF NandDone, On, answers
<1>2. /\ ~Early(s) /\ ~On(s, "prdtWrite") /\ ~On(s, "prdtRead")
      /\ kind = "readDMA" => ~Framed(s) /\ s \in commandIssue /\ s \notin active
      /\ kind = "readNCQ" => s \in active
  BY <1>1 DEF SlotInv, OnePlace, BitsTrue, Work, Early, Moving, StepName, Queued
<1>3. /\ command' \in [Slots -> [kind : AllKinds \cup {"none"},
                                 nand : BOOLEAN, moved : BOOLEAN]]
      /\ \A t \in Slots : command'[t].kind = command[t].kind
      /\ \A t \in Slots \ {s} : command'[t] = command[t]
      /\ command'[s].nand
  BY <1>1 DEF SATATypes
<1>4. /\ active' = active /\ lResponseQueue' \in Seq(Frame) /\ QueuesApart'
      /\ \A t \in Slots : Framed(t)' <=> Framed(t)
  <2>1. CASE kind = "readDMA"
    BY <1>1, <1>3, <2>1 DEF SATATypes, QueuesApart, Framed
  <2>2. CASE kind = "readNCQ"
    <3>1. /\ DmaSetup(s) \in Frame /\ DmaSetup(s).slotIndex = 0
          /\ "SDB" \notin DmaSetup(s).maskIS /\ ~DmaSetup(s).setup
      BY TransferFrames
    <3>2. /\ lResponseQueue' = Append(lResponseQueue, DmaSetup(s))
          /\ active' = active
      BY <1>1, <2>2, <3>1, SubmitFISLemma
    <3>3. /\ lResponseQueue' \in Seq(Frame)
          /\ \A t \in Slots : Framed(t)' <=> (Framed(t) \/ t = 0)
      BY <3>1, <3>2, AppendFrame
    <3>4. QueuesApart'
      BY <1>3, <3>1, <3>2, AppendApart
    <3> QED BY <3>2, <3>3, <3>4, SATAAssumption
  <2> QED BY <2>1, <2>2
<1>5. SATATypes'
  BY <1>1, <1>3, <1>4 DEF SATATypes, StepName
<1>6. \A t \in Slots : Pending(t)' <=> Pending(t)
  BY DEF Pending
<1>7. ASSUME NEW t \in Slots PROVE SlotInv(t)'
  <2>1. CASE t # s
    <3>1. \A p \in StepName : On(t, p)' <=> On(t, p)
      BY <1>1, <2>1 DEF On
    <3> QED BY <1>3, <1>4, <1>6, <2>1, <3>1, SlotUntouched
  <2>2. CASE t = s
    <3>1. /\ ~On(s, "nand")' /\ On(s, "prdtWrite")'
          /\ \A p \in StepName \ {"nand", "prdtWrite"} : On(s, p)' <=> On(s, p)
      BY <1>1 DEF On, StepName
    <3>2. ~Early(s)' /\ ~On(s, "scheduled")' /\ ~On(s, "prdtRead")'
      BY <1>1, <1>2, <1>6, <3>1 DEF Early, StepName
    <3>3. OnePlace(s)'
      BY <1>2, <1>3, <1>4, <3>1, <3>2 DEF OnePlace, Early
    <3>4. StepsOfKind(s)'
      BY <1>3, <3>1, <3>2 DEF StepsOfKind, Queued
    <3>5. s \notin commandIssue => ~Framed(s)
      BY DEF SlotInv, BitsTrue
    <3>6. BitsTrue(s)'
      BY <1>2, <1>3, <1>4, <3>2, <3>5 DEF BitsTrue, Queued
    <3> QED BY <2>2, <3>3, <3>4, <3>6 DEF SlotInv
  <2> QED BY <2>1, <2>2
<1> QED BY <1>4, <1>5, <1>7

(***************************************************************************)
(* The last step of a command: its job j ends, what it asks for is done,   *)
(* and it is answered by device bits if it is queued, otherwise by a       *)
(* register frame.                                                         *)
(***************************************************************************)
LEMMA AnsweredKeeps ==
  ASSUME SATAInv, NEW s \in Slots, NEW j \in {"nand", "prdtWrite"},
         On(s, j), ~On(s, "scheduled"),
         j = "nand" => command[s].kind # "readNCQ",
         jobs' = jobs \ {<<s, j>>},
         command' \in [Slots -> [kind : AllKinds \cup {"none"},
                                 nand : BOOLEAN, moved : BOOLEAN]],
         \A t \in Slots : command'[t].kind = command[t].kind,
         \A t \in Slots \ {s} : command'[t] = command[t],
         Finished(command'[s]),
         NEW resp \in Frame, Become(submitFIS(Answers, resp)), ~resp.setup,
         command[s].kind \in Queued =>
           resp.slotIndex = 0 /\ resp.of = s /\ "SDB" \in resp.maskIS,
         command[s].kind \notin Queued =>
           resp.slotIndex = s /\ "SDB" \notin resp.maskIS,
         UNCHANGED <<lRequestQueue, commandIssue>>
  PROVE  SATAInv'
<1> DEFINE kind == command[s].kind
<1> USE DEF SATAInv
<1>1. /\ \A p \in StepName \ {j} : ~On(s, p)
      /\ ~Pending(s) /\ kind # "none"
      /\ kind # "readNCQ" => ~Framed(s)
      /\ kind \notin Queued => s \in commandIssue /\ s \notin active
  BY DEF SlotInv, OnePlace, BitsTrue, StepsOfKind, Work, Early, Moving, StepName, Queued
<1>2. lResponseQueue' = Append(lResponseQueue, resp)
  BY SubmitFISLemma
<1>3. active' = IF kind \in Queued THEN active \ {s} ELSE active
  BY SubmitFISLemma
<1>4. lResponseQueue' \in Seq(Frame)
  BY <1>2, AppendFrame
<1>5. \A t \in Slots : Framed(t)' <=> (Framed(t) \/ (t = s /\ kind \notin Queued))
  <2>1. \A t \in Slots : Framed(t)' <=> (Framed(t) \/ resp.slotIndex = t)
    BY <1>2, AppendFrame
  <2> QED BY <2>1, SATAAssumption
<1>6. QueuesApart'
  <2>1. resp.slotIndex # 0 => ~Framed(resp.slotIndex)
    BY <1>1 DEF Queued
  <2> QED BY <1>2, <2>1, AppendApart
<1>7. SATATypes'
  BY <1>3, <1>4 DEF SATATypes
<1>8. \A t \in Slots : Pending(t)' <=> Pending(t)
  BY DEF Pending
<1>9. ASSUME NEW t \in Slots PROVE SlotInv(t)'
  <2>1. CASE t # s
    <3>1. \A p \in StepName : On(t, p)' <=> On(t, p)
      BY <2>1 DEF On
    <3> QED BY <1>3, <1>5, <1>8, <2>1, <3>1, SlotUntouched
  <2>2. CASE t = s
    <3>1. \A p \in StepName : ~On(s, p)'
      BY <1>1 DEF On
    <3>2. ~Early(s)' /\ ~Moving(s)' /\ ~Work(s)'
      BY <1>1, <1>8, <3>1 DEF Early, Moving, Work, StepName
    <3>3. OnePlace(s)' /\ StepsOfKind(s)'
      BY <1>1, <1>8, <3>1, <3>2 DEF OnePlace, StepsOfKind, StepName
    <3>4. s \notin commandIssue => ~Framed(s)
      BY DEF SlotInv, BitsTrue
    <3>5. BitsTrue(s)'
      BY <1>1, <1>3, <1>5, <3>1, <3>2, <3>4 DEF BitsTrue, StepName, Queued
    <3> QED BY <2>2, <3>3, <3>5 DEF SlotInv
  <2> QED BY <2>1, <2>2
<1> QED BY <1>6, <1>7, <1>9

LEMMA NandDoneKeeps ==
  ASSUME SATAInv, NEW s \in Slots, NandDone(s),
         UNCHANGED <<lRequestQueue, commandIssue>>
  PROVE  SATAInv'
<1> DEFINE kind == command[s].kind
<1>1. CASE kind \in {"readDMA", "readNCQ"}
  BY <1>1, NandReadKeeps
<1>2. CASE kind \notin {"readDMA", "readNCQ"}
  <2>1. /\ On(s, "nand") /\ ~On(s, "scheduled")
        /\ jobs' = jobs \ {<<s, "nand">>}
        /\ command' = [command EXCEPT ![s].nand = TRUE]
    BY <1>2 DEF NandDone, On
  <2>2. /\ kind \in {"writeNCQ", "writeDMA", "flushCache"}
        /\ kind \in {"writeNCQ", "writeDMA"} => command[s].moved
    BY <1>2, <2>1 DEF SATAInv, SlotInv, StepsOfKind, Queued
  <2>3. /\ command' \in [Slots -> [kind : AllKinds \cup {"none"},
                                   nand : BOOLEAN, moved : BOOLEAN]]
        /\ \A t \in Slots : command'[t].kind = command[t].kind
        /\ \A t \in Slots \ {s} : command'[t] = command[t]
        /\ Finished(command'[s])
    BY <2>1, <2>2 DEF SATAInv, SATATypes, Finished, Queued
  <2>4. CASE kind = "writeNCQ"
    <3>1. Become(submitFIS(Answers, DevBits(s)))
      BY <2>4 DEF NandDone
    <3> QED BY <2>1, <2>3, <2>4, <3>1, TransferFrames, AnsweredKeeps DEF Queued
  <2>5. CASE kind = "writeDMA"
    <3>1. Become(submitFIS(Answers, RegD2H(s, {"SG_DONE"})))
      BY <2>5 DEF NandDone
    <3>2. {"SG_DONE"} \subseteq {"TF_ERR", "SG_DONE"}
      OBVIOUS
    <3> QED BY <2>1, <2>3, <2>5, <3>1, <3>2, RegisterFrame, AnsweredKeeps
            DEF Queued
  <2>6. CASE kind = "flushCache"
    <3>1. Become(submitFIS(Answers, RegD2H(s, {})))
      BY <2>6 DEF NandDone
    <3> QED BY <2>1, <2>3, <2>6, <3>1, RegisterFrame, AnsweredKeeps
            DEF Queued
  <2> QED BY <2>2, <2>4, <2>5, <2>6
<1> QED BY <1>1, <1>2

LEMMA DataWrittenKeeps ==
  ASSUME SATAInv, NEW s \in Slots, DataWritten(s),
         UNCHANGED <<lRequestQueue, commandIssue>>
  PROVE  SATAInv'
<1> DEFINE kind == command[s].kind
<1>1. /\ On(s, "prdtWrite")
      /\ jobs' = jobs \ {<<s, "prdtWrite">>}
      /\ command' = [command EXCEPT ![s].moved = TRUE]
  BY DEF DataWritten, On
<1>2. /\ kind \in {"readNCQ", "readDMA", "identifyDevice"}
      /\ kind \in {"readNCQ", "readDMA"} => command[s].nand
      /\ ~On(s, "scheduled")
  BY <1>1 DEF SATAInv, SlotInv, StepsOfKind, OnePlace
<1>3. /\ command' \in [Slots -> [kind : AllKinds \cup {"none"},
                                 nand : BOOLEAN, moved : BOOLEAN]]
      /\ \A t \in Slots : command'[t].kind = command[t].kind
      /\ \A t \in Slots \ {s} : command'[t] = command[t]
      /\ Finished(command'[s])
  BY <1>1, <1>2 DEF SATAInv, SATATypes, Finished, Queued
<1>4. CASE kind = "readNCQ"
  <2>1. Become(submitFIS(Answers, DevBits(s)))
    BY <1>4 DEF DataWritten
  <2> QED BY <1>1, <1>2, <1>3, <1>4, <2>1, TransferFrames, AnsweredKeeps
          DEF Queued
<1>5. CASE kind # "readNCQ"
  <2>1. Become(submitFIS(Answers, RegD2H(s, {"SG_DONE"})))
    BY <1>5 DEF DataWritten
  <2>2. {"SG_DONE"} \subseteq {"TF_ERR", "SG_DONE"}
    OBVIOUS
  <2> QED BY <1>1, <1>2, <1>3, <1>5, <2>1, <2>2, RegisterFrame, AnsweredKeeps
          DEF Queued
<1> QED BY <1>4, <1>5

-----------------------------------------------------------------------------
(***************************************************************************)
(* The adapter fetches the slot at the front of its queue, which holds it  *)
(* once.                                                                   *)
(***************************************************************************)
LEMMA handleRequestKeeps ==
  ASSUME SATAInv, handleRequest
  PROVE  SATAInv'
<1> USE DEF SATAInv
<1>0. lRequestQueue \in Seq(Slots) /\ lRequestQueue # <<>>
  BY DEF SATATypes, handleRequest
<1>2. PICK s \in Slots : s = Head(lRequestQueue)
  BY <1>0
<1>1. /\ jobs' = jobs \cup {<<s, "header">>}
      /\ lRequestQueue # <<>> /\ lRequestQueue' = Tail(lRequestQueue)
      /\ UNCHANGED <<active, lResponseQueue, command, commandIssue>>
  BY <1>2 DEF handleRequest, answers, host
<1>3. /\ s \in Slots /\ s = lRequestQueue[1] /\ Len(lRequestQueue) \in Nat \ {0}
      /\ lRequestQueue' \in Seq(Slots)
      /\ Len(lRequestQueue') = Len(lRequestQueue) - 1
      /\ \A i \in 1 .. Len(lRequestQueue) - 1 :
           lRequestQueue'[i] = lRequestQueue[i + 1]
  BY <1>0, <1>2, <1>1
<1>4. SATATypes'
  BY <1>1, <1>3 DEF SATATypes, StepName
<1>5. QueuesApart'
  <2>1. \A i, j \in 1 .. Len(lRequestQueue') :
          lRequestQueue'[i] = lRequestQueue'[j] => i = j
    <3>1. \A i \in 1 .. Len(lRequestQueue) - 1 : i + 1 \in 1 .. Len(lRequestQueue)
      BY <1>3
    <3>2. \A i, j \in 1 .. Len(lRequestQueue) :
            lRequestQueue[i] = lRequestQueue[j] => i = j
      BY DEF QueuesApart
    <3>3. ASSUME NEW i \in 1 .. Len(lRequestQueue) - 1,
                 NEW j \in 1 .. Len(lRequestQueue) - 1,
                 lRequestQueue'[i] = lRequestQueue'[j]
          PROVE  i = j
      <4>1. lRequestQueue[i + 1] = lRequestQueue[j + 1]
        BY <1>3, <3>3
      <4>2. i + 1 = j + 1
        BY <3>1, <3>2, <4>1
      <4> QED BY <4>2
    <3> QED BY <1>3, <3>3
  <2> QED BY <1>1, <2>1 DEF QueuesApart
<1>6. Pending(s)
  BY <1>3 DEF Pending
<1>7. \A t \in Slots : Pending(t)' <=> Pending(t) /\ t # s
  <2>1. \A i \in 1 .. Len(lRequestQueue) : lRequestQueue[i] = s => i = 1
    BY <1>3 DEF QueuesApart
  <2>2. ASSUME NEW t \in Slots, Pending(t)' PROVE Pending(t) /\ t # s
    <3>1. PICK i \in 1 .. Len(lRequestQueue) - 1 : lRequestQueue'[i] = t
      BY <1>3, <2>2 DEF Pending
    <3>2. i + 1 \in 1 .. Len(lRequestQueue) /\ lRequestQueue[i + 1] = t
          /\ i + 1 # 1
      BY <1>3, <3>1
    <3> QED BY <2>1, <3>2 DEF Pending
  <2>3. ASSUME NEW t \in Slots, Pending(t), t # s PROVE Pending(t)'
    <3>1. PICK i \in 1 .. Len(lRequestQueue) : lRequestQueue[i] = t
      BY <2>3 DEF Pending
    <3>2. i - 1 \in 1 .. Len(lRequestQueue) - 1 /\ (i - 1) + 1 = i
      BY <1>3, <2>3, <3>1
    <3>3. lRequestQueue'[i - 1] = t
      BY <1>3, <3>1, <3>2
    <3> QED BY <1>3, <3>2, <3>3 DEF Pending
  <2> QED BY <2>2, <2>3
<1>8. \A t \in Slots : Framed(t)' <=> Framed(t)
  BY <1>1 DEF Framed
<1>9. ASSUME NEW t \in Slots PROVE SlotInv(t)'
  <2>1. CASE t # s
    <3>1. \A p \in StepName : On(t, p)' <=> On(t, p)
      BY <1>1, <2>1 DEF On
    <3> QED BY <1>1, <1>7, <1>8, <2>1, <3>1, SlotUntouched
  <2>2. CASE t = s
    <3>1. \A p \in StepName : ~On(s, p)
      BY <1>3, <1>6 DEF SlotInv, OnePlace
    <3>2. On(s, "header")' /\ \A p \in StepName \ {"header"} : ~On(s, p)'
      BY <1>1, <3>1 DEF On
    <3>3. ~Framed(s)' /\ Early(s)
      BY <1>3, <1>6, <1>8 DEF SlotInv, OnePlace, Early
    <3>4. OnePlace(s)' /\ StepsOfKind(s)'
      BY <1>3, <1>7, <3>2, <3>3
      DEF OnePlace, StepsOfKind, Early, Moving, StepName
    <3>5. BitsTrue(s)'
      BY <1>1, <1>3, <3>2, <3>3 DEF SlotInv, BitsTrue, Work, Moving, StepName
    <3> QED BY <2>2, <3>4, <3>5 DEF SlotInv
  <2> QED BY <2>1, <2>2
<1> QED BY <1>4, <1>5, <1>9

(***************************************************************************)
(* The host issues a command in a free slot, of which nothing is left.     *)
(***************************************************************************)
LEMMA IssueKeeps ==
  ASSUME SATAInv, NEW s \in Slots, NEW kind \in Kinds, Issue(s, kind)
  PROVE  SATAInv'
<1> USE DEF SATAInv
<1>1. /\ command[s] = Free
      /\ command' = [command EXCEPT ![s] = New(kind)]
      /\ active' = IF kind \in Queued THEN active \cup {s} ELSE active
      /\ commandIssue' = commandIssue \cup {s}
      /\ UNCHANGED <<lResponseQueue, jobs>>
  BY DEF Issue
<1>2. /\ ~Early(s) /\ ~On(s, "scheduled") /\ ~Moving(s) /\ ~Framed(s)
      /\ s \notin commandIssue /\ s \notin active
  BY <1>1 DEF Free, SlotInv, BitsTrue, Work, Queued
<1>3. lRequestQueue' = Append(lRequestQueue, s)
  BY <1>2 DEF Issue
<1>4. lRequestQueue \in Seq(Slots)
  BY DEF SATATypes
<1>5. /\ lRequestQueue' \in Seq(Slots) /\ Len(lRequestQueue) \in Nat
      /\ Len(lRequestQueue') = Len(lRequestQueue) + 1
      /\ lRequestQueue'[Len(lRequestQueue) + 1] = s
      /\ \A i \in 1 .. Len(lRequestQueue) : lRequestQueue'[i] = lRequestQueue[i]
  BY <1>3, <1>4
<1>6. /\ command'[s].kind = kind /\ kind # "none"
      /\ New(kind) \in [kind : AllKinds \cup {"none"}, nand : BOOLEAN,
                        moved : BOOLEAN]
      /\ \A t \in Slots \ {s} : command'[t] = command[t]
  BY <1>1, SATAAssumption DEF SATATypes, New, Free, AllKinds, Queued
<1>7. SATATypes'
  BY <1>1, <1>5, <1>6 DEF SATATypes
<1>8. \A t \in Slots : Pending(t)' <=> (Pending(t) \/ t = s)
  BY <1>5 DEF Pending
<1>9. \A t \in Slots : Framed(t)' <=> Framed(t)
  BY <1>1 DEF Framed
<1>10. QueuesApart'
  <2>1. \A i \in 1 .. Len(lRequestQueue) : lRequestQueue[i] # s
    BY <1>2 DEF Early, Pending
  <2>2. \A i, j \in 1 .. Len(lRequestQueue') :
          lRequestQueue'[i] = lRequestQueue'[j] => i = j
    BY <1>5, <2>1 DEF QueuesApart
  <2>3. \A i \in 1 .. Len(lResponseQueue) : lResponseQueue[i].setup =>
          command'[lResponseQueue[i].of].kind = "writeNCQ"
    BY <1>2, <1>6 DEF QueuesApart, Framed
  <2> QED BY <1>1, <2>2, <2>3 DEF QueuesApart
<1>11. ASSUME NEW t \in Slots PROVE SlotInv(t)'
  <2>1. CASE t # s
    <3>1. \A p \in StepName : On(t, p)' <=> On(t, p)
      BY <1>1 DEF On
    <3> QED BY <1>1, <1>6, <1>8, <1>9, <2>1, <3>1, SlotUntouched
  <2>2. CASE t = s
    <3>1. \A p \in StepName : ~On(s, p)'
      BY <1>1, <1>2 DEF On, Early, Moving, StepName
    <3>2. OnePlace(s)' /\ StepsOfKind(s)'
      BY <1>2, <1>9, <3>1 DEF OnePlace, StepsOfKind, StepName
    <3>3. BitsTrue(s)'
      BY <1>1, <1>2, <1>6, <1>9 DEF BitsTrue
    <3> QED BY <2>2, <3>2, <3>3 DEF SlotInv
  <2> QED BY <2>1, <2>2
<1> QED BY <1>7, <1>10, <1>11

(***************************************************************************)
(* The handler completes the commands that have neither bit: nothing is    *)
(* left of them.                                                           *)
(***************************************************************************)
LEMMA LeaveHandlerKeeps ==
  ASSUME SATAInv, LeaveHandler
  PROVE  SATAInv'
<1> USE DEF SATAInv
<1>1. /\ command' = [s \in Slots |-> IF SeenDone(s) THEN Free ELSE command[s]]
      /\ UNCHANGED <<lRequestQueue, lResponseQueue, jobs, active, commandIssue>>
  BY DEF LeaveHandler, answers
<1>2. /\ Free \in [kind : AllKinds \cup {"none"}, nand : BOOLEAN,
                   moved : BOOLEAN]
      /\ Free.kind = "none"
  BY DEF Free
<1>3. SATATypes'
  BY <1>1, <1>2 DEF SATATypes
<1>4. \A t \in Slots : (Pending(t)' <=> Pending(t)) /\ (Framed(t)' <=> Framed(t))
  BY <1>1 DEF Pending, Framed
<1>5. \A t \in Slots : \A p \in StepName : On(t, p)' <=> On(t, p)
  BY <1>1 DEF On
<1>6. ASSUME NEW t \in Slots, SeenDone(t)
      PROVE  /\ ~Work(t) /\ ~Framed(t)
             /\ t \notin commandIssue /\ t \notin active
  BY <1>6 DEF SeenDone, SlotInv, BitsTrue
<1>7. QueuesApart'
  <2>1. ASSUME NEW i \in 1 .. Len(lResponseQueue), lResponseQueue[i].setup
        PROVE  command'[lResponseQueue[i].of].kind = "writeNCQ"
    <3>1. /\ lResponseQueue[i].of \in Slots /\ Framed(lResponseQueue[i].of)
          /\ command[lResponseQueue[i].of].kind = "writeNCQ"
      BY <2>1 DEF QueuesApart, Framed
    <3> QED BY <1>1, <1>6, <3>1
  <2> QED BY <1>1, <2>1 DEF QueuesApart
<1>8. ASSUME NEW t \in Slots PROVE SlotInv(t)'
  <2>1. CASE ~SeenDone(t)
    BY <1>1, <1>4, <1>5, <2>1, SlotUntouched
  <2>2. CASE SeenDone(t)
    <3>1. command'[t] = Free
      BY <1>1, <2>2
    <3>2. ~Pending(t)' /\ ~Framed(t)' /\ \A p \in StepName : ~On(t, p)'
      BY <1>4, <1>5, <1>6, <2>2 DEF Work, Early, Moving, StepName
    <3>3. ~Early(t)' /\ ~Moving(t)' /\ ~Work(t)'
      BY <3>2 DEF Work, Early, Moving, StepName
    <3>4. OnePlace(t)' /\ StepsOfKind(t)'
      BY <3>2, <3>3 DEF OnePlace, StepsOfKind, StepName
    <3>5. BitsTrue(t)'
      BY <1>1, <1>2, <1>6, <2>2, <3>1, <3>2, <3>3
      DEF BitsTrue, Finished, Queued, StepName
    <3> QED BY <3>4, <3>5 DEF SlotInv
  <2> QED BY <2>1, <2>2
<1> QED BY <1>3, <1>7, <1>8

(***************************************************************************)
(* The host has taken the frame at the front, which is taken off: it was   *)
(* the only one to name its slot.                                          *)
(***************************************************************************)
FrontAndRest(f, q) ==
  /\ f \in Frame /\ q \in Seq(Frame)
  /\ f = lResponseQueue[1] /\ 1 \in 1 .. Len(lResponseQueue)
  /\ Len(q) = Len(lResponseQueue) - 1 /\ Len(lResponseQueue) \in Nat
  /\ \A i \in 1 .. Len(q) : /\ q[i] = lResponseQueue[i + 1]
                            /\ i + 1 \in 1 .. Len(lResponseQueue)
  /\ \A s \in Slots : (\E i \in 1 .. Len(q) : q[i].slotIndex = s)
                        <=> Framed(s) /\ s # f.slotIndex

LEMMA TailFrame ==
  ASSUME SATATypes, QueuesApart, lResponseQueue # <<>>,
         NEW f, f = Head(lResponseQueue), NEW q, q = Tail(lResponseQueue)
  PROVE  FrontAndRest(f, q)
<1>1. lResponseQueue \in Seq(Frame)
  BY DEF SATATypes
<1>2. /\ f \in Frame /\ q \in Seq(Frame)
      /\ f = lResponseQueue[1] /\ 1 \in 1 .. Len(lResponseQueue)
      /\ Len(q) = Len(lResponseQueue) - 1 /\ Len(lResponseQueue) \in Nat
      /\ \A i \in 1 .. Len(q) : /\ q[i] = lResponseQueue[i + 1]
                                /\ i + 1 \in 1 .. Len(lResponseQueue)
  BY <1>1
<1>3. ASSUME NEW s \in Slots, NEW i \in 1 .. Len(q), q[i].slotIndex = s
      PROVE  Framed(s) /\ s # f.slotIndex
  <2>1. /\ lResponseQueue[i + 1].slotIndex = s
        /\ i + 1 \in 1 .. Len(lResponseQueue) /\ i + 1 # 1 /\ s # 0
    BY <1>2, <1>3, SATAAssumption
  <2> QED BY <1>2, <2>1 DEF Framed, QueuesApart
<1>4. ASSUME NEW s \in Slots, Framed(s), s # f.slotIndex
      PROVE  \E i \in 1 .. Len(q) : q[i].slotIndex = s
  <2>1. PICK i \in 1 .. Len(lResponseQueue) : lResponseQueue[i].slotIndex = s
    BY <1>4 DEF Framed
  <2>2. i - 1 \in 1 .. Len(q) /\ (i - 1) + 1 = i
    BY <1>2, <1>4, <2>1
  <2>3. q[i - 1].slotIndex = s
    BY <1>2, <2>1, <2>2
  <2> QED BY <2>2, <2>3
<1> QED BY <1>2, <1>3, <1>4 DEF FrontAndRest

(***************************************************************************)
(* The host writes PxIS: the frame at the front goes and clears its bit of *)
(* PxCI; that of a queued write starts the transfer.                       *)
(***************************************************************************)
LEMMA WritePortStatusKeeps ==
  ASSUME SATAInv, WritePortStatus, lResponseQueue # <<>>
  PROVE  SATAInv'
<1> USE DEF SATAInv
<1>1. PICK f : f = Head(lResponseQueue)
  OBVIOUS
<1>2. PICK q : q = Tail(lResponseQueue)
  OBVIOUS
<1>3. /\ f \in Frame /\ q \in Seq(Frame)
      /\ f = lResponseQueue[1] /\ 1 \in 1 .. Len(lResponseQueue)
      /\ Len(q) = Len(lResponseQueue) - 1 /\ Len(lResponseQueue) \in Nat
      /\ \A i \in 1 .. Len(q) : /\ q[i] = lResponseQueue[i + 1]
                                /\ i + 1 \in 1 .. Len(lResponseQueue)
      /\ \A s \in Slots : (\E i \in 1 .. Len(q) : q[i].slotIndex = s)
                            <=> Framed(s) /\ s # f.slotIndex
  <2>1. SATATypes /\ QueuesApart
    OBVIOUS
  <2>2. FrontAndRest(f, q)
    BY ONLY <1>1, <1>2, <2>1, lResponseQueue # <<>>, TailFrame
  <2> QED BY <2>2 DEF FrontAndRest
<1>4. /\ UNCHANGED <<command, lRequestQueue>>
      /\ commandIssue' = commandIssue \ {f.slotIndex}
  BY <1>1 DEF WritePortStatus
<1>5. /\ PopResponse(Answers).active = active
      /\ PopResponse(Answers).queue = q
  BY <1>2 DEF PopResponse, handleResponse, Answers
<1>6. /\ f.setup => /\ f.slotIndex = f.of /\ f.of \in Slots
                    /\ command[f.of].kind = "writeNCQ"
      /\ f.slotIndex \in Slots => Framed(f.slotIndex)
      /\ f.slotIndex \in Slots \cup {0}
  BY <1>3 DEF QueuesApart, Framed, Frame
<1>7. /\ active' = active
      /\ f.setup => /\ jobs' = jobs \cup {<<f.of, "prdtRead">>}
                    /\ lResponseQueue' = Append(q, DmaSetup(f.of))
      /\ ~f.setup => jobs' = jobs /\ lResponseQueue' = q
  <2>1. CASE f.setup
    <3>1. /\ Become(submitFIS(PopResponse(Answers), DmaSetup(f.of)))
          /\ jobs' = jobs \cup {<<f.of, "prdtRead">>}
      BY <1>1, <2>1 DEF WritePortStatus
    <3>2. "SDB" \notin DmaSetup(f.of).maskIS
      BY <1>6, <2>1, TransferFrames
    <3>3. /\ PopResponse(Answers) = [active |-> PopResponse(Answers).active,
                                     queue |-> PopResponse(Answers).queue,
                                     dma |-> PopResponse(Answers).dma]
      BY DEF PopResponse, handleResponse, Answers
    <3>4. active' = active /\ lResponseQueue' = Append(q, DmaSetup(f.of))
      BY <1>5, <3>1, <3>2, <3>3 DEF Become, submitFIS, handleResponse
    <3> QED BY <2>1, <3>1, <3>4
  <2>2. CASE ~f.setup
    <3>1. Become(PopResponse(Answers)) /\ jobs' = jobs
      BY <1>1, <2>2 DEF WritePortStatus
    <3> QED BY <1>5, <2>2, <3>1 DEF Become
  <2> QED BY <2>1, <2>2
<1>8. /\ Len(lResponseQueue') \in Nat /\ lResponseQueue' \in Seq(Frame)
      /\ Len(q) <= Len(lResponseQueue') /\ Len(lResponseQueue') <= Len(q) + 1
      /\ \A i \in 1 .. Len(q) : lResponseQueue'[i] = q[i]
      /\ \A i \in 1 .. Len(lResponseQueue') : i \notin 1 .. Len(q) =>
           lResponseQueue'[i].slotIndex = 0 /\ ~lResponseQueue'[i].setup
  <2>1. CASE f.setup
    <3>1. /\ DmaSetup(f.of) \in Frame /\ DmaSetup(f.of).slotIndex = 0
          /\ ~DmaSetup(f.of).setup
      BY <1>6, <2>1, TransferFrames
    <3>2. lResponseQueue' = Append(q, DmaSetup(f.of)) /\ Len(q) \in Nat
      BY <1>3, <1>7, <2>1
    <3>3. /\ lResponseQueue' \in Seq(Frame)
          /\ Len(lResponseQueue') = Len(q) + 1
          /\ lResponseQueue'[Len(q) + 1] = DmaSetup(f.of)
          /\ \A i \in 1 .. Len(q) : lResponseQueue'[i] = q[i]
      BY <1>3, <3>1, <3>2
    <3>4. \A i \in 1 .. Len(q) + 1 : i \notin 1 .. Len(q) => i = Len(q) + 1
      BY <3>2
    <3> QED BY <3>1, <3>2, <3>3, <3>4
  <2>2. CASE ~f.setup
    BY <1>3, <1>7, <2>2
  <2> QED BY <2>1, <2>2
<1>9. \A s \in Slots : Framed(s)' <=> Framed(s) /\ s # f.slotIndex
  <2>1. \A s \in Slots : Framed(s)' <=> \E i \in 1 .. Len(q) : q[i].slotIndex = s
    BY <1>3, <1>8, SATAAssumption DEF Framed
  <2> QED BY <1>3, <2>1
<1>10. SATATypes'
  BY <1>4, <1>6, <1>7, <1>8 DEF SATATypes, StepName
<1>11. QueuesApart'
  <2>1. ASSUME NEW i \in 1 .. Len(lResponseQueue'),
               NEW j \in 1 .. Len(lResponseQueue'),
               lResponseQueue'[i].slotIndex = lResponseQueue'[j].slotIndex,
               lResponseQueue'[i].slotIndex # 0
        PROVE  i = j
    <3>1. i \in 1 .. Len(q) /\ j \in 1 .. Len(q)
      BY <1>8, <2>1
    <3>2. /\ lResponseQueue[i + 1].slotIndex = lResponseQueue[j + 1].slotIndex
          /\ lResponseQueue[i + 1].slotIndex # 0
          /\ i + 1 \in 1 .. Len(lResponseQueue)
          /\ j + 1 \in 1 .. Len(lResponseQueue)
      BY <1>3, <1>8, <2>1, <3>1, SMTT(30)
    <3>3. i + 1 = j + 1
      BY <3>2 DEF QueuesApart
    <3> QED BY <3>3
  <2>2. ASSUME NEW i \in 1 .. Len(lResponseQueue'), lResponseQueue'[i].setup
        PROVE  /\ lResponseQueue'[i].slotIndex = lResponseQueue'[i].of
               /\ lResponseQueue'[i].of \in Slots
               /\ command'[lResponseQueue'[i].of].kind = "writeNCQ"
    <3>1. i \in 1 .. Len(q)
      BY <1>8, <2>2
    <3>2. /\ lResponseQueue'[i] = lResponseQueue[i + 1]
          /\ i + 1 \in 1 .. Len(lResponseQueue)
      BY <1>3, <1>8, <3>1
    <3> QED BY <1>4, <2>2, <3>2 DEF QueuesApart
  <2>3. \A i, j \in 1 .. Len(lRequestQueue') :
          lRequestQueue'[i] = lRequestQueue'[j] => i = j
    BY <1>4 DEF QueuesApart
  <2> QED BY <2>1, <2>2, <2>3 DEF QueuesApart
<1>12. \A t \in Slots : Pending(t)' <=> Pending(t)
  BY <1>4 DEF Pending
<1>13. ASSUME NEW t \in Slots PROVE SlotInv(t)'
  <2>1. CASE t # f.slotIndex
    <3>1. \A p \in StepName : On(t, p)' <=> On(t, p)
      BY <1>6, <1>7, <2>1 DEF On
    <3> QED BY <1>4, <1>7, <1>9, <1>12, <2>1, <3>1, SlotUntouched
  <2>2. CASE t = f.slotIndex
    <3>1. /\ Framed(t) /\ ~Framed(t)' /\ ~Early(t) /\ ~On(t, "scheduled")
          /\ command[t].kind # "readNCQ" => ~Moving(t)
      BY <1>6, <1>9, <2>2 DEF SlotInv, OnePlace
    <3>2. /\ t \notin commandIssue' /\ command[t].kind # "none"
          /\ command[t].kind \notin Queued =>
               Finished(command[t]) /\ t \notin active
          /\ command[t].kind = "writeNCQ" => t \in active
          /\ command[t].kind \in Queued =>
               /\ Work(t) => t \in active
               /\ t \notin active => Finished(command[t])
      BY <1>4, <2>2, <3>1 DEF SlotInv, BitsTrue, Queued
    <3>3. CASE f.setup
      <4>1. /\ command[t].kind = "writeNCQ"
            /\ On(t, "prdtRead")'
            /\ \A p \in StepName \ {"prdtRead"} : On(t, p)' <=> On(t, p)
        BY <1>6, <1>7, <2>2, <3>3 DEF On
      <4>2. ~Early(t)' /\ ~On(t, "scheduled")' /\ ~On(t, "nand")'
            /\ ~On(t, "prdtWrite")'
        BY <1>12, <3>1, <4>1 DEF Early, Moving, StepName
      <4>3. OnePlace(t)' /\ StepsOfKind(t)'
        BY <1>4, <3>1, <4>1, <4>2
        DEF OnePlace, StepsOfKind, Early, Moving, StepName
      <4>4. BitsTrue(t)'
        BY <1>4, <1>7, <3>1, <3>2, <4>1, <4>2 DEF BitsTrue, Queued
      <4> QED BY <4>3, <4>4 DEF SlotInv
    <3>4. CASE ~f.setup
      <4>1. \A p \in StepName : On(t, p)' <=> On(t, p)
        BY <1>7, <3>4 DEF On
      <4>2. ~Early(t)' /\ ~On(t, "scheduled")' /\ (Moving(t)' <=> Moving(t))
        BY <1>12, <3>1, <4>1 DEF Early, Moving, StepName
      <4>3. OnePlace(t)'
        BY <1>4, <3>1, <4>1, <4>2 DEF SlotInv, OnePlace, Early, StepName
      <4>4. StepsOfKind(t)'
        BY <1>4, <4>1 DEF SlotInv, StepsOfKind, StepName
      <4>5. BitsTrue(t)'
        BY <1>4, <1>7, <3>1, <3>2, <4>2
        DEF BitsTrue, Queued, Work
      <4> QED BY <4>3, <4>4, <4>5 DEF SlotInv
    <3> QED BY <3>3, <3>4
  <2> QED BY <2>1, <2>2
<1> QED BY <1>10, <1>11, <1>13

(***************************************************************************)
(* The signature names no slot.                                            *)
(***************************************************************************)
LEMMA ComresetKeeps ==
  ASSUME SATAInv, Comreset
  PROVE  SATAInv'
<1> DEFINE signal == Completion(0, 0, {"TF_ERR", "D2H", "signal"}, FALSE)
<1> USE DEF SATAInv
<1>1. /\ lResponseQueue' = Append(lResponseQueue, signal)
      /\ UNCHANGED <<active, lRequestQueue, jobs, command, commandIssue>>
  BY DEF Comreset, Become, Answers
<1>2. signal \in Frame /\ signal.slotIndex = 0 /\ ~signal.setup
  BY DEF Completion, Frame
<1> HIDE DEF signal
<1>3. /\ lResponseQueue' \in Seq(Frame)
      /\ \A s \in Slots : Framed(s)' <=> (Framed(s) \/ 0 = s)
  BY <1>1, <1>2, AppendFrame
<1>4. SATATypes'
  BY <1>1, <1>3 DEF SATATypes
<1>5. QueuesApart'
  BY <1>1, <1>2, AppendApart
<1>6. ASSUME NEW t \in Slots PROVE SlotInv(t)'
  <2>1. /\ Pending(t)' <=> Pending(t)
        /\ Framed(t)' <=> Framed(t)
        /\ \A p \in StepName : On(t, p)' <=> On(t, p)
    BY <1>1, <1>3, SATAAssumption DEF Pending, On
  <2> QED BY <1>1, <2>1, SlotUntouched
<1> QED BY <1>4, <1>5, <1>6

(***************************************************************************)
(* The other steps change registers the invariant does not speak of.       *)
(***************************************************************************)
LEMMA UntouchedKeeps ==
  ASSUME SATAInv,
         UNCHANGED <<command, lRequestQueue, lResponseQueue, jobs,
                     commandIssue, active>>
  PROVE  SATAInv'
<1>1. SATATypes' /\ QueuesApart'
  BY DEF SATAInv, SATATypes, QueuesApart
<1>2. ASSUME NEW t \in Slots PROVE SlotInv(t)'
  <2>1. /\ Pending(t)' <=> Pending(t)
        /\ Framed(t)' <=> Framed(t)
        /\ \A p \in StepName : On(t, p)' <=> On(t, p)
    BY DEF Pending, Framed, On
  <2> QED BY <2>1, SlotUntouched DEF SATAInv
<1> QED BY <1>1, <1>2 DEF SATAInv

(***************************************************************************)
(* All slots are free at the start.                                        *)
(***************************************************************************)
LEMMA InitSATAInv == Init => SATAInv
<1> SUFFICES ASSUME Init PROVE SATAInv
  OBVIOUS
<1>1. SATATypes /\ QueuesApart
  BY DEF Init, SATATypes, QueuesApart, Free
<1>2. ASSUME NEW s \in Slots PROVE SlotInv(s)
  <2>1. command[s] = Free /\ Free.kind = "none"
    BY DEF Init, Free
  <2>2. /\ ~Pending(s) /\ ~Framed(s) /\ \A p \in StepName : ~On(s, p)
        /\ s \notin commandIssue /\ s \notin active
    BY DEF Init, Pending, Framed, On
  <2>3. ~Early(s) /\ ~Moving(s) /\ ~Work(s)
    BY <2>2 DEF Early, Moving, Work, StepName
  <2> QED BY <2>1, <2>2, <2>3 DEF SlotInv, OnePlace, StepsOfKind, BitsTrue,
                                  Finished, Queued, StepName
<1> QED BY <1>1, <1>2 DEF SATAInv

(***************************************************************************)
(* Every step keeps the invariant.                                         *)
(***************************************************************************)
LEMMA NextSATAInv == SATAInv /\ [Next]_vars => SATAInv'
<1> SUFFICES ASSUME SATAInv, [Next]_vars PROVE SATAInv'
  OBVIOUS
<1>1. CASE FISWritten
  BY <1>1, UntouchedKeeps DEF FISWritten, host
<1>2. CASE handleRequest
  BY <1>2, handleRequestKeeps
<1>3. CASE DeviceWorks
  <2>1. UNCHANGED <<lRequestQueue, commandIssue>>
    BY <1>3 DEF DeviceWorks
  <2>2. PICK s \in Slots :
          \/ HeaderRead(s)
          \/ TableRead(s, "fis", "prdt") \/ TableRead(s, "prdt", "fis")
          \/ SendScheduled(s) \/ DataRead(s) \/ NandDone(s) \/ DataWritten(s)
    BY <1>3 DEF DeviceWorks
  <2>3. CASE HeaderRead(s)
    BY <2>1, <2>3, HeaderReadKeeps
  <2>4. CASE TableRead(s, "fis", "prdt") \/ TableRead(s, "prdt", "fis")
    <3>1. CASE TableRead(s, "fis", "prdt")
      BY <2>1, <3>1, "fis" # "prdt", TableReadKeeps
    <3>2. CASE TableRead(s, "prdt", "fis")
      BY <2>1, <3>2, "prdt" # "fis", TableReadKeeps
    <3> QED BY <2>4, <3>1, <3>2
  <2>5. CASE SendScheduled(s)
    BY <2>1, <2>5, SendScheduledKeeps
  <2>6. CASE DataRead(s)
    BY <2>1, <2>6, DataReadKeeps
  <2>7. CASE NandDone(s)
    BY <2>1, <2>7, NandDoneKeeps
  <2>8. CASE DataWritten(s)
    BY <2>1, <2>8, DataWrittenKeeps
  <2> QED BY <2>2, <2>3, <2>4, <2>5, <2>6, <2>7, <2>8
<1>4. CASE EnterHandler
  BY <1>4, UntouchedKeeps DEF EnterHandler, answers
<1>5. CASE WritePortStatus
  <2>1. CASE lResponseQueue = <<>>
    BY <1>5, <2>1, UntouchedKeeps DEF WritePortStatus, answers
  <2> QED BY <1>5, <2>1, WritePortStatusKeeps
<1>6. CASE LeaveHandler
  BY <1>6, LeaveHandlerKeeps
<1>7. CASE Comreset
  BY <1>7, ComresetKeeps
<1>8. CASE StartPort
  BY <1>8, UntouchedKeeps DEF StartPort, answers
<1>9. CASE ResetAdapter
  BY <1>9, UntouchedKeeps DEF ResetAdapter, answers
<1>10. CASE \E s \in Slots, k \in Kinds : Issue(s, k)
  BY <1>10, IssueKeeps
<1>11. CASE UNCHANGED vars
  BY <1>11, UntouchedKeeps DEF vars
<1> QED BY <1>1, <1>2, <1>3, <1>4, <1>5, <1>6, <1>7, <1>8, <1>9, <1>10, <1>11
        DEF Next, Handler

(***************************************************************************)
(* For every number of slots, commands and resets: when the bits of PxCI   *)
(* and PxSACT that HBA::interruptCleared and HBA::submitFIS clear say that *)
(* a command is done, its data was moved, the flash has done its part, and *)
(* the device works on nothing for the slot.                               *)
(***************************************************************************)
THEOREM CommandsDoneWhenSeen == Spec => []DoneMeansDone
<1>1. SATAInv => DoneMeansDone
  <2> SUFFICES ASSUME SATAInv, NEW s \in Slots, SeenDone(s)
               PROVE  /\ Finished(command[s])
                      /\ \A j \in jobs : j[1] # s
    BY DEF DoneMeansDone, Finished
  <2>1. SlotInv(s) /\ s \notin commandIssue /\ s \notin active
    BY DEF SATAInv, SeenDone
  <2>2. Finished(command[s]) /\ ~Work(s)
    BY <2>1 DEF SlotInv, BitsTrue
  <2>3. \A p \in StepName : <<s, p>> \notin jobs
    BY <2>2 DEF Work, Early, Moving, On, StepName
  <2>4. ASSUME NEW j \in jobs PROVE j[1] # s
    <3>1. j \in Slots \X StepName
      BY DEF SATAInv, SATATypes
    <3> QED BY <2>3, <3>1
  <2> QED BY <2>2, <2>4
<1> QED BY <1>1, InitSATAInv, NextSATAInv, PTL DEF Spec
=============================================================================
